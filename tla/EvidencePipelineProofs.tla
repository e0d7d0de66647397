------------------------ MODULE EvidencePipelineProofs ------------------------
(***************************************************************************)
(* Theorems about EvidencePipeline for any events, payloads and workers,   *)
(* any number of attempts, and any thresholds, floors and limits.          *)
(*                                                                         *)
(* The heart is Undisturbed: an event whose history has not changed since  *)
(* it was first claimed has one verdict per piece of evidence (Final), and *)
(* every row, every signal and every result of any worker at it is that    *)
(* verdict or not there yet.                                               *)
(***************************************************************************)
EXTENDS EvidencePipeline, TLAPS

LEMMA EvidenceSplit ==
    /\ Of("forecast") \subseteq Evidence /\ Of("anomaly") \subseteq Evidence
    /\ Of("forecast") \cap Of("anomaly") = {}
    /\ Of("forecast") \cup Of("anomaly") = Evidence
    /\ \A x \in Evidence : x[1] \in {"forecast", "anomaly"}
BY DEF Of, Evidence

(* The scores are bands, whatever the history. *)
LEMMA VerdictBand ==
    ASSUME NEW e, NEW x, NEW S
    PROVE  Verdict(e, x, S) \in Bands
BY DEF Verdict, Risk, Severity, Bands

LEMMA SeriousBand ==
    ASSUME NEW band \in Bands
    PROVE  Serious(band) \in Bands \ {"watch"} /\ (Serious(band) # "none" => band # "none")
BY DEF Serious, Bands

LEMMA NothingFacts ==
    Nothing \in [Evidence -> Bands \ {"watch"}] /\ \A x \in Evidence : Nothing[x] = "none"
BY DEF Nothing, Bands

LEMMA InsertFacts ==
    ASSUME NEW B, NEW old \in [Evidence -> B], NEW new \in [Evidence -> B]
    PROVE  /\ Insert(old, new) \in [Evidence -> B]
           /\ \A x \in Evidence :
                 Insert(old, new)[x] = IF old[x] = "none" THEN new[x] ELSE old[x]
BY DEF Insert

LEMMA InsertRow ==
    ASSUME NEW old, NEW new, NEW x \in Evidence
    PROVE  Insert(old, new)[x] = IF old[x] = "none" THEN new[x] ELSE old[x]
BY DEF Insert

LEMMA OnlyFacts ==
    ASSUME NEW bands \in [Evidence -> Bands], NEW source
    PROVE  /\ Only(bands, source) \in [Evidence -> Bands]
           /\ \A x \in Evidence :
                 Only(bands, source)[x] = IF x \in Of(source) THEN bands[x] ELSE "none"
BY DEF Only, Of, Bands

LEMMA SignalsFacts ==
    ASSUME NEW bands \in [Evidence -> Bands]
    PROVE  /\ Signals(bands) \in [Evidence -> Bands \ {"watch"}]
           /\ \A x \in Evidence : Signals(bands)[x] = Serious(bands[x])
BY SeriousBand DEF Signals

-----------------------------------------------------------------------------
(* Type correctness. *)

LEMMA InitType == Init => TypeOK
BY NothingFacts DEF Init, TypeOK, Statuses, Steps, Bands

LEMMA LeaveType ==
    ASSUME TypeOK, NEW w \in Workers, Leave(w)
    PROVE  /\ job' \in [Workers -> Events \cup {Null}]
           /\ step' \in [Workers -> Steps]
           /\ todo' \in [Workers -> SUBSET Evidence]
           /\ result' \in [Workers -> [Evidence -> Bands]]
<1>1. Nothing \in [Evidence -> Bands]
  BY NothingFacts
<1> QED BY <1>1 DEF TypeOK, Leave, Steps

LEMMA SettleType ==
    ASSUME TypeOK, NEW e \in Events, NEW outcome \in Statuses, Settle(e, outcome)
    PROVE  /\ payload' \in [Events -> Payloads \cup {Null}]
           /\ status' \in [Events -> Statuses]
           /\ attempts' \in [Events -> Nat]
           /\ lease' \in [Events -> Workers \cup {Null}]
BY DEF TypeOK, Settle

LEMMA NextType == TypeOK /\ [Next]_vars => TypeOK'
<1> SUFFICES ASSUME TypeOK, [Next]_vars PROVE TypeOK'
  OBVIOUS
<1>1. ASSUME NEW e \in Events, NEW p \in Payloads, Store(e, p) PROVE TypeOK'
  BY <1>1 DEF TypeOK, Store, tables, worker, Statuses
<1>2. ASSUME NEW w \in Workers, NEW e \in Events, Claim(w, e) PROVE TypeOK'
  BY <1>2 DEF TypeOK, Claim, tables
<1>3. ASSUME NEW w \in Workers, WriteSamples(w) PROVE TypeOK'
  <2>1. job[w] \in Events
    BY <1>3 DEF WriteSamples, TypeOK
  <2>2. sampled' \subseteq Events /\ grown' \subseteq Events
    BY <1>3, <2>1 DEF WriteSamples, TypeOK
  <2>3. step' \in [Workers -> Steps] /\ todo' \in [Workers -> SUBSET Evidence]
    BY <1>3, EvidenceSplit DEF WriteSamples, TypeOK, Steps
  <2> QED BY <1>3, <2>2, <2>3 DEF WriteSamples, TypeOK, queue
<1>4. ASSUME NEW w \in Workers, NEW x \in Evidence, Derive(w, x) PROVE TypeOK'
  <2>1. Verdict(job[w], x, sampled) \in Bands
    BY VerdictBand
  <2>2. result' \in [Workers -> [Evidence -> Bands]]
    BY <1>4, <2>1 DEF Derive, TypeOK
  <2> QED BY <1>4, <2>2 DEF Derive, TypeOK, queue, tables
<1>5. ASSUME NEW w \in Workers, StoreForecasts(w) PROVE TypeOK'
  <2>1. job[w] \in Events /\ derived[job[w]] \in [Evidence -> Bands]
    BY <1>5 DEF StoreForecasts, TypeOK
  <2>2. Insert(derived[job[w]], Only(result[w], "forecast")) \in [Evidence -> Bands]
    BY <2>1, InsertFacts, OnlyFacts DEF TypeOK
  <2>3. derived' \in [Events -> [Evidence -> Bands]]
    BY <1>5, <2>2 DEF StoreForecasts, TypeOK
  <2>4. step' \in [Workers -> Steps] /\ todo' \in [Workers -> SUBSET Evidence]
    BY <1>5, EvidenceSplit DEF StoreForecasts, TypeOK, Steps
  <2> QED BY <1>5, <2>3, <2>4 DEF StoreForecasts, TypeOK, queue
<1>6. ASSUME NEW w \in Workers, StoreAnomalies(w) PROVE TypeOK'
  <2>1. job[w] \in Events /\ derived[job[w]] \in [Evidence -> Bands]
    BY <1>6 DEF StoreAnomalies, TypeOK
  <2>2. Insert(derived[job[w]], Only(result[w], "anomaly")) \in [Evidence -> Bands]
    BY <2>1, InsertFacts, OnlyFacts DEF TypeOK
  <2>3. derived' \in [Events -> [Evidence -> Bands]]
    BY <1>6, <2>2 DEF StoreAnomalies, TypeOK
  <2> QED BY <1>6, <2>3 DEF StoreAnomalies, TypeOK, queue, Steps
<1>7. ASSUME NEW w \in Workers, RecordSignals(w) PROVE TypeOK'
  <2>1. job[w] \in Events /\ filed[job[w]] \in [Evidence -> Bands \ {"watch"}]
    BY <1>7 DEF RecordSignals, TypeOK
  <2>2. Insert(filed[job[w]], Signals(result[w])) \in [Evidence -> Bands \ {"watch"}]
    BY <2>1, InsertFacts, SignalsFacts DEF TypeOK
  <2>3. filed' \in [Events -> [Evidence -> Bands \ {"watch"}]]
    BY <1>7, <2>2 DEF RecordSignals, TypeOK
  <2> QED BY <1>7, <2>3 DEF RecordSignals, TypeOK, queue, Steps
<1>8. ASSUME NEW w \in Workers, Complete(w) PROVE TypeOK'
  <2>1. job[w] \in Events /\ "processed" \in Statuses
    BY <1>8 DEF Complete, TypeOK, Statuses
  <2> QED BY <1>8, <2>1, LeaveType, SettleType DEF Complete, TypeOK, queue, tables
<1>9. ASSUME NEW w \in Workers, Fail(w) PROVE TypeOK'
  <2>1. job[w] \in Events /\ "dead_letter" \in Statuses /\ "open" \in Statuses
    BY <1>9 DEF Fail, TypeOK, Statuses
  <2> QED BY <1>9, <2>1, LeaveType, SettleType DEF Fail, TypeOK, queue, tables
<1>10. ASSUME NEW w \in Workers, LateFail(w) PROVE TypeOK'
  <2>1. job[w] \in Events /\ "dead_letter" \in Statuses /\ "open" \in Statuses
    BY <1>10 DEF LateFail, TypeOK, Statuses
  <2> QED BY <1>10, <2>1, LeaveType, SettleType DEF LateFail, TypeOK, tables
<1>11. ASSUME NEW w \in Workers, Crash(w) PROVE TypeOK'
  BY <1>11, LeaveType DEF Crash, TypeOK, queue, tables
<1>12. CASE UNCHANGED vars
  BY <1>12 DEF TypeOK, vars, queue, tables, worker
<1> QED BY <1>1, <1>2, <1>3, <1>4, <1>5, <1>6, <1>7, <1>8, <1>9, <1>10, <1>11, <1>12 DEF Next

(* In every reachable state the queue, the tables and the workers have     *)
(* their types: no band or status outside the schema's CHECKs is written.  *)
THEOREM EvidenceTypeCorrect == Spec => []TypeOK
BY InitType, NextType, PTL DEF Spec

-----------------------------------------------------------------------------
(* The story of an attempt. *)

(* The evidence a worker has derived, and has stored, in its attempt. *)
Scored(w) ==
    IF step[w] = "samples" THEN {}
    ELSE IF step[w] = "forecasts" THEN Of("forecast") \ todo[w]
    ELSE IF step[w] = "anomalies" THEN Evidence \ todo[w]
    ELSE Evidence
Stored(w) ==
    IF step[w] \in {"samples", "forecasts"} THEN {}
    ELSE IF step[w] = "anomalies" THEN Of("forecast")
    ELSE Evidence

(* Where a worker is in its attempt says what it has left to derive. *)
AttemptsInOrder ==
    \A w \in Workers :
        /\ job[w] = Null => step[w] = "samples"
        /\ step[w] = "samples" => result[w] = Nothing
        /\ todo[w] \subseteq (IF step[w] = "forecasts" THEN Of("forecast")
                             ELSE IF step[w] = "anomalies" THEN Of("anomaly") ELSE {})
        /\ step[w] # "samples" => job[w] \in sampled
        /\ \A x \in Evidence \ Scored(w) : result[w][x] = "none"

(* Nothing is done about an event before it is stored and claimed. *)
ClaimedFirst ==
    /\ \A e \in Events :
          /\ status[e] # "absent" => payload[e] \in Payloads
          /\ attempts[e] > 0 => status[e] # "absent"
          /\ status[e] = "processed" => attempts[e] > 0
          /\ e \in sampled => attempts[e] > 0
          /\ attempts[e] = 0 => \A x \in Evidence : derived[e][x] = "none" /\ filed[e][x] = "none"
    /\ \A w \in Workers : job[w] # Null => attempts[job[w]] > 0

(* What a worker has stored is on record, and so is what backs a signal. *)
RecordsKept ==
    /\ SignalsBacked
    /\ \A w \in Workers : job[w] # Null =>
          \A x \in Stored(w) : result[w][x] # "none" => derived[job[w]][x] # "none"

SInv == TypeOK /\ AttemptsInOrder /\ ClaimedFirst /\ RecordsKept

LEMMA InitStory == Init => AttemptsInOrder /\ ClaimedFirst /\ RecordsKept
<1> SUFFICES ASSUME Init PROVE AttemptsInOrder /\ ClaimedFirst /\ RecordsKept
  OBVIOUS
<1>1. AttemptsInOrder
  BY NothingFacts DEF Init, AttemptsInOrder
<1>2. ClaimedFirst
  BY NothingFacts DEF Init, ClaimedFirst
<1>3. RecordsKept
  BY NothingFacts DEF Init, RecordsKept, SignalsBacked
<1> QED BY <1>1, <1>2, <1>3

(* A worker that leaves its event is as it was at the start. *)
LEMMA LeaveInOrder ==
    ASSUME TypeOK, AttemptsInOrder, NEW w \in Workers, Leave(w), UNCHANGED sampled
    PROVE  AttemptsInOrder'
<1> SUFFICES ASSUME NEW v \in Workers
             PROVE  AttemptsInOrder!(v)'
  BY DEF AttemptsInOrder
<1>1. CASE v = w
  BY <1>1, NothingFacts DEF TypeOK, Leave
<1>2. CASE v # w
  BY <1>2 DEF TypeOK, Leave, AttemptsInOrder, Scored
<1> QED BY <1>1, <1>2

LEMMA NextInOrder == TypeOK /\ AttemptsInOrder /\ [Next]_vars => AttemptsInOrder'
<1> SUFFICES ASSUME TypeOK, AttemptsInOrder, [Next]_vars PROVE AttemptsInOrder'
  OBVIOUS
<1>1. ASSUME NEW e \in Events, NEW p \in Payloads, Store(e, p) PROVE AttemptsInOrder'
  BY <1>1 DEF AttemptsInOrder, Scored, Store, tables, worker
<1>2. ASSUME NEW w \in Workers, NEW e \in Events, Claim(w, e) PROVE AttemptsInOrder'
  BY <1>2 DEF AttemptsInOrder, Scored, Claim, tables, TypeOK
<1>3. ASSUME NEW w \in Workers, WriteSamples(w) PROVE AttemptsInOrder'
  BY <1>3, NothingFacts, EvidenceSplit DEF AttemptsInOrder, Scored, WriteSamples, TypeOK
<1>4. ASSUME NEW w \in Workers, NEW x \in Evidence, Derive(w, x) PROVE AttemptsInOrder'
  BY <1>4, EvidenceSplit DEF AttemptsInOrder, Scored, Derive, tables, TypeOK
<1>5. ASSUME NEW w \in Workers, StoreForecasts(w) PROVE AttemptsInOrder'
  BY <1>5, EvidenceSplit DEF AttemptsInOrder, Scored, StoreForecasts, TypeOK
<1>6. ASSUME NEW w \in Workers, StoreAnomalies(w) PROVE AttemptsInOrder'
  BY <1>6 DEF AttemptsInOrder, Scored, StoreAnomalies, TypeOK
<1>7. ASSUME NEW w \in Workers, RecordSignals(w) PROVE AttemptsInOrder'
  BY <1>7 DEF AttemptsInOrder, Scored, RecordSignals, TypeOK
<1>8. ASSUME NEW w \in Workers, Complete(w) \/ Fail(w) \/ LateFail(w) \/ Crash(w)
      PROVE  AttemptsInOrder'
  BY <1>8, LeaveInOrder DEF Complete, Fail, LateFail, Crash, tables
<1>9. CASE UNCHANGED vars
  BY <1>9 DEF AttemptsInOrder, Scored, vars, tables, worker
<1> QED BY <1>1, <1>2, <1>3, <1>4, <1>5, <1>6, <1>7, <1>8, <1>9 DEF Next

LEMMA NextClaimed == TypeOK /\ ClaimedFirst /\ [Next]_vars => ClaimedFirst'
<1> SUFFICES ASSUME TypeOK, ClaimedFirst, [Next]_vars PROVE ClaimedFirst'
  OBVIOUS
<1>1. ASSUME NEW e \in Events, NEW p \in Payloads, Store(e, p) PROVE ClaimedFirst'
  BY <1>1 DEF ClaimedFirst, Store, tables, worker, TypeOK
<1>2. ASSUME NEW w \in Workers, NEW e \in Events, Claim(w, e) PROVE ClaimedFirst'
  BY <1>2 DEF ClaimedFirst, Claim, tables, TypeOK
<1>3. ASSUME NEW w \in Workers, WriteSamples(w) PROVE ClaimedFirst'
  BY <1>3 DEF ClaimedFirst, WriteSamples, queue, TypeOK
<1>4. ASSUME NEW w \in Workers, NEW x \in Evidence, Derive(w, x) PROVE ClaimedFirst'
  BY <1>4 DEF ClaimedFirst, Derive, queue, tables
<1>5. ASSUME NEW w \in Workers, StoreForecasts(w) PROVE ClaimedFirst'
  <2>1. attempts[job[w]] # 0 /\ \A d \in Events : d # job[w] => derived'[d] = derived[d]
    BY <1>5 DEF ClaimedFirst, StoreForecasts, TypeOK
  <2> QED BY <1>5, <2>1 DEF ClaimedFirst, StoreForecasts, queue
<1>6. ASSUME NEW w \in Workers, StoreAnomalies(w) PROVE ClaimedFirst'
  <2>1. attempts[job[w]] # 0 /\ \A d \in Events : d # job[w] => derived'[d] = derived[d]
    BY <1>6 DEF ClaimedFirst, StoreAnomalies, TypeOK
  <2> QED BY <1>6, <2>1 DEF ClaimedFirst, StoreAnomalies, queue
<1>7. ASSUME NEW w \in Workers, RecordSignals(w) PROVE ClaimedFirst'
  <2>1. attempts[job[w]] # 0 /\ \A d \in Events : d # job[w] => filed'[d] = filed[d]
    BY <1>7 DEF ClaimedFirst, RecordSignals, TypeOK
  <2> QED BY <1>7, <2>1 DEF ClaimedFirst, RecordSignals, queue
<1>8. ASSUME NEW w \in Workers, Complete(w) PROVE ClaimedFirst'
  BY <1>8 DEF ClaimedFirst, Complete, Leave, Settle, tables, queue, TypeOK
<1>9. ASSUME NEW w \in Workers, Fail(w) PROVE ClaimedFirst'
  BY <1>9 DEF ClaimedFirst, Fail, Leave, Settle, tables, queue, TypeOK
<1>10. ASSUME NEW w \in Workers, LateFail(w) PROVE ClaimedFirst'
  BY <1>10 DEF ClaimedFirst, LateFail, Leave, Settle, tables, TypeOK
<1>11. ASSUME NEW w \in Workers, Crash(w) PROVE ClaimedFirst'
  BY <1>11 DEF ClaimedFirst, Crash, Leave, tables, queue, TypeOK
<1>12. CASE UNCHANGED vars
  BY <1>12 DEF ClaimedFirst, vars, tables, worker, queue
<1> QED BY <1>1, <1>2, <1>3, <1>4, <1>5, <1>6, <1>7, <1>8, <1>9, <1>10, <1>11, <1>12 DEF Next

(* A row that is there stays. *)
LEMMA NextStands ==
    ASSUME TypeOK, [Next]_vars, NEW e \in Events, NEW x \in Evidence
    PROVE  /\ derived[e][x] # "none" => derived'[e][x] = derived[e][x]
           /\ filed[e][x] # "none" => filed'[e][x] = filed[e][x]
<1> DEFINE Same == derived' = derived /\ filed' = filed
<1>1. ASSUME NEW w \in Workers, StoreForecasts(w)
      PROVE  filed' = filed /\ (derived[e][x] # "none" => derived'[e][x] = derived[e][x])
  BY <1>1, InsertRow, OnlyFacts DEF StoreForecasts, TypeOK
<1>2. ASSUME NEW w \in Workers, StoreAnomalies(w)
      PROVE  filed' = filed /\ (derived[e][x] # "none" => derived'[e][x] = derived[e][x])
  BY <1>2, InsertRow, OnlyFacts DEF StoreAnomalies, TypeOK
<1>3. ASSUME NEW w \in Workers, RecordSignals(w)
      PROVE  derived' = derived /\ (filed[e][x] # "none" => filed'[e][x] = filed[e][x])
  BY <1>3, InsertRow, SignalsFacts DEF RecordSignals, TypeOK
<1>4. CASE UNCHANGED vars
  <2> Same
    BY <1>4 DEF vars, tables
  <2> QED OBVIOUS
<1>5. ASSUME NEW d \in Events, NEW p \in Payloads, Store(d, p) PROVE Same
  BY <1>5 DEF Store, tables
<1>6. ASSUME NEW w \in Workers, NEW d \in Events, Claim(w, d) PROVE Same
  BY <1>6 DEF Claim, tables
<1>7. ASSUME NEW w \in Workers, WriteSamples(w) PROVE Same
  BY <1>7 DEF WriteSamples
<1>8. ASSUME NEW w \in Workers, NEW y \in Evidence, Derive(w, y) PROVE Same
  BY <1>8 DEF Derive, tables
<1>9. ASSUME NEW w \in Workers, Complete(w) \/ Fail(w) \/ LateFail(w) \/ Crash(w) PROVE Same
  BY <1>9 DEF Complete, Fail, LateFail, Crash, tables
<1> QED BY <1>1, <1>2, <1>3, <1>4, <1>5, <1>6, <1>7, <1>8, <1>9 DEF Next

(* No attempt changes or removes a finding or a signal that is on record:  *)
(* the inserts of process_telemetry keep the row they find.                *)
THEOREM EvidenceKept == Spec => EvidenceStands
<1>1. TypeOK /\ [Next]_vars
        => [\A e \in Events, x \in Evidence :
              /\ derived[e][x] # "none" => derived'[e][x] = derived[e][x]
              /\ filed[e][x] # "none" => filed'[e][x] = filed[e][x]]_vars
  BY NextStands
<1> QED BY <1>1, EvidenceTypeCorrect, PTL DEF Spec, EvidenceStands

(* What a transaction leaves in the tables of its event. *)
LEMMA StoreForecastsRows ==
    ASSUME TypeOK, NEW w \in Workers, StoreForecasts(w), NEW x \in Evidence
    PROVE  /\ \A e \in Events \ {job[w]} : derived'[e] = derived[e]
           /\ derived'[job[w]][x] =
                 IF derived[job[w]][x] = "none" /\ x \in Of("forecast")
                 THEN result[w][x] ELSE derived[job[w]][x]
<1>1. job[w] \in Events /\ result[w] \in [Evidence -> Bands]
  BY DEF StoreForecasts, TypeOK
<1>2. derived[job[w]] \in [Evidence -> Bands]
  BY <1>1 DEF TypeOK
<1>3. derived'[job[w]] = Insert(derived[job[w]], Only(result[w], "forecast"))
  BY <1>1 DEF StoreForecasts, TypeOK
<1>4. \A e \in Events \ {job[w]} : derived'[e] = derived[e]
  BY <1>1 DEF StoreForecasts, TypeOK
<1> QED BY <1>1, <1>2, <1>3, <1>4, InsertRow, OnlyFacts

LEMMA StoreAnomaliesRows ==
    ASSUME TypeOK, NEW w \in Workers, StoreAnomalies(w), NEW x \in Evidence
    PROVE  /\ \A e \in Events \ {job[w]} : derived'[e] = derived[e]
           /\ derived'[job[w]][x] =
                 IF derived[job[w]][x] = "none" /\ x \in Of("anomaly")
                 THEN result[w][x] ELSE derived[job[w]][x]
<1>1. job[w] \in Events /\ result[w] \in [Evidence -> Bands]
  BY DEF StoreAnomalies, TypeOK
<1>2. derived[job[w]] \in [Evidence -> Bands]
  BY <1>1 DEF TypeOK
<1>3. derived'[job[w]] = Insert(derived[job[w]], Only(result[w], "anomaly"))
  BY <1>1 DEF StoreAnomalies, TypeOK
<1>4. \A e \in Events \ {job[w]} : derived'[e] = derived[e]
  BY <1>1 DEF StoreAnomalies, TypeOK
<1> QED BY <1>1, <1>2, <1>3, <1>4, InsertRow, OnlyFacts

LEMMA RecordSignalsRows ==
    ASSUME TypeOK, NEW w \in Workers, RecordSignals(w), NEW x \in Evidence
    PROVE  /\ \A e \in Events \ {job[w]} : filed'[e] = filed[e]
           /\ filed'[job[w]][x] =
                 IF filed[job[w]][x] = "none" THEN Serious(result[w][x]) ELSE filed[job[w]][x]
<1>1. job[w] \in Events /\ result[w] \in [Evidence -> Bands]
  BY DEF RecordSignals, TypeOK
<1>2. filed[job[w]] \in [Evidence -> Bands \ {"watch"}]
  BY <1>1 DEF TypeOK
<1>3. filed'[job[w]] = Insert(filed[job[w]], Signals(result[w]))
  BY <1>1 DEF RecordSignals, TypeOK
<1>4. \A e \in Events \ {job[w]} : filed'[e] = filed[e]
  BY <1>1 DEF RecordSignals, TypeOK
<1> QED BY <1>1, <1>2, <1>3, <1>4, InsertRow, SignalsFacts

LEMMA NextRecords ==
    TypeOK /\ AttemptsInOrder /\ RecordsKept /\ [Next]_vars => RecordsKept'
<1> SUFFICES ASSUME TypeOK, AttemptsInOrder, RecordsKept, [Next]_vars PROVE RecordsKept'
  OBVIOUS
<1> USE DEF RecordsKept, SignalsBacked
<1>1. ASSUME NEW e \in Events, NEW p \in Payloads, Store(e, p) PROVE RecordsKept'
  BY <1>1 DEF Stored, Store, tables, worker
<1>2. ASSUME NEW w \in Workers, NEW e \in Events, Claim(w, e) PROVE RecordsKept'
  <2>1. Stored(w)' = {}
    BY <1>2 DEF Stored, Claim, AttemptsInOrder
  <2> QED BY <1>2, <2>1 DEF Stored, Claim, tables, TypeOK
<1>3. ASSUME NEW w \in Workers, WriteSamples(w) PROVE RecordsKept'
  <2>1. Stored(w)' = {}
    BY <1>3 DEF Stored, WriteSamples, TypeOK
  <2> QED BY <1>3, <2>1 DEF Stored, WriteSamples, TypeOK
<1>4. ASSUME NEW w \in Workers, NEW x \in Evidence, Derive(w, x) PROVE RecordsKept'
  <2>1. x \notin Stored(w)
    BY <1>4, EvidenceSplit DEF Stored, Derive, AttemptsInOrder, TypeOK, Steps
  <2> QED BY <1>4, <2>1 DEF Stored, Derive, tables, TypeOK
<1>5. ASSUME NEW w \in Workers, StoreForecasts(w) PROVE RecordsKept'
  <2>1. job[w] \in Events /\ filed' = filed /\ result' = result /\ job' = job
    BY <1>5 DEF StoreForecasts, TypeOK
  <2>2. \A e \in Events, x \in Evidence : derived[e][x] # "none" => derived'[e][x] # "none"
    BY <1>5, NextStands DEF Next
  <2>3. \A x \in Of("forecast") : result[w][x] # "none" => derived'[job[w]][x] # "none"
    BY <1>5, StoreForecastsRows, EvidenceSplit
  <2>4. Stored(w)' = Of("forecast") /\ \A v \in Workers \ {w} : Stored(v)' = Stored(v)
    BY <1>5 DEF Stored, StoreForecasts, TypeOK
  <2>5. \A v \in Workers : Stored(v) \subseteq Evidence /\ Stored(v)' \subseteq Evidence
    BY EvidenceSplit DEF Stored
  <2>6. SignalsBacked'
    BY <2>1, <2>2
  <2>7. ASSUME NEW v \in Workers, job[v] # Null, NEW x \in Stored(v)', result[v][x] # "none"
        PROVE  derived'[job[v]][x] # "none"
    <3>1. job[v] \in Events
      BY <2>7 DEF TypeOK
    <3> QED BY <2>2, <2>3, <2>4, <2>5, <2>7, <3>1
  <2> QED BY <2>1, <2>6, <2>7
<1>6. ASSUME NEW w \in Workers, StoreAnomalies(w) PROVE RecordsKept'
  <2>1. job[w] \in Events /\ filed' = filed /\ result' = result /\ job' = job
    BY <1>6 DEF StoreAnomalies, TypeOK
  <2>2. \A e \in Events, x \in Evidence : derived[e][x] # "none" => derived'[e][x] # "none"
    BY <1>6, NextStands DEF Next
  <2>3. \A x \in Of("anomaly") : result[w][x] # "none" => derived'[job[w]][x] # "none"
    BY <1>6, StoreAnomaliesRows, EvidenceSplit
  <2>4. Stored(w) = Of("forecast") /\ \A v \in Workers \ {w} : Stored(v)' = Stored(v)
    BY <1>6 DEF Stored, StoreAnomalies, TypeOK
  <2>5. \A v \in Workers : Stored(v) \subseteq Evidence /\ Stored(v)' \subseteq Evidence
    BY EvidenceSplit DEF Stored
  <2>6. SignalsBacked'
    BY <2>1, <2>2
  <2>7. ASSUME NEW v \in Workers, job[v] # Null, NEW x \in Stored(v)', result[v][x] # "none"
        PROVE  derived'[job[v]][x] # "none"
    <3>1. job[v] \in Events
      BY <2>7 DEF TypeOK
    <3> QED BY <2>2, <2>3, <2>4, <2>5, <2>7, <3>1, EvidenceSplit
  <2> QED BY <2>1, <2>6, <2>7
<1>7. ASSUME NEW w \in Workers, RecordSignals(w) PROVE RecordsKept'
  <2>1. /\ job[w] \in Events /\ derived' = derived /\ result' = result /\ job' = job
        /\ job[w] # Null
    BY <1>7 DEF RecordSignals, TypeOK
  <2>2. Stored(w) = Evidence /\ \A v \in Workers : Stored(v)' = Stored(v)
    BY <1>7 DEF Stored, RecordSignals, TypeOK
  <2>3. \A e \in Events, x \in Evidence : filed'[e][x] # "none" => derived[e][x] # "none"
    <3> TAKE e \in Events, x \in Evidence
    <3>1. result[w][x] \in Bands
      BY DEF TypeOK
    <3>2. CASE e = job[w]
      BY <1>7, <3>1, <3>2, <2>1, <2>2, RecordSignalsRows, SeriousBand
    <3>3. CASE e # job[w]
      BY <1>7, <3>3, RecordSignalsRows
    <3> QED BY <3>2, <3>3
  <2> QED BY <2>1, <2>2, <2>3
<1>8. ASSUME NEW w \in Workers, Complete(w) \/ Fail(w) \/ LateFail(w) \/ Crash(w)
      PROVE  RecordsKept'
  BY <1>8 DEF Stored, Complete, Fail, LateFail, Crash, Leave, tables, TypeOK
<1>9. CASE UNCHANGED vars
  BY <1>9 DEF Stored, vars, tables, worker
<1> QED BY <1>1, <1>2, <1>3, <1>4, <1>5, <1>6, <1>7, <1>8, <1>9 DEF Next

LEMMA StoryHolds == Spec => []SInv
<1>1. Init => SInv
  BY InitType, InitStory DEF SInv
<1>2. SInv /\ [Next]_vars => SInv'
  BY NextType, NextInOrder, NextClaimed, NextRecords DEF SInv
<1> QED BY <1>1, <1>2, PTL DEF Spec

(* Every signal an incident counts has a finding on record, however often  *)
(* and by however many workers its event was processed.                    *)
THEOREM EvidenceBacked == Spec => []SignalsBacked
<1>1. SInv => SignalsBacked
  BY DEF SInv, RecordsKept
<1> QED BY <1>1, StoryHolds, PTL

-----------------------------------------------------------------------------
(* Verdicts depend on the payloads of the event and of the samples in its  *)
(* window, and on nothing else.  The operators of the component with the   *)
(* payloads p as a parameter:                                              *)
NewestIn(p, S, limit) ==
    {e \in S : Cardinality({d \in S :
        p[d].at > p[e].at \/ (p[d].at = p[e].at /\ d > e)}) < limit}
WindowIn(p, e, S, source) ==
    {d \in S : /\ p[d].at + Week >= p[e].at
               /\ IF source = "forecast" THEN p[d].at <= p[e].at ELSE p[d].at < p[e].at}
JudgedIn(p, e, x, past) ==
    IF x[1] = "forecast"
    THEN Risk([d \in past |-> [at |-> p[d].at, y |-> p[d].value[x[2]]]], Threshold[x[2]])
    ELSE Severity(p[e].value[x[2]], [d \in past |-> p[d].value[x[2]]], Floor[x[2]])
LimitOf(x) == IF x[1] = "forecast" THEN ForecastLimit ELSE BaselineLimit
VerdictIn(p, e, x, S) == JudgedIn(p, e, x, NewestIn(p, WindowIn(p, e, S, x[1]), LimitOf(x)))

(* The verdict on an event once its own samples are on record. *)
Final(e, x) == Verdict(e, x, sampled \cup {e})

LEMMA FinalIn ==
    ASSUME NEW e, NEW x
    PROVE  /\ Final(e, x) = VerdictIn(payload, e, x, sampled \cup {e})
           /\ Final(e, x)' = VerdictIn(payload', e, x, sampled' \cup {e})
BY DEF Final, Verdict, Newest, Newer, Window, At, Value,
       VerdictIn, JudgedIn, NewestIn, WindowIn, LimitOf

LEMMA SameNewest ==
    ASSUME NEW p, NEW q, NEW S, NEW limit, \A d \in S : p[d] = q[d]
    PROVE  NewestIn(p, S, limit) = NewestIn(q, S, limit)
<1> DEFINE above(r, e) == {d \in S : r[d].at > r[e].at \/ (r[d].at = r[e].at /\ d > e)}
<1>1. ASSUME NEW e \in S PROVE above(p, e) = above(q, e)
  OBVIOUS
<1>2. \A r : NewestIn(r, S, limit) = {e \in S : Cardinality(above(r, e)) < limit}
  BY DEF NewestIn
<1> HIDE DEF above
<1> QED BY <1>1, <1>2

LEMMA SameVerdict ==
    ASSUME NEW p, NEW q, NEW e, NEW x, NEW S, \A d \in S \cup {e} : p[d] = q[d]
    PROVE  VerdictIn(p, e, x, S) = VerdictIn(q, e, x, S)
<1> DEFINE W == WindowIn(p, e, S, x[1])
           N == NewestIn(p, W, LimitOf(x))
<1>1. W = WindowIn(q, e, S, x[1]) /\ W \subseteq S
  BY DEF WindowIn
<1> HIDE DEF W
<1>2. N = NewestIn(q, W, LimitOf(x))
  BY <1>1, SameNewest
<1>3. N \subseteq S
  BY <1>1 DEF NewestIn
<1> HIDE DEF N
<1>4. JudgedIn(p, e, x, N) = JudgedIn(q, e, x, N)
  <2>1. \A d \in N : p[d] = q[d]
    BY <1>3
  <2>2. [d \in N |-> [at |-> p[d].at, y |-> p[d].value[x[2]]]]
           = [d \in N |-> [at |-> q[d].at, y |-> q[d].value[x[2]]]]
    BY <2>1
  <2>3. [d \in N |-> p[d].value[x[2]]] = [d \in N |-> q[d].value[x[2]]]
    BY <2>1
  <2> QED BY <2>2, <2>3 DEF JudgedIn
<1> QED BY <1>1, <1>2, <1>4 DEF VerdictIn, W, N

(* A sample of a later time is in no window of the event. *)
LEMMA LaterSample ==
    ASSUME NEW p, NEW e, NEW c, NEW x, NEW S,
           p[e].at \in Nat, p[c].at \in Nat, ~(p[c].at <= p[e].at)
    PROVE  VerdictIn(p, e, x, S \cup {c}) = VerdictIn(p, e, x, S)
<1>1. WindowIn(p, e, S \cup {c}, x[1]) = WindowIn(p, e, S, x[1])
  BY DEF WindowIn
<1> QED BY <1>1 DEF VerdictIn

(* No step changes the verdict on a claimed event, except the first record *)
(* of an earlier one's samples, which is remembered in grown.              *)
LEMMA FinalSteady ==
    ASSUME TypeOK, ClaimedFirst, [Next]_vars, NEW e \in Events, NEW x,
           attempts[e] > 0, e \notin grown'
    PROVE  e \notin grown /\ Final(e, x)' = Final(e, x)
<1>1. CASE payload' = payload /\ sampled' = sampled /\ grown' = grown
  BY <1>1, FinalIn
<1>2. ASSUME NEW d \in Events, NEW p \in Payloads, Store(d, p)
      PROVE  e \notin grown /\ Final(e, x)' = Final(e, x)
  <2>1. sampled' = sampled /\ grown' = grown
    BY <1>2 DEF Store, tables
  <2>2. d # e /\ d \notin sampled
    BY <1>2 DEF Store, ClaimedFirst, TypeOK
  <2>3. \A c \in sampled \cup {e} : payload'[c] = payload[c]
    BY <1>2, <2>2 DEF Store, TypeOK
  <2>4. VerdictIn(payload', e, x, sampled \cup {e}) = VerdictIn(payload, e, x, sampled \cup {e})
    BY <2>3, SameVerdict
  <2> QED BY <2>1, <2>4, FinalIn
<1>3. ASSUME NEW w \in Workers, WriteSamples(w)
      PROVE  e \notin grown /\ Final(e, x)' = Final(e, x)
  <2> DEFINE c == job[w]
  <2>1. c \in Events /\ payload' = payload /\ sampled' = sampled \cup {c}
    BY <1>3 DEF WriteSamples, TypeOK, queue
  <2>2. e \notin grown
    BY <1>3 DEF WriteSamples
  <2>3. CASE c = e \/ c \in sampled
    <3>1. sampled' \cup {e} = sampled \cup {e}
      BY <2>1, <2>3
    <3>2. Final(e, x)' = VerdictIn(payload, e, x, sampled \cup {e})
      BY <2>1, <3>1, FinalIn
    <3>3. Final(e, x) = VerdictIn(payload, e, x, sampled \cup {e})
      BY FinalIn
    <3> QED BY <2>2, <3>2, <3>3
  <2>4. CASE c # e /\ c \notin sampled
    <3>1. ~(payload[c].at <= payload[e].at)
      BY <1>3, <2>4 DEF WriteSamples, At
    <3>2. payload[c] \in Payloads /\ payload[e] \in Payloads
      BY <1>3, <2>1 DEF WriteSamples, ClaimedFirst
    <3>3. payload[c].at \in Nat /\ payload[e].at \in Nat
      BY <3>2, EvidenceAssumption
    <3>4. sampled' \cup {e} = (sampled \cup {e}) \cup {c}
      BY <2>1
    <3>5. VerdictIn(payload, e, x, (sampled \cup {e}) \cup {c})
             = VerdictIn(payload, e, x, sampled \cup {e})
      BY <3>1, <3>3, LaterSample
    <3>6. Final(e, x)' = VerdictIn(payload, e, x, (sampled \cup {e}) \cup {c})
      BY <2>1, <3>4, FinalIn
    <3>7. Final(e, x) = VerdictIn(payload, e, x, sampled \cup {e})
      BY FinalIn
    <3> QED BY <2>2, <3>5, <3>6, <3>7
  <2> QED BY <2>3, <2>4
<1>4. CASE UNCHANGED vars
  BY <1>4, <1>1 DEF vars, queue, tables
<1>5. ASSUME NEW w \in Workers, NEW d \in Events, Claim(w, d)
      PROVE  payload' = payload /\ sampled' = sampled /\ grown' = grown
  BY <1>5 DEF Claim, tables
<1>6. ASSUME NEW w \in Workers, NEW y \in Evidence, Derive(w, y)
      PROVE  payload' = payload /\ sampled' = sampled /\ grown' = grown
  BY <1>6 DEF Derive, tables, queue
<1>7. ASSUME NEW w \in Workers, StoreForecasts(w) \/ StoreAnomalies(w) \/ RecordSignals(w)
      PROVE  payload' = payload /\ sampled' = sampled /\ grown' = grown
  BY <1>7 DEF StoreForecasts, StoreAnomalies, RecordSignals, queue
<1>8. ASSUME NEW w \in Workers, Complete(w) \/ Fail(w) \/ LateFail(w) \/ Crash(w)
      PROVE  payload' = payload /\ sampled' = sampled /\ grown' = grown
  BY <1>8 DEF Complete, Fail, LateFail, Crash, Settle, tables, queue
<1> QED BY <1>1, <1>2, <1>3, <1>4, <1>5, <1>6, <1>7, <1>8 DEF Next

-----------------------------------------------------------------------------
(* Idempotence. *)

(* What is on record of the event, and what a worker at it has and has     *)
(* done, is the final verdict or nothing yet.                              *)
OnRecord(e, x) ==
    /\ derived[e][x] \in {"none", Final(e, x)}
    /\ filed[e][x] \in {"none", Serious(Final(e, x))}
    /\ status[e] = "processed" =>
          derived[e][x] = Final(e, x) /\ filed[e][x] = Serious(Final(e, x))
InHand(e, x, w) ==
    job[w] = e =>
        /\ x \in Scored(w) => result[w][x] = Final(e, x)
        /\ x \in Stored(w) => derived[e][x] = Final(e, x)
        /\ step[w] = "outcome" => filed[e][x] = Serious(Final(e, x))

Undisturbed ==
    \A e \in Events : attempts[e] > 0 /\ e \notin grown =>
        \A x \in Evidence : OnRecord(e, x) /\ \A w \in Workers : InHand(e, x, w)

(* The progress of the workers, and what their steps leave alone. *)
LEMMA StoredScored ==
    ASSUME TypeOK, AttemptsInOrder, NEW w \in Workers
    PROVE  /\ Stored(w) \subseteq Scored(w) /\ Scored(w) \subseteq Evidence
           /\ step[w] = "outcome" => Stored(w) = Evidence
BY EvidenceSplit DEF Stored, Scored, AttemptsInOrder, TypeOK, Steps

LEMMA NextUndisturbed == SInv /\ Undisturbed /\ [Next]_vars => Undisturbed'
<1> SUFFICES ASSUME SInv, Undisturbed, [Next]_vars,
                    NEW e \in Events, attempts'[e] > 0, e \notin grown', NEW x \in Evidence
             PROVE  OnRecord(e, x)' /\ \A v \in Workers : InHand(e, x, v)'
  BY DEF Undisturbed
<1>t. TypeOK /\ AttemptsInOrder /\ ClaimedFirst
  BY DEF SInv
<1>a. CASE attempts[e] = 0
  <2>1. PICK w \in Workers : Claim(w, e)
    <3>1. attempts'[e] # attempts[e]
      BY <1>a
    <3> QED BY <1>t, <3>1 DEF Next, Store, WriteSamples, Derive, StoreForecasts, StoreAnomalies,
              RecordSignals, Complete, Fail, LateFail, Crash, Settle, Claim, queue, vars, TypeOK
  <2>2. derived'[e][x] = "none" /\ filed'[e][x] = "none" /\ status'[e] # "processed"
    BY <1>t, <1>a, <2>1 DEF Claim, ClaimedFirst, tables
  <2>3. \A v \in Workers : job'[v] = e => v = w
    <3>1. e # Null
      BY EvidenceAssumption
    <3> QED BY <1>t, <1>a, <2>1, <3>1 DEF Claim, ClaimedFirst, TypeOK
  <2>4. step'[w] = "samples"
    BY <1>t, <2>1 DEF Claim, AttemptsInOrder
  <2> QED BY <2>2, <2>3, <2>4 DEF OnRecord, InHand, Scored, Stored
<1>b. CASE attempts[e] # 0
  <2>0. /\ e \notin grown /\ Final(e, x)' = Final(e, x)
        /\ OnRecord(e, x) /\ \A v \in Workers : InHand(e, x, v)
    <3>1. attempts[e] > 0
      BY <1>t, <1>b DEF TypeOK
    <3>2. e \notin grown /\ Final(e, x)' = Final(e, x)
      BY <1>t, <3>1, FinalSteady
    <3> QED BY <3>1, <3>2 DEF Undisturbed
  <2> DEFINE Goal == OnRecord(e, x)' /\ \A v \in Workers : InHand(e, x, v)'
  <2>1. ASSUME NEW d \in Events, NEW p \in Payloads, Store(d, p) PROVE Goal
    BY <1>t, <2>0, <2>1 DEF OnRecord, InHand, Scored, Stored, Store, tables, worker, TypeOK
  <2>2. ASSUME NEW w \in Workers, NEW d \in Events, Claim(w, d) PROVE Goal
    BY <1>t, <2>0, <2>2
       DEF OnRecord, InHand, Scored, Stored, Claim, tables, TypeOK, AttemptsInOrder
  <2>3. ASSUME NEW w \in Workers, WriteSamples(w) PROVE Goal
    BY <1>t, <2>0, <2>3 DEF OnRecord, InHand, Scored, Stored, WriteSamples, queue, TypeOK
  <2>4. ASSUME NEW w \in Workers, NEW y \in Evidence, Derive(w, y) PROVE Goal
    <3>1. job[w] \in sampled
      BY <1>t, <2>4 DEF Derive, AttemptsInOrder
    <3>2. sampled \cup {job[w]} = sampled
      BY <3>1
    <3>3. y = x /\ job[w] = e => result'[w][x] = Final(e, x)
      BY <1>t, <2>4, <3>2 DEF Derive, Final, TypeOK
    <3>4. y # x => result'[w][x] = result[w][x]
      BY <1>t, <2>4 DEF Derive, TypeOK
    <3>5. y # x => (x \in Scored(w)' <=> x \in Scored(w))
      BY <1>t, <2>4 DEF Derive, Scored, TypeOK
    <3>6. Stored(w)' = Stored(w)
      BY <2>4 DEF Derive, Stored
    <3>7. \A v \in Workers \ {w} :
             Scored(v)' = Scored(v) /\ Stored(v)' = Stored(v) /\ result'[v] = result[v]
      BY <1>t, <2>4 DEF Derive, Scored, Stored, TypeOK
    <3>8. derived' = derived /\ filed' = filed /\ status' = status /\ job' = job /\ step' = step
      BY <2>4 DEF Derive, queue, tables
    <3> QED BY <2>0, <3>3, <3>4, <3>5, <3>6, <3>7, <3>8 DEF OnRecord, InHand
  <2>5. ASSUME NEW w \in Workers, StoreForecasts(w) PROVE Goal
    <3>1. /\ filed' = filed /\ status' = status /\ job' = job /\ result' = result
          /\ step'[w] = "anomalies" /\ \A v \in Workers \ {w} : step'[v] = step[v]
      BY <1>t, <2>5 DEF StoreForecasts, queue, TypeOK
    <3>2. \A v \in Workers \ {w} : Scored(v)' = Scored(v) /\ Stored(v)' = Stored(v)
      BY <1>t, <2>5 DEF StoreForecasts, Scored, Stored, TypeOK
    <3>3. Stored(w)' = Of("forecast") /\ Scored(w)' = Of("forecast") /\ Scored(w) = Of("forecast")
      BY <1>t, <2>5, EvidenceSplit DEF StoreForecasts, Scored, Stored, TypeOK
    <3>4. CASE job[w] # e
      <4>1. derived'[e] = derived[e]
        BY <1>t, <2>5, <3>4, StoreForecastsRows
      <4> QED BY <2>0, <3>1, <3>2, <3>4, <4>1 DEF OnRecord, InHand
    <3>5. CASE job[w] = e
      <4>1. derived'[e][x] = IF derived[e][x] = "none" /\ x \in Of("forecast")
                             THEN result[w][x] ELSE derived[e][x]
        BY <1>t, <2>5, <3>5, StoreForecastsRows
      <4>2. x \in Of("forecast") => derived'[e][x] = Final(e, x)
        BY <2>0, <3>3, <3>5, <4>1 DEF OnRecord, InHand
      <4>3. derived[e][x] = Final(e, x) => derived'[e][x] = Final(e, x)
        BY <4>1, <4>2
      <4> QED BY <2>0, <3>1, <3>2, <3>3, <3>5, <4>1, <4>2, <4>3 DEF OnRecord, InHand
    <3> QED BY <3>4, <3>5
  <2>6. ASSUME NEW w \in Workers, StoreAnomalies(w) PROVE Goal
    <3>1. /\ filed' = filed /\ status' = status /\ job' = job /\ result' = result
          /\ step'[w] = "signals" /\ \A v \in Workers \ {w} : step'[v] = step[v]
      BY <1>t, <2>6 DEF StoreAnomalies, queue, TypeOK
    <3>2. \A v \in Workers \ {w} : Scored(v)' = Scored(v) /\ Stored(v)' = Stored(v)
      BY <1>t, <2>6 DEF StoreAnomalies, Scored, Stored, TypeOK
    <3>3. Stored(w) = Of("forecast") /\ Scored(w)' = Evidence /\ Scored(w) = Evidence
      BY <1>t, <2>6, EvidenceSplit DEF StoreAnomalies, Scored, Stored, TypeOK
    <3>4. CASE job[w] # e
      <4>1. derived'[e] = derived[e]
        BY <1>t, <2>6, <3>4, StoreAnomaliesRows
      <4> QED BY <2>0, <3>1, <3>2, <3>4, <4>1 DEF OnRecord, InHand
    <3>5. CASE job[w] = e
      <4>1. derived'[e][x] = IF derived[e][x] = "none" /\ x \in Of("anomaly")
                             THEN result[w][x] ELSE derived[e][x]
        BY <1>t, <2>6, <3>5, StoreAnomaliesRows
      <4>2. derived'[e][x] = Final(e, x)
        BY <2>0, <3>3, <3>5, <4>1, EvidenceSplit DEF OnRecord, InHand
      <4> QED BY <2>0, <3>1, <3>2, <3>3, <3>5, <4>2 DEF OnRecord, InHand
    <3> QED BY <3>4, <3>5
  <2>7. ASSUME NEW w \in Workers, RecordSignals(w) PROVE Goal
    <3>1. /\ derived' = derived /\ status' = status /\ job' = job /\ result' = result
          /\ step'[w] = "outcome" /\ \A v \in Workers \ {w} : step'[v] = step[v]
      BY <1>t, <2>7 DEF RecordSignals, queue, TypeOK
    <3>2. \A v \in Workers : Scored(v)' = Scored(v) /\ Stored(v)' = Stored(v)
      BY <1>t, <2>7 DEF RecordSignals, Scored, Stored, TypeOK
    <3>3. Scored(w) = Evidence
      BY <1>t, <2>7 DEF RecordSignals, Scored
    <3>4. CASE job[w] # e
      <4>1. filed'[e] = filed[e]
        BY <1>t, <2>7, <3>4, RecordSignalsRows
      <4> QED BY <2>0, <3>1, <3>2, <3>4, <4>1 DEF OnRecord, InHand
    <3>5. CASE job[w] = e
      <4>1. filed'[e][x] = IF filed[e][x] = "none" THEN Serious(result[w][x]) ELSE filed[e][x]
        BY <1>t, <2>7, <3>5, RecordSignalsRows
      <4>2. filed'[e][x] = Serious(Final(e, x))
        BY <2>0, <3>3, <3>5, <4>1 DEF OnRecord, InHand
      <4> QED BY <2>0, <3>1, <3>2, <3>5, <4>2 DEF OnRecord, InHand
    <3> QED BY <3>4, <3>5
  <2>8. ASSUME NEW w \in Workers, Complete(w) \/ Fail(w) \/ LateFail(w) \/ Crash(w) PROVE Goal
    <3>1. derived' = derived /\ filed' = filed /\ job'[w] = Null
      BY <1>t, <2>8 DEF Complete, Fail, LateFail, Crash, Leave, tables, TypeOK
    <3>2. \A v \in Workers \ {w} :
             /\ job'[v] = job[v] /\ step'[v] = step[v] /\ result'[v] = result[v]
             /\ Scored(v)' = Scored(v) /\ Stored(v)' = Stored(v)
      BY <1>t, <2>8 DEF Complete, Fail, LateFail, Crash, Leave, Scored, Stored, TypeOK
    <3>3. e # Null
      BY EvidenceAssumption
    <3>4. ASSUME status'[e] = "processed", status[e] # "processed"
          PROVE  job[w] = e /\ step[w] = "outcome"
      BY <1>t, <2>8, <3>4
         DEF Complete, Fail, LateFail, Crash, Settle, queue, TypeOK
    <3>5. status'[e] = "processed" =>
            derived[e][x] = Final(e, x) /\ filed[e][x] = Serious(Final(e, x))
      BY <1>t, <2>0, <3>4, StoredScored DEF OnRecord, InHand
    <3> QED BY <2>0, <3>1, <3>2, <3>3, <3>5 DEF OnRecord, InHand
  <2>9. CASE UNCHANGED vars
    BY <2>0, <2>9 DEF OnRecord, InHand, Scored, Stored, vars, queue, tables, worker
  <2> QED BY <2>1, <2>2, <2>3, <2>4, <2>5, <2>6, <2>7, <2>8, <2>9 DEF Next
<1> QED BY <1>a, <1>b

(* An event claimed once has one worker at it, and on record is what that  *)
(* worker has stored.                                                      *)
Alone(e, x, w) ==
    job[w] = e =>
        /\ status[e] = "open"
        /\ \A v \in Workers : job[v] = e => v = w
        /\ derived[e][x] = IF x \in Stored(w) THEN result[w][x] ELSE "none"
        /\ filed[e][x] = IF step[w] = "outcome" THEN Serious(result[w][x]) ELSE "none"

OnlyTry ==
    \A e \in Events : attempts[e] = 1 =>
        \A x \in Evidence :
            /\ status[e] = "processed" => filed[e][x] = Serious(derived[e][x])
            /\ \A w \in Workers : Alone(e, x, w)

LEMMA NextOnlyTry == SInv /\ OnlyTry /\ [Next]_vars => OnlyTry'
<1> SUFFICES ASSUME SInv, OnlyTry, [Next]_vars,
                    NEW e \in Events, attempts'[e] = 1, NEW x \in Evidence
             PROVE  /\ status'[e] = "processed" => filed'[e][x] = Serious(derived'[e][x])
                    /\ \A v \in Workers : Alone(e, x, v)'
  BY DEF OnlyTry
<1>t. TypeOK /\ AttemptsInOrder /\ ClaimedFirst
  BY DEF SInv
<1>n. e # Null
  BY EvidenceAssumption
<1> DEFINE Settled == status[e] = "processed" => filed[e][x] = Serious(derived[e][x])
           Goal == /\ status'[e] = "processed" => filed'[e][x] = Serious(derived'[e][x])
                   /\ \A v \in Workers : Alone(e, x, v)'
<1>a. CASE attempts[e] # 1
  <2>1. PICK w \in Workers : Claim(w, e)
    <3>1. attempts'[e] # attempts[e]
      BY <1>a
    <3> QED BY <1>t, <3>1 DEF Next, Store, WriteSamples, Derive, StoreForecasts, StoreAnomalies,
              RecordSignals, Complete, Fail, LateFail, Crash, Settle, Claim, queue, vars, TypeOK
  <2>2. attempts[e] = 0
    <3>1. attempts[e] \in Nat /\ attempts'[e] = attempts[e] + 1
      BY <1>t, <2>1 DEF Claim, TypeOK
    <3> QED BY <3>1
  <2>3. derived'[e][x] = "none" /\ filed'[e][x] = "none" /\ status'[e] = "open"
    BY <1>t, <2>1, <2>2 DEF Claim, ClaimedFirst, tables
  <2>4. \A v \in Workers : job'[v] = e => v = w
    BY <1>t, <1>n, <2>1, <2>2 DEF Claim, ClaimedFirst, TypeOK
  <2>5. step'[w] = "samples"
    BY <1>t, <2>1 DEF Claim, AttemptsInOrder
  <2> QED BY <2>3, <2>4, <2>5 DEF Alone, Stored
<1>b. CASE attempts[e] = 1
  <2>0. Settled /\ \A v \in Workers : Alone(e, x, v)
    BY <1>b DEF OnlyTry
  <2>1. ASSUME NEW d \in Events, NEW p \in Payloads, Store(d, p) PROVE Goal
    BY <1>t, <1>b, <2>0, <2>1 DEF Alone, Stored, Store, tables, worker, TypeOK, ClaimedFirst
  <2>2. ASSUME NEW w \in Workers, NEW d \in Events, Claim(w, d) PROVE Goal
    <3>1. d # e
      BY <1>t, <1>b, <2>2 DEF Claim, TypeOK
    <3> QED BY <1>t, <2>0, <2>2, <3>1 DEF Alone, Stored, Claim, tables, TypeOK
  <2>3. ASSUME NEW w \in Workers, WriteSamples(w) PROVE Goal
    BY <1>t, <2>0, <2>3 DEF Alone, Stored, WriteSamples, queue, TypeOK
  <2>4. ASSUME NEW w \in Workers, NEW y \in Evidence, Derive(w, y) PROVE Goal
    <3>1. y \notin Stored(w) /\ step[w] # "outcome"
      BY <1>t, <2>4, EvidenceSplit DEF Derive, Stored, AttemptsInOrder, TypeOK, Steps
    <3>2. y # x => result'[w][x] = result[w][x]
      BY <1>t, <2>4 DEF Derive, TypeOK
    <3>3. \A v \in Workers \ {w} : result'[v] = result[v]
      BY <1>t, <2>4 DEF Derive, TypeOK
    <3>4. \A v \in Workers : Stored(v)' = Stored(v)
      BY <2>4 DEF Derive, Stored
    <3>5. derived' = derived /\ filed' = filed /\ status' = status /\ job' = job /\ step' = step
      BY <2>4 DEF Derive, queue, tables
    <3> QED BY <2>0, <3>1, <3>2, <3>3, <3>4, <3>5 DEF Alone
  <2>5. ASSUME NEW w \in Workers, StoreForecasts(w) PROVE Goal
    <3>1. /\ filed' = filed /\ status' = status /\ job' = job /\ result' = result
          /\ step'[w] = "anomalies" /\ \A v \in Workers \ {w} : step'[v] = step[v]
      BY <1>t, <2>5 DEF StoreForecasts, queue, TypeOK
    <3>2. \A v \in Workers \ {w} : Stored(v)' = Stored(v)
      BY <1>t, <2>5 DEF StoreForecasts, Stored, TypeOK
    <3>3. Stored(w)' = Of("forecast") /\ Stored(w) = {} /\ step[w] = "forecasts"
      BY <1>t, <2>5 DEF StoreForecasts, Stored, TypeOK
    <3>4. CASE job[w] # e
      <4>1. derived'[e] = derived[e]
        BY <1>t, <2>5, <3>4, StoreForecastsRows
      <4> QED BY <2>0, <3>1, <3>2, <3>4, <4>1 DEF Alone
    <3>5. CASE job[w] = e
      <4>1. derived'[e][x] = IF derived[e][x] = "none" /\ x \in Of("forecast")
                             THEN result[w][x] ELSE derived[e][x]
        BY <1>t, <2>5, <3>5, StoreForecastsRows
      <4>2. Alone(e, x, w)
        BY <2>0
      <4> QED BY <3>1, <3>3, <3>5, <4>1, <4>2 DEF Alone
    <3> QED BY <3>4, <3>5
  <2>6. ASSUME NEW w \in Workers, StoreAnomalies(w) PROVE Goal
    <3>1. /\ filed' = filed /\ status' = status /\ job' = job /\ result' = result
          /\ step'[w] = "signals" /\ \A v \in Workers \ {w} : step'[v] = step[v]
      BY <1>t, <2>6 DEF StoreAnomalies, queue, TypeOK
    <3>2. \A v \in Workers \ {w} : Stored(v)' = Stored(v)
      BY <1>t, <2>6 DEF StoreAnomalies, Stored, TypeOK
    <3>3. Stored(w)' = Evidence /\ Stored(w) = Of("forecast") /\ step[w] = "anomalies"
      BY <1>t, <2>6 DEF StoreAnomalies, Stored, TypeOK
    <3>4. CASE job[w] # e
      <4>1. derived'[e] = derived[e]
        BY <1>t, <2>6, <3>4, StoreAnomaliesRows
      <4> QED BY <2>0, <3>1, <3>2, <3>4, <4>1 DEF Alone
    <3>5. CASE job[w] = e
      <4>1. derived'[e][x] = IF derived[e][x] = "none" /\ x \in Of("anomaly")
                             THEN result[w][x] ELSE derived[e][x]
        BY <1>t, <2>6, <3>5, StoreAnomaliesRows
      <4>2. Alone(e, x, w)
        BY <2>0
      <4> QED BY <3>1, <3>3, <3>5, <4>1, <4>2, EvidenceSplit DEF Alone
    <3> QED BY <3>4, <3>5
  <2>7. ASSUME NEW w \in Workers, RecordSignals(w) PROVE Goal
    <3>1. /\ derived' = derived /\ status' = status /\ job' = job /\ result' = result
          /\ step'[w] = "outcome" /\ \A v \in Workers \ {w} : step'[v] = step[v]
      BY <1>t, <2>7 DEF RecordSignals, queue, TypeOK
    <3>2. step[w] = "signals" /\ \A v \in Workers : Stored(v)' = Stored(v)
      BY <1>t, <2>7 DEF RecordSignals, Stored, TypeOK
    <3>4. CASE job[w] # e
      <4>1. filed'[e] = filed[e]
        BY <1>t, <2>7, <3>4, RecordSignalsRows
      <4> QED BY <2>0, <3>1, <3>2, <3>4, <4>1 DEF Alone
    <3>5. CASE job[w] = e
      <4>1. filed'[e][x] = IF filed[e][x] = "none" THEN Serious(result[w][x]) ELSE filed[e][x]
        BY <1>t, <2>7, <3>5, RecordSignalsRows
      <4>2. Alone(e, x, w)
        BY <2>0
      <4> QED BY <3>1, <3>2, <3>5, <4>1, <4>2 DEF Alone
    <3> QED BY <3>4, <3>5
  <2>8. ASSUME NEW w \in Workers, Complete(w) \/ Fail(w) \/ LateFail(w) \/ Crash(w) PROVE Goal
    <3>1. derived' = derived /\ filed' = filed /\ job'[w] = Null
      BY <1>t, <2>8 DEF Complete, Fail, LateFail, Crash, Leave, tables, TypeOK
    <3>2. \A v \in Workers \ {w} :
             /\ job'[v] = job[v] /\ step'[v] = step[v] /\ result'[v] = result[v]
             /\ Stored(v)' = Stored(v)
      BY <1>t, <2>8 DEF Complete, Fail, LateFail, Crash, Leave, Stored, TypeOK
    <3>3. job[w] # e => status'[e] = status[e]
      BY <1>t, <2>8 DEF Complete, Fail, LateFail, Crash, Settle, queue, TypeOK
    <3>4. CASE job[w] # e
      BY <1>n, <2>0, <3>1, <3>2, <3>3, <3>4 DEF Alone
    <3>5. CASE job[w] = e
      <4>1. Alone(e, x, w)
        BY <2>0
      <4>2. \A v \in Workers : job'[v] # e
        BY <1>n, <3>1, <3>2, <3>5, <4>1 DEF Alone
      <4>3. status'[e] = "processed" => step[w] = "outcome"
        BY <1>t, <2>8, <3>5, <4>1
           DEF Alone, Complete, Fail, LateFail, Crash, Settle, queue, TypeOK
      <4>4. step[w] = "outcome" => x \in Stored(w)
        BY <1>t, StoredScored
      <4> QED BY <3>1, <3>5, <4>1, <4>2, <4>3, <4>4 DEF Alone
    <3> QED BY <3>4, <3>5
  <2>9. CASE UNCHANGED vars
    BY <2>0, <2>9 DEF Alone, Stored, vars, queue, tables, worker
  <2> QED BY <2>1, <2>2, <2>3, <2>4, <2>5, <2>6, <2>7, <2>8, <2>9 DEF Next
<1> QED BY <1>a, <1>b

RInv == SInv /\ Undisturbed /\ OnlyTry

LEMMA RetriesInductive == Spec => []RInv
<1>1. Init => RInv
  <2> SUFFICES ASSUME Init PROVE Undisturbed /\ OnlyTry /\ SInv
    BY DEF RInv
  <2>1. SInv
    BY InitType, InitStory DEF SInv
  <2> QED BY <2>1 DEF Init, Undisturbed, OnlyTry
<1>2. RInv /\ [Next]_vars => RInv'
  <2>1. SInv /\ [Next]_vars => SInv'
    BY NextType, NextInOrder, NextClaimed, NextRecords DEF SInv
  <2> QED BY <2>1, NextUndisturbed, NextOnlyTry DEF RInv
<1> QED BY <1>1, <1>2, PTL DEF Spec

(* process_telemetry is idempotent for events whose history does not change *)
(* between their attempts: whatever was left behind by workers that failed *)
(* or died, the incidents of a processed event have been told exactly what *)
(* is on record.  It holds for any scoring, since it rests on the windows. *)
THEOREM RetriesAreIdempotent == Spec => []RetriesIdempotent
<1>1. RInv => RetriesIdempotent
  <2> SUFFICES ASSUME RInv, NEW e \in Events, status[e] = "processed",
                      attempts[e] = 1 \/ e \notin grown
               PROVE  Agree(e)
    BY DEF RetriesIdempotent
  <2>1. derived[e] \in [Evidence -> Bands] /\ filed[e] \in [Evidence -> Bands \ {"watch"}]
    BY DEF RInv, SInv, TypeOK
  <2>2. attempts[e] > 0
    BY DEF RInv, SInv, ClaimedFirst
  <2>3. \A x \in Evidence : filed[e][x] = Serious(derived[e][x])
    BY <2>2 DEF RInv, OnlyTry, Undisturbed, OnRecord
  <2>4. filed[e] = [x \in Evidence |-> Serious(derived[e][x])]
    BY <2>1, <2>3
  <2> QED BY <2>4 DEF Agree, Signals
<1> QED BY <1>1, RetriesInductive, PTL
=============================================================================
