---------------------------- MODULE MetricHistory ----------------------------
(***************************************************************************)
(* The samples on record, while they are written, read and pruned.         *)
(*                                                                         *)
(* Workers store the samples of an event, once or again.  A client reads a *)
(* range of a metric page by page, each request naming the last row of the *)
(* page before it.  Retention runs delete what is older than a cutoff in   *)
(* batches, a SELECT of keys and a DELETE of those that are still there,   *)
(* until a batch comes out short.  Nothing but the database's statements   *)
(* is atomic.                                                              *)
(*                                                                         *)
(* The samples are those of one node, one per event and metric.  An answer *)
(* that is lost, and its request repeated, leaves no trace.  present,      *)
(* seen, alone and fresh remember for the properties what happened during  *)
(* a scan and during a run.                                                *)
(***************************************************************************)
EXTENDS Naturals, FiniteSets

CONSTANTS
    Events,        \* by event id
    At,            \* observed_at of the events
    Metrics,
    Requests,      \* a metric and a range of times
    Cutoffs,
    Readers, Runs,
    Limit,         \* rows in a page
    BatchSize, MaxBatches,
    Null

Samples == Events \X Metrics

ASSUME HistoryAssumption ==
    /\ Events \subseteq Nat /\ IsFiniteSet(Events) /\ IsFiniteSet(Metrics)
    /\ At \in [Events -> Nat]
    /\ Requests \subseteq [metric : Metrics, start : Nat, end : Nat]
    /\ \A q \in Requests : q.start < q.end
    /\ Cutoffs \subseteq Nat
    /\ Limit \in Nat \ {0} /\ BatchSize \in Nat \ {0} /\ MaxBatches \in Nat \ {0}
    /\ Null \notin Events /\ Null \notin Requests /\ Null \notin Cutoffs

VARIABLES
    table,     \* metric_samples
    ask,       \* per reader: what it scans, or Null
    cursor,    \* the event of the row its next request starts after, or Null
    more,      \* whether there is a next request
    answer,    \* the events of the last page
    listed,    \* those of all pages of the scan
    present,   \* those on record from the start of the scan
    seen,      \* those on record at some time of it
    cutoff,    \* per retention run: what it deletes, or Null
    pc,        \* its next statement, or how it ended
    keys,      \* the batch it has selected and not yet deleted, or {}
    batches,   \* how many it has deleted
    alone,     \* whether no other run overlapped it
    fresh      \* the samples stored since its last SELECT

reader == <<ask, cursor, more, answer, listed, present, seen>>
run == <<pc, cutoff, keys, batches, alone>>
vars == <<table, reader, run, fresh>>

TypeOK ==
    /\ table \subseteq Samples
    /\ ask \in [Readers -> Requests \cup {Null}]
    /\ cursor \in [Readers -> Events \cup {Null}]
    /\ more \in [Readers -> BOOLEAN]
    /\ answer \in [Readers -> SUBSET Events]
    /\ listed \in [Readers -> SUBSET Events]
    /\ present \in [Readers -> SUBSET Events]
    /\ seen \in [Readers -> SUBSET Events]
    /\ pc \in [Runs -> {"off", "select", "delete", "done"}]
    /\ cutoff \in [Runs -> Cutoffs \cup {Null}]
    /\ keys \in [Runs -> SUBSET Samples]
    /\ batches \in [Runs -> 0 .. MaxBatches - 1]
    /\ alone \in [Runs -> BOOLEAN]
    /\ fresh \in [Runs -> SUBSET Samples]

Init ==
    /\ table = {}
    /\ ask = [r \in Readers |-> Null]
    /\ cursor = [r \in Readers |-> Null]
    /\ more = [r \in Readers |-> FALSE]
    /\ answer = [r \in Readers |-> {}]
    /\ listed = [r \in Readers |-> {}]
    /\ present = [r \in Readers |-> {}]
    /\ seen = [r \in Readers |-> {}]
    /\ pc = [p \in Runs |-> "off"]
    /\ cutoff = [p \in Runs |-> Null]
    /\ keys = [p \in Runs |-> {}]
    /\ batches = [p \in Runs |-> 0]
    /\ alone = [p \in Runs |-> FALSE]
    /\ fresh = [p \in Runs |-> {}]

-----------------------------------------------------------------------------
(* The event has a row in T that a request is about. *)
Matching(q, e, T) == <<e, q.metric>> \in T /\ q.start <= At[e] /\ At[e] < q.end

InRange(q, T) == {e \in Events : Matching(q, e, T)}

Running(p) == pc[p] \in {"select", "delete"}

(* write_metric_samples: one INSERT ... ON CONFLICT DO NOTHING. *)
Write(e) ==
    LET new == ({e} \X Metrics) \ table
    IN /\ table' = table \cup new
       /\ seen' = [r \in Readers |->
             IF more[r] /\ Matching(ask[r], e, table') THEN seen[r] \cup {e} ELSE seen[r]]
       /\ fresh' = [p \in Runs |-> IF pc[p] = "delete" THEN fresh[p] \cup new ELSE {}]
       /\ UNCHANGED <<ask, cursor, more, answer, listed, present, run>>

-----------------------------------------------------------------------------
(* GET /v1/metrics/{node_id}. *)

(* ORDER BY observed_at, event_id *)
Before(d, e) == At[d] < At[e] \/ (At[d] = At[e] /\ d < e)

IsFirst(part, whole, n) ==
    /\ Cardinality(part) = IF Cardinality(whole) < n THEN Cardinality(whole) ELSE n
    /\ \A e \in part, d \in whole \ part : Before(e, d)

(* Mutants: the comparison leaves out the event id, or is not strict. *)
BeyondTime(e, c) == c = Null \/ At[c] < At[e]
BeyondOrAt(e, c) == c = Null \/ At[c] <= At[e]

(* (observed_at, event_id) > cursor *)
Beyond(e, c) == c = Null \/ Before(c, e)

(* page[-1] *)
IsLast(e, page) == e \in page /\ \A d \in page \ {e} : Before(d, e)

Open(r, q) ==
    /\ ~more[r]
    /\ ask' = [ask EXCEPT ![r] = q]
    /\ cursor' = [cursor EXCEPT ![r] = Null]
    /\ more' = [more EXCEPT ![r] = TRUE]
    /\ answer' = [answer EXCEPT ![r] = {}]
    /\ listed' = [listed EXCEPT ![r] = {}]
    /\ present' = [present EXCEPT ![r] = InRange(q, table)]
    /\ seen' = [seen EXCEPT ![r] = InRange(q, table)]
    /\ UNCHANGED <<table, run, fresh>>

(* One request: a SELECT of one row more than a page holds. *)
Page(r) ==
    /\ more[r]
    /\ LET rows == {e \in InRange(ask[r], table) : Beyond(e, cursor[r])}
       IN \E fetched \in SUBSET rows : \E page \in SUBSET fetched :
             /\ IsFirst(fetched, rows, Limit + 1) /\ IsFirst(page, fetched, Limit)
             /\ answer' = [answer EXCEPT ![r] = page]
             /\ listed' = [listed EXCEPT ![r] = @ \cup page]
             /\ IF Cardinality(fetched) > Limit
                THEN /\ \E e \in page :
                           IsLast(e, page) /\ cursor' = [cursor EXCEPT ![r] = e]
                     /\ UNCHANGED <<more, ask, present, seen>>
                ELSE /\ more' = [more EXCEPT ![r] = FALSE]
                     /\ ask' = [ask EXCEPT ![r] = Null]
                     /\ cursor' = [cursor EXCEPT ![r] = Null]
                     /\ present' = [present EXCEPT ![r] = {}]
                     /\ seen' = [seen EXCEPT ![r] = {}]
    /\ UNCHANGED <<table, run, fresh>>

-----------------------------------------------------------------------------
(* rtmonitor-retention. *)

Old(p, T) == {s \in T : At[s[1]] < cutoff[p]}

Start(p, c) ==
    /\ ~Running(p)
    /\ pc' = [pc EXCEPT ![p] = "select"]
    /\ cutoff' = [cutoff EXCEPT ![p] = c]
    /\ alone' = [o \in Runs |-> o = p /\ \A v \in Runs : ~Running(v)]
    /\ UNCHANGED <<table, reader, keys, batches, fresh>>

End(p, how) ==
    /\ pc' = [pc EXCEPT ![p] = how]
    /\ cutoff' = [cutoff EXCEPT ![p] = Null]
    /\ keys' = [keys EXCEPT ![p] = {}]
    /\ batches' = [batches EXCEPT ![p] = 0]
    /\ alone' = [alone EXCEPT ![p] = FALSE]
    /\ fresh' = [fresh EXCEPT ![p] = {}]

(* Mutant: no ORDER BY. *)
IsBatchUnordered(part, whole) ==
    Cardinality(part) = IF Cardinality(whole) < BatchSize THEN Cardinality(whole) ELSE BatchSize

(* ORDER BY observed_at LIMIT batch_size: samples of one time in any order. *)
IsBatch(part, whole) ==
    /\ Cardinality(part) = IF Cardinality(whole) < BatchSize THEN Cardinality(whole) ELSE BatchSize
    /\ \A s \in part, t \in whole \ part : At[s[1]] <= At[t[1]]

Select(p) ==
    /\ pc[p] = "select"
    /\ IF Old(p, table) = {} THEN End(p, "done")
       ELSE /\ \E batch \in SUBSET Old(p, table) :
                  IsBatch(batch, Old(p, table)) /\ keys' = [keys EXCEPT ![p] = batch]
            /\ pc' = [pc EXCEPT ![p] = "delete"]
            /\ fresh' = [fresh EXCEPT ![p] = {}]
            /\ UNCHANGED <<cutoff, batches, alone>>
    /\ UNCHANGED <<table, reader>>

(* Mutant: a full batch is the last one. *)
EnoughAtFull(deleted, n) == deleted <= BatchSize \/ n = MaxBatches

(* for _ in range(max_batches): ... if deleted < batch_size: break *)
Enough(deleted, n) == deleted < BatchSize \/ n = MaxBatches

(* DELETE ... WHERE (event_id, metric_name) IN keys RETURNING, and commit.  *)
Delete(p) ==
    /\ pc[p] = "delete"
    /\ IF Enough(Cardinality(keys[p] \cap table), batches[p] + 1) THEN End(p, "done")
       ELSE /\ pc' = [pc EXCEPT ![p] = "select"]
            /\ keys' = [keys EXCEPT ![p] = {}]
            /\ batches' = [batches EXCEPT ![p] = @ + 1]
            /\ fresh' = [fresh EXCEPT ![p] = {}]
            /\ UNCHANGED <<cutoff, alone>>
    /\ table' = table \ keys[p]
    /\ present' = [r \in Readers |-> {e \in present[r] : Matching(ask[r], e, table')}]
    /\ UNCHANGED <<ask, cursor, more, answer, listed, seen>>

(* A storage error, or the process dies. *)
Fail(p) == Running(p) /\ End(p, "off") /\ UNCHANGED <<table, reader>>

-----------------------------------------------------------------------------
Next ==
    \/ \E e \in Events : Write(e)
    \/ \E r \in Readers : Page(r) \/ \E q \in Requests : Open(r, q)
    \/ \E p \in Runs :
          Select(p) \/ Delete(p) \/ Fail(p) \/ \E c \in Cutoffs : Start(p, c)

Spec == Init /\ [][Next]_vars

-----------------------------------------------------------------------------
(* "Stable cursor pagination" (README.md:35): a page lists only rows that   *)
(* come after all those the scan has listed, so none is listed twice,       *)
(* whatever is stored or pruned between two pages.                          *)
PagesInOrder ==
    [][\A r \in Readers : Page(r) =>
          \A d \in listed[r], e \in answer'[r] : Before(d, e)]_vars

(* A scan that has come to its end has listed every sample of its range    *)
(* that was on record from its start to its end, and nothing that was      *)
(* not there at some time of it.                                           *)
ScanComplete ==
    [][\A r \in Readers : more[r] /\ ~more'[r] =>
          present[r] \subseteq listed'[r] /\ listed'[r] \subseteq seen[r]]_vars

(* A run of retention that no other run overlapped, and that ended before  *)
(* its last batch, has left nothing that is older than its cutoff but what *)
(* workers stored after it last looked.                                    *)
NothingOldLeft ==
    [][\A p \in Runs : (Running(p) /\ pc'[p] = "done" /\ alone[p] /\ batches[p] + 1 < MaxBatches) =>
          Old(p, table') \subseteq fresh[p]]_vars

(* A batch takes the oldest samples, so that a run that stops early, or is *)
(* overlapped by others, leaves histories without holes: what it deletes   *)
(* is no newer than what it leaves, but for what was stored meanwhile.     *)
OldestGoFirst ==
    [][\A p \in Runs : pc[p] = "delete" /\ table' = table \ keys[p] =>
          \A s \in table \ table', t \in table' : At[s[1]] <= At[t[1]] \/ t \in fresh[p]]_vars
=============================================================================
