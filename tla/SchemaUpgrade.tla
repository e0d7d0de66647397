---------------------------- MODULE SchemaUpgrade ----------------------------
(***************************************************************************)
(* alembic upgrade head: the six migrations, statement by statement, while *)
(* programs of this release and of earlier ones store and process events.  *)
(* The desktop runs it at every launch, an operator before a deployment.   *)
(* A release brings the migrations up to its own head: a database that an  *)
(* earlier one has left at 0002, with its events and its programs, is      *)
(* where the upgrade of this release finds it.                             *)
(*                                                                         *)
(* env.py puts all migrations into one transaction.  PostgreSQL takes the  *)
(* DDL into it.  On SQLite alembic commits per migration and the driver    *)
(* opens a transaction with the first write, so each CREATE stands at once *)
(* and only a backfill and its stamp are committed together.               *)
(*                                                                         *)
(* An event is seen as its row of the queue; a lease may run out at any    *)
(* time.  The indexes of a table are part of its creation.                 *)
(***************************************************************************)
EXTENDS Naturals, Sequences

CONSTANTS
    Events,
    Upgraders,  \* runs of alembic, one after the other or at once
    Heads,      \* the last migrations of the releases that are deployed
    Dialects,   \* is DDL transactional?
    Null

ASSUME DialectsAssumption == Dialects \subseteq BOOLEAN
ASSUME NullAssumption == Null \notin {"old_worker", "worker"}

Create(t) == [op |-> "create", table |-> t]
Enqueue == [op |-> "enqueue", table |-> "telemetry_pipeline_queue"]
Requeue == [op |-> "requeue", table |-> "telemetry_pipeline_queue"]

(* Mutants: migrations that leave the rows that are there alone; one that  *)
(* creates the table of another; one that requeues as 0003 has done.       *)
M0003Unfilled == <<Create("metric_samples")>>
M0004Copied == <<Create("metric_samples")>>
M0004Requeues == <<Create("anomalies"), Requeue>>

M0001 == <<Create("telemetry_events")>>
M0002 == <<Create("telemetry_pipeline_queue"), Enqueue>>
M0003 == <<Create("metric_samples"), Requeue>>
M0004 == <<Create("anomalies")>>
M0005 == <<Create("forecasts")>>
M0006 == <<Create("incidents"), Create("incident_signals"), Create("incident_timeline")>>

Migration == <<M0001, M0002, M0003, M0004, M0005, M0006>>
Latest == 6

ASSUME HeadsAssumption == Heads \subseteq 1..Latest

CreatedBy(m) ==
    {Migration[m][s].table : s \in {n \in DOMAIN Migration[m] : Migration[m][n].op = "create"}}
TablesAt(v) == UNION {CreatedBy(m) : m \in 1..v}

(* Mutant: the queue's table is created without its foreign key.           *)
ReferencesNoQueue == {"metric_samples", "anomalies", "forecasts", "incident_signals"}

(* The tables whose foreign keys lock telemetry_events against inserts      *)
(* until the transaction that creates them ends.                           *)
References == {"telemetry_pipeline_queue", "metric_samples", "anomalies",
               "forecasts", "incident_signals"}

(* The Phase 3 API knows no queue, the Phase 4 worker no samples.           *)
Workers == {"old_worker", "worker"}
Programs == {"bare_api", "api"} \cup Workers

(* A program is started when the schema it was written for is there         *)
(* (docs/storage/postgresql.md; desktop.py run).  "api" and "worker" are   *)
(* those of the first release that has a queue, and samples, and of every  *)
(* later one.                                                              *)
Needs == [bare_api |-> 1, api |-> 2, old_worker |-> 2, worker |-> 3]

Statuses == {"absent", "bare", "pending", "processing", "processed", "dead_letter"}

VARIABLES
    transactional,  \* the dialect
    version,        \* alembic_version
    tables,         \* committed
    upgrade,        \* per upgrader: where it is and what it has not committed
    running,        \* the programs in service
    row,            \* per event; "bare" is an event without a queue row
    holder,         \* whose lease it is
    sampled,        \* the events with rows in metric_samples
    late,           \* history: stored without a queue row once there was a queue
    missed          \* history: processed without samples after the last requeue

schema == <<transactional, version, tables>>
queue == <<row, holder, sampled>>
history == <<late, missed>>
vars == <<schema, upgrade, running, queue, history>>

Upgrade == [from : 0..Latest, to : 1..Latest, next : 1..Latest, stmt : 1..4,
            tables : SUBSET TablesAt(Latest), rows : SUBSET Events]

TypeOK ==
    /\ transactional \in Dialects /\ version \in 0..Latest
    /\ tables \subseteq TablesAt(Latest)
    /\ upgrade \in [Upgraders -> Upgrade \cup {Null}]
    /\ running \subseteq Programs
    /\ row \in [Events -> Statuses] /\ holder \in [Events -> Workers \cup {Null}]
    /\ sampled \subseteq Events /\ late \subseteq Events /\ missed \subseteq Events

Init ==
    /\ transactional \in Dialects /\ version = 0 /\ tables = {}
    /\ upgrade = [u \in Upgraders |-> Null]
    /\ running = {}
    /\ row = [e \in Events |-> "absent"] /\ holder = [e \in Events |-> Null]
    /\ sampled = {} /\ late = {} /\ missed = {}

-----------------------------------------------------------------------------
(* The upgrade. *)

Busy(u) == upgrade[u] # Null
Script(u) == Migration[upgrade[u].next]
Past(u, m, s) == upgrade[u].next > m \/ (upgrade[u].next = m /\ upgrade[u].stmt > s)
At(u, op) ==
    /\ Busy(u) /\ upgrade[u].stmt <= Len(Script(u))
    /\ Script(u)[upgrade[u].stmt].op = op

(* On SQLite, from the first write to the commit, u locks the database.    *)
Writing(u) ==
    /\ Busy(u) /\ ~transactional
    /\ upgrade[u].stmt > 1 /\ Script(u)[upgrade[u].stmt - 1].op # "create"

Writable == \A u \in Upgraders : ~Writing(u)
Insertable == Writable /\ \A u \in Upgraders : Busy(u) => upgrade[u].tables \cap References = {}

(* By a release whose head is h; one that is older than the database fails. *)
Begin(u, h) ==
    /\ ~Busy(u) /\ version < h
    /\ upgrade' = [upgrade EXCEPT ![u] =
          [from |-> version, to |-> h, next |-> version + 1, stmt |-> 1,
           tables |-> {}, rows |-> {}]]
    /\ UNCHANGED <<schema, running, queue, history>>

(* An error ends the upgrade as a kill does: what is uncommitted is gone.  *)
Leave(u) == upgrade' = [upgrade EXCEPT ![u] = Null]

Crash(u) == Busy(u) /\ Leave(u) /\ UNCHANGED <<schema, running, queue, history>>

(* Mutant: the migrations run without begin_transaction.                   *)
DDLAutocommits == FALSE
DDLInTransaction == transactional

(* Mutant: CREATE TABLE IF NOT EXISTS.                                     *)
ExistsIgnored(t) == FALSE
Exists(t) == t \in tables

(* Where another transaction has created the table, PostgreSQL waits for   *)
(* its end.                                                                *)
CreateTable(u) ==
    /\ At(u, "create") /\ Writable
    /\ LET mine == upgrade[u]
           t == Script(u)[mine.stmt].table
           made == [mine EXCEPT !.stmt = @ + 1]
       IN /\ \A v \in Upgraders \ {u} : Busy(v) => t \notin upgrade[v].tables
          /\ IF Exists(t) THEN Leave(u) /\ UNCHANGED tables
             ELSE IF DDLInTransaction
             THEN /\ upgrade' = [upgrade EXCEPT ![u] = [made EXCEPT !.tables = @ \cup {t}]]
                  /\ UNCHANGED tables
             ELSE upgrade' = [upgrade EXCEPT ![u] = made] /\ tables' = tables \cup {t}
    /\ UNCHANGED <<transactional, version, running, queue, history>>

(* INSERT ... SELECT of every event; UPDATE of every processed row.        *)
Backfill(u) ==
    /\ At(u, "enqueue") \/ At(u, "requeue")
    /\ Writable
    /\ LET these == {e \in Events : row[e] = IF At(u, "enqueue") THEN "bare" ELSE "processed"}
       IN /\ upgrade' = [upgrade EXCEPT ![u].stmt = @ + 1, ![u].rows = @ \cup these]
          /\ missed' = missed \ these
    /\ UNCHANGED <<schema, running, queue, late>>

Commit(u) ==
    LET mine == upgrade[u]
    IN /\ version' = mine.next
       /\ tables' = tables \cup mine.tables
       /\ row' = [e \in Events |-> IF e \in mine.rows THEN "pending" ELSE row[e]]
       /\ holder' = [e \in Events |-> IF e \in mine.rows THEN Null ELSE holder[e]]

NextMigration(u) ==
    LET mine == upgrade[u]
    IN [mine EXCEPT !.next = @ + 1, !.stmt = 1,
                    !.from = IF transactional THEN @ ELSE mine.next,
                    !.rows = IF transactional THEN @ ELSE {}]

(* UPDATE alembic_version must find the version the upgrade came from.     *)
Stamp(u) ==
    /\ Busy(u) /\ upgrade[u].stmt > Len(Script(u))
    /\ \A v \in Upgraders \ {u} : ~Writing(v)
    /\ IF version # upgrade[u].from
       THEN Leave(u) /\ UNCHANGED <<version, tables, row, holder>>
       ELSE /\ IF upgrade[u].next = upgrade[u].to THEN Leave(u)
               ELSE upgrade' = [upgrade EXCEPT ![u] = NextMigration(u)]
            /\ IF transactional /\ upgrade[u].next # upgrade[u].to
               THEN UNCHANGED <<version, tables, row, holder>>
               ELSE Commit(u)
    /\ UNCHANGED <<transactional, running, sampled, history>>

-----------------------------------------------------------------------------
(* The programs. *)

Start(p) ==
    /\ version >= Needs[p]
    /\ running' = running \cup {p}
    /\ UNCHANGED <<schema, upgrade, queue, history>>

Stop(p) ==
    /\ running' = running \ {p}
    /\ UNCHANGED <<schema, upgrade, queue, history>>

StoreBare(e) ==
    /\ "bare_api" \in running /\ Insertable /\ row[e] = "absent"
    /\ row' = [row EXCEPT ![e] = "bare"]
    /\ late' = IF version < 2 THEN late ELSE late \cup {e}
    /\ UNCHANGED <<schema, upgrade, running, holder, sampled, missed>>

(* An event that is there, with or without a queue row, is a duplicate.    *)
Store(e) ==
    /\ "api" \in running /\ Insertable /\ row[e] = "absent"
    /\ row' = [row EXCEPT ![e] = "pending"]
    /\ UNCHANGED <<schema, upgrade, running, holder, sampled, history>>

Claim(w, e) ==
    /\ w \in running /\ Writable /\ row[e] \in {"pending", "processing"}
    /\ row' = [row EXCEPT ![e] = "processing"]
    /\ holder' = [holder EXCEPT ![e] = w]
    /\ UNCHANGED <<schema, upgrade, running, sampled, history>>

Holds(w, e) == w \in running /\ Writable /\ holder[e] = w

Sample(e) ==
    /\ Holds("worker", e)
    /\ sampled' = sampled \cup {e}
    /\ UNCHANGED <<schema, upgrade, running, row, holder, history>>

Release(e, outcome) ==
    /\ row' = [row EXCEPT ![e] = outcome]
    /\ holder' = [holder EXCEPT ![e] = Null]

(* On PostgreSQL an upgrade has requeued what was processed before, but    *)
(* has not committed.                                                      *)
Requeued == version >= 3 \/ \E u \in Upgraders : Busy(u) /\ Past(u, 3, 2)

Complete(w, e) ==
    /\ Holds(w, e)
    /\ w = "worker" => e \in sampled
    /\ Release(e, "processed")
    /\ missed' = IF w = "old_worker" /\ Requeued THEN missed \cup {e} ELSE missed
    /\ UNCHANGED <<schema, upgrade, running, sampled, late>>

Fail(w, e) ==
    /\ Holds(w, e)
    /\ \E outcome \in {"pending", "dead_letter"} : Release(e, outcome)
    /\ UNCHANGED <<schema, upgrade, running, sampled, history>>

-----------------------------------------------------------------------------
Upgrading(u) == (\E h \in Heads : Begin(u, h)) \/ CreateTable(u) \/ Backfill(u) \/ Stamp(u)

Working(w, e) == Claim(w, e) \/ Complete(w, e) \/ Fail(w, e)

Next ==
    \/ \E u \in Upgraders : Upgrading(u) \/ Crash(u)
    \/ \E p \in Programs : Start(p) \/ Stop(p)
    \/ \E e \in Events : StoreBare(e) \/ Store(e) \/ Sample(e)
    \/ \E w \in Workers, e \in Events : Working(w, e)

Spec == Init /\ [][Next]_vars

-----------------------------------------------------------------------------
(* The stamp tells the tables: exactly those of its migrations where DDL is *)
(* transactional, never fewer, and never more than those of one migration  *)
(* that was interrupted, where it is not (migrations/env.py).              *)
TablesMatchVersion ==
    /\ TablesAt(version) \subseteq tables
    /\ IF transactional \/ version = Latest THEN tables = TablesAt(version)
       ELSE tables \subseteq TablesAt(version + 1)

(* u has done something that is not committed, or committed only in part.  *)
Began(u) == Busy(u) /\ (upgrade[u].next > upgrade[u].from + 1 \/ upgrade[u].stmt > 1)

(* Nothing locks the schema for an upgrade, yet two launches or deploys     *)
(* that upgrade at once are never both at work: whoever creates the first  *)
(* table of a migration keeps the others out.                              *)
UpgradesApart == \A u, v \in Upgraders : Began(u) /\ Began(v) => u = v

(* Once there is a queue, every event on record is in it, but for those    *)
(* that a Phase 3 API stores afterwards: the backfill of 0002 forgets      *)
(* nothing, although the API is running while it is made.                  *)
NothingForgotten ==
    version >= 2 => \A e \in Events : row[e] = "bare" => e \in late

(* After 0003 what counts as processed has its samples, or was completed   *)
(* by a Phase 4 worker after the UPDATE had read the queue (and not again  *)
(* requeued, where that upgrade failed and another was run): "so the new   *)
(* projection is backfilled by the normal worker" (ADR 0005).              *)
BackfillReaches ==
    version >= 3 => \A e \in Events : row[e] = "processed" => e \in sampled \cup missed

(* What has been processed with its samples is not requeued by an upgrade  *)
(* again, whoever else upgrades and however often the upgrade is run.      *)
RequeuedOnce ==
    [][\A e \in Events : row[e] = "processed" /\ e \in sampled => row'[e] = "processed"]_vars

(* A table of the next migration is there and nobody is creating the rest: *)
(* every later upgrade will stop at "table already exists".                *)
HalfApplied ==
    /\ version < Latest /\ Migration[version + 1][1].table \in tables
    /\ \A u \in Upgraders :
          ~(Began(u) /\ upgrade[u].next = version + 1)
=============================================================================
