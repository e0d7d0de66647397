---------------------------- MODULE PipelineQueue ----------------------------
(***************************************************************************)
(* The durable leased work queue: the table telemetry_pipeline_queue, the  *)
(* methods of SqlAlchemyEventStore that read and write it (store, claim,   *)
(* complete, fail) and the PipelineWorker loop that drives them.           *)
(*                                                                         *)
(* The table is one function per column, indexed by event.  Each action is *)
(* one committed transaction, or one statement when a method's statements  *)
(* may interleave with those of another worker: fail reads the row without *)
(* a lock and writes it back at its commit, so it is two actions.          *)
(*                                                                         *)
(* clock is the fastest clock of the system.  A process reads its own      *)
(* clock before it opens its transaction: the reading is at most ClockLag  *)
(* behind clock when the transaction commits.                              *)
(***************************************************************************)
EXTENDS Naturals, Sequences

CONSTANTS
    Events,        \* event ids, ordered as the column event_id orders them
    Workers,       \* worker ids, each drawn once: <hostname>-<random hex>
    Null,          \* SQL NULL
    BatchSize,     \* WorkerSettings.batch_size
    LeaseSeconds,  \* WorkerSettings.lease_seconds
    MaxAttempts,   \* WorkerSettings.max_attempts
    RetryBase,     \* WorkerSettings.retry_base_seconds
    MaxDelay,      \* the longest delay that can be added to a datetime
    ClockLag,      \* how stale a clock reading can be at commit
    Solo           \* TRUE: SQLite, one worker at a time.  FALSE: PostgreSQL

ASSUME EventsAssumption == Events \subseteq Nat
Reading == [attempts : Nat, now : Nat]   \* what fail knows between SELECT and commit

ASSUME NullAssumption == Null \notin Workers \cup Nat \cup Reading
ASSUME SettingsAssumption ==
    /\ BatchSize \in Nat \ {0}
    /\ LeaseSeconds \in Nat \ {0}
    /\ MaxAttempts \in Nat \ {0}
    /\ RetryBase \in Nat \ {0}
    /\ MaxDelay \in Nat
    /\ ClockLag \in Nat
    /\ Solo \in BOOLEAN

VARIABLES
    clock,
    status, attempts, availableAt, leaseExpiresAt, leasedBy,  \* the table
    pc,        \* where each worker is in PipelineWorker.run
    batch,     \* the leases of its batch it has not finished, as claim returned them
    seen,      \* what its open fail() has read: the row's attempts, its own clock
    applied    \* history: the events whose processor has succeeded at least once

row == <<status, attempts, availableAt, leaseExpiresAt, leasedBy>>
vars == <<clock, row, pc, batch, seen, applied>>

Statuses == {"absent", "pending", "processing", "retry", "processed", "dead_letter"}
PCs == {"new", "polling", "working", "completing", "failing", "writing", "stopped"}
Settled(e) == status[e] \in {"processed", "dead_letter"}

Lease == [event : Events, attempt : Nat]

TypeOK ==
    /\ clock \in Nat
    /\ status \in [Events -> Statuses]
    /\ attempts \in [Events -> Nat]
    /\ availableAt \in [Events -> Nat]
    /\ leaseExpiresAt \in [Events -> Nat \cup {Null}]
    /\ leasedBy \in [Events -> Workers \cup {Null}]
    /\ pc \in [Workers -> PCs]
    /\ batch \in [Workers -> Seq(Lease)]
    /\ seen \in [Workers -> Reading \cup {Null}]
    /\ applied \subseteq Events

Live(w) == pc[w] \notin {"new", "stopped"}

(* datetime.now(UTC), as read by a process whose transaction commits now. *)
Nows == {t \in 0..clock : clock - t <= ClockLag}

Init ==
    /\ clock = 0
    /\ status = [e \in Events |-> "absent"]
    /\ attempts = [e \in Events |-> 0]
    /\ availableAt = [e \in Events |-> 0]
    /\ leaseExpiresAt = [e \in Events |-> Null]
    /\ leasedBy = [e \in Events |-> Null]
    /\ pc = [w \in Workers |-> "new"]
    /\ batch = [w \in Workers |-> <<>>]
    /\ seen = [w \in Workers |-> Null]
    /\ applied = {}

-----------------------------------------------------------------------------
(* store: the event and its queue row in one transaction.  A second store  *)
(* of the event violates its primary key and is answered DUPLICATE.        *)
Store(e) ==
    /\ status[e] = "absent"
    /\ status' = [status EXCEPT ![e] = "pending"]
    /\ \E now \in Nows : availableAt' = [availableAt EXCEPT ![e] = now]
    /\ UNCHANGED <<clock, attempts, leaseExpiresAt, leasedBy, pc, batch, seen, applied>>

-----------------------------------------------------------------------------
(* Mutants: abandoned leases are not reclaimed; dead letters are claimed. *)
ClaimableNoReclaim(now) ==
    {e \in Events : status[e] \in {"pending", "retry"} /\ availableAt[e] <= now}
ClaimableDeadLetters(now) ==
    {e \in Events :
        \/ status[e] \in {"pending", "retry", "dead_letter"} /\ availableAt[e] <= now
        \/ status[e] = "processing" /\ leaseExpiresAt[e] <= now}

Claimable(now) ==
    {e \in Events :
        \/ status[e] \in {"pending", "retry"} /\ availableAt[e] <= now
        \/ status[e] = "processing" /\ leaseExpiresAt[e] <= now}

(* ORDER BY available_at, event_id *)
Before(e, f) ==
    \/ availableAt[e] < availableAt[f]
    \/ availableAt[e] = availableAt[f] /\ e < f

(* The batch is the first BatchSize of rows, in order. *)
IsBatch(b, rows) ==
    /\ \A i, j \in DOMAIN b : i # j => b[i] # b[j]
    /\ \A i, j \in DOMAIN b : i < j => Before(b[i], b[j])
    /\ \A e \in rows :
          \/ \E i \in DOMAIN b : b[i] = e
          \/ Len(b) = BatchSize /\ \A i \in DOMAIN b : Before(b[i], e)

(* A worker process starts, with an id of its own. *)
Start(w) ==
    /\ pc[w] = "new"
    /\ Solo => \A v \in Workers : ~Live(v)
    /\ pc' = [pc EXCEPT ![w] = "polling"]
    /\ UNCHANGED <<clock, row, batch, seen, applied>>

NextAttempt(e) == attempts[e] + 1

(* The rows of b, and nothing else, become w's: *)
Grant(w, b, now) ==
    LET granted == {b[i] : i \in DOMAIN b}
    IN /\ status' = [e \in Events |-> IF e \in granted THEN "processing" ELSE status[e]]
       /\ attempts' = [e \in Events |-> IF e \in granted THEN NextAttempt(e) ELSE attempts[e]]
       /\ leaseExpiresAt' = [e \in Events |->
                IF e \in granted THEN now + LeaseSeconds ELSE leaseExpiresAt[e]]
       /\ leasedBy' = [e \in Events |-> IF e \in granted THEN w ELSE leasedBy[e]]
       /\ batch' = [batch EXCEPT ![w] =
                [i \in DOMAIN b |-> [event |-> b[i], attempt |-> NextAttempt(b[i])]]]

(* claim, with the rows locked FOR UPDATE SKIP LOCKED until the commit: a  *)
(* row in another worker's open transaction is skipped, whatever its order.*)
(* A claim that finds nothing changes nothing; the worker sleeps and polls.*)
Claim(w) ==
    /\ pc[w] = "polling"
    /\ \E now \in Nows :
         \E skipped \in SUBSET Claimable(now) :
           \E n \in 1..BatchSize :
             \E b \in [1..n -> Claimable(now) \ skipped] :
               /\ skipped # {} => \E v \in Workers \ {w} : Live(v)
               /\ IsBatch(b, Claimable(now) \ skipped)
               /\ Grant(w, b, now)
    /\ pc' = [pc EXCEPT ![w] = "working"]
    /\ UNCHANGED <<clock, availableAt, seen, applied>>

-----------------------------------------------------------------------------
(* Mutant: process_batch returns after the first lease it has handled. *)
NextLeaseReturn(w) ==
    /\ batch' = [batch EXCEPT ![w] = <<>>]
    /\ pc' = [pc EXCEPT ![w] = "polling"]

(* The for loop of process_batch: on to the next lease, or back to run. *)
NextLease(w) ==
    /\ batch' = [batch EXCEPT ![w] = Tail(batch[w])]
    /\ pc' = [pc EXCEPT ![w] = IF Len(batch[w]) = 1 THEN "polling" ELSE "working"]

(* The processor returns, its writes committed, *)
Succeed(w) ==
    /\ pc[w] = "working"
    /\ applied' = applied \cup {Head(batch[w]).event}
    /\ pc' = [pc EXCEPT ![w] = "completing"]
    /\ UNCHANGED <<clock, row, batch, seen>>

(* Mutant: the exception is swallowed. *)
RaiseSwallowed(w) ==
    /\ pc[w] = "working"
    /\ pc' = [pc EXCEPT ![w] = "completing"]
    /\ UNCHANGED <<clock, row, batch, seen, applied>>

(* or raises an exception. *)
Raise(w) ==
    /\ pc[w] = "working"
    /\ pc' = [pc EXCEPT ![w] = "failing"]
    /\ UNCHANGED <<clock, row, batch, seen, applied>>

(* Mutants: the WHERE clause without leased_by, and by event_id alone. *)
OwnsByStatus(w, e) == status[e] = "processing"
OwnsByKey(w, e) == status[e] # "absent"

(* The WHERE clause of complete and of fail's SELECT. *)
Owns(w, e) == status[e] = "processing" /\ leasedBy[e] = w

Release(e) ==
    /\ leaseExpiresAt' = [leaseExpiresAt EXCEPT ![e] = Null]
    /\ leasedBy' = [leasedBy EXCEPT ![e] = Null]

(* complete: one conditional UPDATE, then the next lease whatever it hit. *)
Complete(w) ==
    /\ pc[w] = "completing"
    /\ LET e == Head(batch[w]).event
       IN IF Owns(w, e)
          THEN /\ status' = [status EXCEPT ![e] = "processed"]
               /\ Release(e)
               /\ UNCHANGED <<attempts, availableAt>>
          ELSE UNCHANGED row
    /\ NextLease(w)
    /\ UNCHANGED <<clock, seen, applied>>

(* fail, up to its SELECT: no row means the lease is gone. *)
FailSelect(w) ==
    /\ pc[w] = "failing"
    /\ LET e == Head(batch[w]).event
       IN IF Owns(w, e)
          THEN /\ \E now \in Nows :
                    seen' = [seen EXCEPT ![w] = [attempts |-> attempts[e], now |-> now]]
               /\ pc' = [pc EXCEPT ![w] = "writing"]
               /\ UNCHANGED batch
          ELSE NextLease(w) /\ UNCHANGED seen
    /\ UNCHANGED <<clock, row, applied>>

(* retry_delay of _process, from the attempt the lease was granted with. *)
RetryDelay(attempt) == RetryBase * 2 ^ (attempt - 1)

(* Mutant: the limit compared one too late. *)
ExhaustedLate(w) == seen[w].attempts > MaxAttempts

Exhausted(w) == seen[w].attempts >= MaxAttempts
Overflows(w) == RetryDelay(Head(batch[w]).attempt) \notin 0..MaxDelay

(* Mutant: a dead letter is never due again: NULL in a NOT NULL column. *)
DueAgainNever(w) ==
    IF Exhausted(w) THEN Null ELSE seen[w].now + RetryDelay(Head(batch[w]).attempt)

DueAgain(w) ==
    IF Exhausted(w) THEN seen[w].now ELSE seen[w].now + RetryDelay(Head(batch[w]).attempt)

(* fail, from its SELECT to its commit: the UPDATE names the row by its    *)
(* primary key alone, and writes what the SELECT has led to.               *)
FailCommit(w) ==
    /\ pc[w] = "writing"
    /\ Exhausted(w) \/ ~Overflows(w)
    /\ LET e == Head(batch[w]).event
       IN /\ status' = [status EXCEPT ![e] = IF Exhausted(w) THEN "dead_letter" ELSE "retry"]
          /\ availableAt' = [availableAt EXCEPT ![e] = DueAgain(w)]
          /\ Release(e)
    /\ seen' = [seen EXCEPT ![w] = Null]
    /\ NextLease(w)
    /\ UNCHANGED <<clock, attempts, applied>>

-----------------------------------------------------------------------------
(* The worker stops for good: it is killed, its --once batch is done, or a *)
(* storage error leaves claim, complete or fail, which nothing in run or   *)
(* process_batch catches.  Its open transaction rolls back; its leases     *)
(* stay in the table.                                                      *)
Leave(w) ==
    /\ pc' = [pc EXCEPT ![w] = "stopped"]
    /\ batch' = [batch EXCEPT ![w] = <<>>]
    /\ seen' = [seen EXCEPT ![w] = Null]
    /\ UNCHANGED <<clock, row, applied>>

Stop(w) == Live(w) /\ Leave(w)

(* The delay of a retry is too long for datetime: OverflowError leaves fail. *)
FailOverflow(w) == pc[w] = "writing" /\ ~Exhausted(w) /\ Overflows(w) /\ Leave(w)

Tick ==
    /\ clock' = clock + 1
    /\ UNCHANGED <<row, pc, batch, seen, applied>>

Next ==
    \/ \E e \in Events : Store(e)
    \/ \E w \in Workers :
          \/ Start(w) \/ Claim(w)
          \/ Succeed(w) \/ Raise(w)
          \/ Complete(w) \/ FailSelect(w) \/ FailCommit(w)
          \/ FailOverflow(w) \/ Stop(w)
    \/ Tick

Spec == Init /\ [][Next]_vars

-----------------------------------------------------------------------------
(* The promise, read off the status column. *)
Outcome(s) ==
    CASE s = "absent" -> "none"
      [] s = "processed" -> "done"
      [] s = "dead_letter" -> "given_up"
      [] OTHER -> "accepted"

Promise == INSTANCE DurableWork WITH
    outcome <- [e \in Events |-> Outcome(status[e])]

(* One worker at a time keeps the promise, and keeps it in finite time. *)
PromiseKept == Promise!FairSpec

-----------------------------------------------------------------------------
(* A row is leased exactly while it is processing: a processing row without *)
(* an expiry could never be claimed again, a waiting row with an owner      *)
(* could be completed by it (sqlalchemy.py claim, complete, fail).          *)
LeaseColumns ==
    \A e \in Events :
        /\ status[e] = "processing" <=> leasedBy[e] # Null
        /\ status[e] = "processing" <=> leaseExpiresAt[e] # Null

(* Fencing.  complete and fail compare worker ids only, not attempts: that  *)
(* is enough because a worker that owns a row has its current lease in its  *)
(* batch, under the attempt the row is at, whatever the worker has lost and *)
(* claimed again since.  In particular the for loop of process_batch drops  *)
(* no lease that the table still gives to a live worker.                    *)
TokenCurrent ==
    \A w \in Workers, e \in Events :
        Live(w) /\ leasedBy[e] = w =>
            \E i \in DOMAIN batch[w] :
                batch[w][i].event = e /\ batch[w][i].attempt = attempts[e]

(* A lease is granted to one worker, once: no two leases that workers have  *)
(* in hand are for the same attempt of the same event, and none is for an   *)
(* attempt its row has not reached.                                         *)
LeasesUnique ==
    \A w \in Workers : \A i \in DOMAIN batch[w] :
        /\ batch[w][i].attempt \in 1..attempts[batch[w][i].event]
        /\ \A v \in Workers : \A j \in DOMAIN batch[v] :
              /\ batch[v][j].event = batch[w][i].event
              /\ v = w \/ batch[v][j].attempt = batch[w][i].attempt
              => v = w /\ j = i

(* The columns of a leased row and what the workers have in hand agree, so  *)
(* that comparing a worker id is enough of a fence.                        *)
LeasesFenced == LeaseColumns /\ TokenCurrent /\ LeasesUnique

(* What the console counts as completed has been processed successfully.    *)
ProcessedWasApplied == \A e \in Events : status[e] = "processed" => e \in applied

(* Nothing is dead-lettered before its attempts are used up.                *)
DeadLetterAfterLimit ==
    \A e \in Events : status[e] = "dead_letter" => attempts[e] >= MaxAttempts

(* Both outcomes of an event are what its attempts have come to.            *)
SettledAsEarned == ProcessedWasApplied /\ DeadLetterAfterLimit

(* w works from the current lease of e. *)
HolderOf(w, e) ==
    /\ leasedBy[e] = w
    /\ Head(batch[w]).event = e /\ Head(batch[w]).attempt = attempts[e]

(* A row becomes processed only by the worker that holds its current lease, *)
(* never by one whose lease another claim has taken over.                   *)
OnlyHolderCompletes ==
    [][\A e \in Events :
          status[e] # "processed" /\ status'[e] = "processed" =>
              \E w \in Workers : pc[w] = "completing" /\ HolderOf(w, e)]_vars

(* The one way out of processed and dead_letter: the write of a fail whose  *)
(* read is older than the claim the row was settled under.                  *)
OnlyLateFailUnsettles ==
    [][\A e \in Events :
          Settled(e) /\ status'[e] # status[e] =>
              \E w \in Workers :
                  /\ pc[w] = "writing"
                  /\ Head(batch[w]).event = e
                  /\ seen[w].attempts < attempts[e]]_vars

(* Work that is settled stays settled: "Durably completed events" are not   *)
(* processed again, dead letters are not revived.                           *)
SettledIsFinal == [][\A e \in Events : Settled(e) => status'[e] = status[e]]_vars

=============================================================================
