---------------------------- MODULE IncidentLedger ----------------------------
(***************************************************************************)
(* The incident workflow: the tables incidents, incident_signals and       *)
(* incident_timeline, the workers that file evidence in them               *)
(* (record_incident_signals) and the operators who acknowledge and resolve *)
(* incidents through the API (transition_incident).                        *)
(*                                                                         *)
(* The three tables are one book per deduplication key <node, metric>: the *)
(* incident of the key, its signals, its timeline.  A worker records a     *)
(* list of signals in one transaction: it works on drafts of the books it  *)
(* has locked and replaces the books by them when it commits.  PostgreSQL  *)
(* locks the row of one incident; SQLite locks the database for a writer,  *)
(* and nothing for a reader (RowLocks).                                    *)
(*                                                                         *)
(* Each process reads the clock of its own host, before it waits for a     *)
(* lock: the hosts' clocks are at most ClockLag apart.                     *)
(***************************************************************************)
EXTENDS Naturals, Sequences, FiniteSets

CONSTANTS
    Keys,       \* deduplication keys
    Signals,    \* evidence a worker may derive: its id is <event, metric, source>
    Calls,      \* the lists of signals record_incident_signals may be given
    Workers,    \* pipeline workers, and their record_incident_signals calls
    Operators,  \* the actors of acknowledge and resolve
    Null,       \* SQL NULL
    RowLocks,   \* TRUE: PostgreSQL.  FALSE: SQLite
    ClockLag    \* how far the clock of a host may be behind that of another

Severities == {"warning", "critical"}

(* Scoring an event again may change the severity of a signal, not its key. *)
ASSUME SignalsAssumption ==
    /\ \A s \in Signals : s.key \in Keys /\ s.severity \in Severities
    /\ \A s, t \in Signals : s.id = t.id => s.key = t.key

Statuses == {"absent", "open", "acknowledged", "resolved"}
Actions == {"opened", "escalated", "reopened", "acknowledged", "resolved"}

Row == [status : Statuses, severity : Severities, owner : Operators \cup {Null},
        acknowledged : BOOLEAN,   \* acknowledged_at is set
        closed : BOOLEAN,         \* resolved_at and resolution_note are set
        occurrences : Nat, revision : Nat]
Entry == [action : Actions, actor : Operators \cup {Null},
          from : Statuses \cup {Null}, to : Statuses, at : Nat]
Book == [incident : Row, signals : SUBSET Signals, timeline : Seq(Entry)]
Ask == [key : Keys, to : {"acknowledged", "resolved"}, seen : Row, at : Nat]

ASSUME ConstantsAssumption ==
    /\ Calls \subseteq Seq(Signals) \ {<<>>}
    /\ Null \notin Operators \cup Nat \cup Statuses \cup Row \cup Ask \cup Seq(Signals)
    /\ RowLocks \in BOOLEAN
    /\ ClockLag \in Nat

VARIABLES
    clock,    \* the clock of the host that is ahead
    book,     \* the committed tables
    call,     \* per worker: the list it is recording, or Null
    next,     \* the position in that list of the signal it is at
    stamp,    \* now of that signal's iteration, or Null before it is read
    held,     \* what its statements so far hold for that signal
    draft,    \* the books its open transaction has locked, as it has changed them
    view,     \* per operator: the incidents on the screen
    ask,      \* the request the API is handling for the operator, or Null
    read      \* the row transition_incident has read for it, or Null

worker == <<call, next, stamp, held, draft>>
operator == <<view, ask, read>>
vars == <<clock, book, worker, operator>>

TypeOK ==
    /\ clock \in Nat
    /\ book \in [Keys -> Book]
    /\ call \in [Workers -> Calls \cup {Null}]
    /\ next \in [Workers -> Nat \ {0}]
    /\ stamp \in [Workers -> Nat \cup {Null}]
    /\ held \in [Workers -> {"nothing", "signal", "incident"}]
    /\ \A w \in Workers :
          DOMAIN draft[w] \subseteq Keys /\ draft[w] \in [DOMAIN draft[w] -> Book]
    /\ DOMAIN draft = Workers
    /\ view \in [Operators -> [Keys -> Row \cup {Null}]]
    /\ ask \in [Operators -> Ask \cup {Null}]
    /\ read \in [Operators -> Row \cup {Null}]

NoIncident == [status |-> "absent", severity |-> "warning", owner |-> Null,
               acknowledged |-> FALSE, closed |-> FALSE, occurrences |-> 0, revision |-> 0]
NoDraft == [k \in {} |-> Null]

Init ==
    /\ clock = 0
    /\ book = [k \in Keys |-> [incident |-> NoIncident, signals |-> {}, timeline |-> <<>>]]
    /\ call = [w \in Workers |-> Null]
    /\ next = [w \in Workers |-> 1]
    /\ stamp = [w \in Workers |-> Null]
    /\ held = [w \in Workers |-> "nothing"]
    /\ draft = [w \in Workers |-> NoDraft]
    /\ view = [o \in Operators |-> [k \in Keys |-> Null]]
    /\ ask = [o \in Operators |-> Null]
    /\ read = [o \in Operators |-> Null]

-----------------------------------------------------------------------------
(* The clocks. *)

(* What a host may read.  Time passes with each reading. *)
Readings == {t \in 0..clock : clock <= t + ClockLag}

-----------------------------------------------------------------------------
(* The locks.  For each signal a worker inserts the incident, unless it     *)
(* exists, and the signal, which holds the row of the signal; the signal's *)
(* foreign key takes a share of the incident's row, and SELECT ... FOR     *)
(* UPDATE then the row.  Who has drafted a book has its row.               *)

Recording(w) == call[w] # Null /\ next[w] <= Len(call[w])
Signal(w) == call[w][next[w]]

(* An operator's SELECT ... FOR UPDATE holds the row until its commit. *)
HeldByOperator(k) == RowLocks /\ \E o \in Operators : read[o] # Null /\ ask[o].key = k

Shares(w, k) == held[w] = "incident" /\ Signal(w).key = k

(* The row of the incident of k was inserted or updated by w. *)
Wrote(w, k) ==
    \/ k \in DOMAIN draft[w]
    \/ held[w] # "nothing" /\ Signal(w).key = k /\ book[k].incident.status = "absent"

(* Whether v is in the way of the inserts of w, *)
InTheWayOfInserts(v, w) ==
    /\ held[w] = "nothing"
    /\ IF RowLocks
       THEN \/ Wrote(v, Signal(w).key)
            \/ held[v] # "nothing" /\ Signal(v).id = Signal(w).id
       ELSE DOMAIN draft[v] # {}

(* or of its next statement, whichever that is.  Mutant: neither the foreign *)
(* key nor the SELECT locks the incident (InTheWayOfInserts).              *)
InTheWay(v, w) ==
    \/ InTheWayOfInserts(v, w)
    \/ held[w] # "nothing" /\ Signal(w).key \in DOMAIN draft[v]
    \/ held[w] = "incident" /\ Shares(v, Signal(w).key)

Free(w) == \A v \in Workers \ {w} : ~InTheWay(v, w)

-----------------------------------------------------------------------------
(* record_incident_signals: what one signal does to the book of its key.   *)

(* INSERT INTO incidents ... ON CONFLICT DO NOTHING *)
Insert(b, s) ==
    IF b.incident.status = "absent"
    THEN [b EXCEPT !.incident = [NoIncident EXCEPT !.status = "open", !.severity = s.severity]]
    ELSE b

(* Mutant: the severity is part of the key of incident_signals. *)
KnownAtSeverity(b, s) == s \in b.signals

(* INSERT INTO incident_signals ... ON CONFLICT DO NOTHING finds the id. *)
Known(b, s) == \E t \in b.signals : t.id = s.id

TimelineAction(i, s) ==
    CASE i.occurrences = 0 -> "opened"
      [] i.occurrences # 0 /\ i.status = "resolved" -> "reopened"
      [] i.occurrences # 0 /\ i.status # "resolved"
            /\ i.severity = "warning" /\ s.severity = "critical" -> "escalated"
      [] OTHER -> "none"

(* Mutants: a reopened incident keeps its owner; the latest severity wins. *)
UpdateKeepsOwner(i, s) ==
    [i EXCEPT !.status = IF TimelineAction(i, s) = "reopened" THEN "open" ELSE @,
              !.severity = IF s.severity = "critical" THEN "critical" ELSE @,
              !.occurrences = @ + 1, !.revision = @ + 1]
UpdateLatestSeverity(i, s) ==
    [(IF TimelineAction(i, s) = "reopened"
      THEN [NoIncident EXCEPT !.status = "open", !.occurrences = i.occurrences,
                              !.revision = i.revision]
      ELSE i) EXCEPT !.severity = s.severity, !.occurrences = @ + 1, !.revision = @ + 1]

Update(i, s) ==
    [(IF TimelineAction(i, s) = "reopened"
      THEN [i EXCEPT !.status = "open", !.owner = Null, !.acknowledged = FALSE,
                     !.closed = FALSE]
      ELSE i) EXCEPT !.severity = IF s.severity = "critical" THEN "critical" ELSE @,
                     !.occurrences = @ + 1,
                     !.revision = @ + 1]

WorkerEntry(i, s, now) ==
    [action |-> TimelineAction(i, s), actor |-> Null,
     from |-> IF i.occurrences = 0 THEN Null ELSE i.status,
     to |-> Update(i, s).status, at |-> now]

Record(b, s, now) ==
    LET i == b.incident
    IN [incident |-> Update(i, s),
        signals |-> b.signals \cup {s},
        timeline |-> IF TimelineAction(i, s) = "none" THEN b.timeline
                     ELSE Append(b.timeline, WorkerEntry(i, s, now))]

-----------------------------------------------------------------------------
(* record_incident_signals, one transaction. *)
Begin(w, c) ==
    /\ call[w] = Null
    /\ call' = [call EXCEPT ![w] = c]
    /\ UNCHANGED <<clock, book, next, stamp, held, draft, operator>>

(* The loop body starts with now = datetime.now(UTC), *)
Stamp(w) ==
    /\ Recording(w) /\ stamp[w] = Null
    /\ \E now \in Readings : stamp' = [stamp EXCEPT ![w] = now]
    /\ clock' = clock + 1
    /\ UNCHANGED <<book, call, next, held, draft, operator>>

(* Mutant: the first known signal ends the loop: break, not continue. *)
AdvanceBreak(w) ==
    /\ next' = [next EXCEPT ![w] =
          IF draft' = draft THEN Len(call[w]) + 1 ELSE @ + 1]
    /\ stamp' = [stamp EXCEPT ![w] = Null]
    /\ held' = [held EXCEPT ![w] = "nothing"]

Advance(w) ==
    /\ next' = [next EXCEPT ![w] = @ + 1]
    /\ stamp' = [stamp EXCEPT ![w] = Null]
    /\ held' = [held EXCEPT ![w] = "nothing"]

(* The books as the transaction sees them, and with those of ks locked: *)
Visible(w, k) == IF k \in DOMAIN draft[w] THEN draft[w][k] ELSE book[k]
Locked(w, ks) == [k \in DOMAIN draft[w] \cup ks |-> Visible(w, k)]

(* The first statement that writes locks the database of SQLite. *)
LockDatabase(w) ==
    IF RowLocks THEN UNCHANGED draft
    ELSE draft' = [draft EXCEPT ![w] = Locked(w, Keys)]

(* it skips a signal that is on record, once no other worker writes the    *)
(* incident, whichever operator has it,                                    *)
Skip(w) ==
    /\ Recording(w) /\ stamp[w] # Null
    /\ held[w] = "nothing" /\ Free(w)
    /\ Known(Visible(w, Signal(w).key), Signal(w))
    /\ LockDatabase(w)
    /\ Advance(w)
    /\ UNCHANGED <<clock, book, call, operator>>

(* inserts a new one, and its incident when there is none yet,             *)
InsertSignal(w) ==
    /\ Recording(w) /\ stamp[w] # Null
    /\ held[w] = "nothing" /\ Free(w)
    /\ ~Known(Visible(w, Signal(w).key), Signal(w))
    /\ held' = [held EXCEPT ![w] = "signal"]
    /\ LockDatabase(w)
    /\ UNCHANGED <<clock, book, call, next, stamp, operator>>

(* takes a share of the incident's row for the foreign key,                *)
ShareIncident(w) ==
    /\ held[w] = "signal" /\ Free(w) /\ ~HeldByOperator(Signal(w).key)
    /\ held' = [held EXCEPT ![w] = "incident"]
    /\ UNCHANGED <<clock, book, call, next, stamp, draft, operator>>

(* then the row, once nobody else has a share of it, and files the signal. *)
File(w) ==
    /\ held[w] = "incident" /\ Free(w) /\ ~HeldByOperator(Signal(w).key)
    /\ LET s == Signal(w)
           seen == Locked(w, {s.key})
       IN draft' = [draft EXCEPT ![w] =
             [seen EXCEPT ![s.key] = Record(Insert(seen[s.key], s), s, stamp[w])]]
    /\ Advance(w)
    /\ UNCHANGED <<clock, book, call, operator>>

Hangup(w) ==
    /\ call' = [call EXCEPT ![w] = Null]
    /\ next' = [next EXCEPT ![w] = 1]
    /\ stamp' = [stamp EXCEPT ![w] = Null]
    /\ held' = [held EXCEPT ![w] = "nothing"]
    /\ draft' = [draft EXCEPT ![w] = NoDraft]
    /\ UNCHANGED <<clock, operator>>

Commit(w) ==
    /\ call[w] # Null /\ next[w] > Len(call[w])
    /\ book' = [k \in Keys |-> IF k \in DOMAIN draft[w] THEN draft[w][k] ELSE book[k]]
    /\ Hangup(w)

(* Mutant: no rollback: the books stay locked. *)
AbortHolding(w) ==
    /\ call[w] # Null
    /\ call' = [call EXCEPT ![w] = Null]
    /\ next' = [next EXCEPT ![w] = 1]
    /\ stamp' = [stamp EXCEPT ![w] = Null]
    /\ held' = [held EXCEPT ![w] = "nothing"]
    /\ UNCHANGED <<clock, book, draft, operator>>

(* The transaction fails, or the worker dies: nothing is kept. *)
Abort(w) == call[w] # Null /\ Hangup(w) /\ UNCHANGED book

(* PostgreSQL finds the transactions that wait for each other and makes    *)
(* one of them fail.                                                       *)
Deadlocked(w) ==
    \E circle \in SUBSET Workers :
        /\ w \in circle
        /\ \A v \in circle :
              /\ Recording(v) /\ stamp[v] # Null
              /\ \E u \in circle \ {v} : InTheWay(u, v)

Victim(w) == Deadlocked(w) /\ Abort(w)

-----------------------------------------------------------------------------
(* transition_incident. *)

(* The console lists the incidents: one SELECT. *)
Refresh(o) ==
    /\ view' = [view EXCEPT ![o] =
          [k \in Keys |-> IF book[k].incident.status = "absent" THEN Null ELSE book[k].incident]]
    /\ UNCHANGED <<clock, book, worker, ask, read>>

(* The operator acts on what the screen shows; the API reads the clock. *)
Request(o, k, to) ==
    /\ ask[o] = Null /\ view[o][k] # Null
    /\ \E now \in Readings :
          ask' = [ask EXCEPT ![o] = [key |-> k, to |-> to, seen |-> view[o][k], at |-> now]]
    /\ clock' = clock + 1
    /\ UNCHANGED <<book, worker, view, read>>

(* expected_revision is that of the row on the screen. *)
Current(o) == book[ask[o].key].incident.revision = ask[o].seen.revision

Possible(o) ==
    LET status == book[ask[o].key].incident.status
    IN status \in (IF ask[o].to = "acknowledged" THEN {"open"} ELSE {"open", "acknowledged"})

Pending(o) == ask[o] # Null /\ read[o] = Null

(* Mutant: the SELECT is not FOR UPDATE. *)
UnlockedAlways(o) == TRUE

Unlocked(o) == RowLocks =>
    /\ ~HeldByOperator(ask[o].key)
    /\ \A w \in Workers : ask[o].key \notin DOMAIN draft[w] /\ ~Shares(w, ask[o].key)

(* The SELECT, FOR UPDATE on PostgreSQL, and the checks behind it, *)
Accept(o) ==
    /\ Pending(o) /\ Unlocked(o)
    /\ Current(o) /\ Possible(o)
    /\ read' = [read EXCEPT ![o] = book[ask[o].key].incident]
    /\ UNCHANGED <<clock, book, worker, view, ask>>

(* an answer that changes nothing: 409 for a stale revision, a transition  *)
(* that is not possible or a note of blanks, 200 when the incident is      *)
(* already there,                                                          *)
Refuse(o) ==
    /\ Pending(o) /\ Unlocked(o)
    /\ Current(o) /\ Possible(o) => ask[o].to = "resolved"
    /\ ask' = [ask EXCEPT ![o] = Null]
    /\ UNCHANGED <<clock, book, worker, view, read>>

(* Mutant: the status is the name of the action. *)
DecidedAction(i, o) ==
    [i EXCEPT !.status = IF ask[o].to = "resolved" THEN "resolve" ELSE "acknowledge",
              !.owner = o, !.revision = @ + 1]

(* the columns that differ from the row that was read, *)
Decided(i, o) ==
    [i EXCEPT !.status = ask[o].to,
              !.owner = IF read[o].owner = o THEN @ ELSE o,
              !.acknowledged = @ \/ ask[o].to = "acknowledged",
              !.closed = @ \/ ask[o].to = "resolved",
              !.revision = read[o].revision + 1]

OperatorEntry(o) ==
    [action |-> ask[o].to, actor |-> o, from |-> read[o].status, to |-> ask[o].to,
     at |-> ask[o].at]

Judged(b, o) ==
    [b EXCEPT !.incident = Decided(b.incident, o),
              !.timeline = Append(b.timeline, OperatorEntry(o))]

(* and the UPDATE and the timeline entry, committed.  The console shows    *)
(* the answer.                                                             *)
Decide(o) ==
    /\ read[o] # Null
    /\ LET k == ask[o].key
       IN /\ \A w \in Workers : k \notin DOMAIN draft[w]
          /\ book' = [book EXCEPT ![k] = Judged(book[k], o)]
          /\ view' = [view EXCEPT ![o][k] = Judged(book[k], o).incident]
    /\ ask' = [ask EXCEPT ![o] = Null]
    /\ read' = [read EXCEPT ![o] = Null]
    /\ UNCHANGED <<clock, worker>>

(* The request fails: a storage error, a database that stays locked, an    *)
(* API that dies.                                                          *)
Drop(o) ==
    /\ ask[o] # Null
    /\ ask' = [ask EXCEPT ![o] = Null]
    /\ read' = [read EXCEPT ![o] = Null]
    /\ UNCHANGED <<clock, book, worker, view>>

-----------------------------------------------------------------------------
Next ==
    \/ \E w \in Workers :
          \/ \E c \in Calls : Begin(w, c)
          \/ Stamp(w) \/ Skip(w) \/ InsertSignal(w) \/ ShareIncident(w) \/ File(w)
          \/ Commit(w) \/ Abort(w)
    \/ \E o \in Operators :
          \/ Refresh(o)
          \/ \E k \in Keys, to \in {"acknowledged", "resolved"} : Request(o, k, to)
          \/ Accept(o) \/ Refuse(o) \/ Decide(o) \/ Drop(o)

Spec == Init /\ [][Next]_vars

-----------------------------------------------------------------------------
(* occurrence_count is the number of signals on record for the incident,   *)
(* each event, metric and source counted once however often it is          *)
(* delivered and whatever severity it was scored with; an incident exists  *)
(* exactly when there is evidence for it.                                  *)
CountsEvidence(b) ==
    /\ b.incident.occurrences = Cardinality(b.signals)
    /\ b.incident.status = "absent" <=> b.signals = {}
    /\ \A s, t \in b.signals : s.id = t.id => s = t

EvidenceCounted == \A k \in Keys : CountsEvidence(book[k])

(* An incident is critical exactly when critical evidence is on record:     *)
(* severity rises with it and nothing lowers it again.                     *)
ShowsSeverity(b) ==
    b.incident.severity = "critical" <=> \E s \in b.signals : s.severity = "critical"

SeverityEvidenced == \A k \in Keys : ShowsSeverity(book[k])

(* What the row of an incident shows is what the evidence on record says,   *)
(* however often and in whichever order it was delivered.                  *)
EvidenceShown == EvidenceCounted /\ SeverityEvidenced

Decisions(t) == {j \in DOMAIN t : t[j].actor # Null}

(* Every change of an incident has a revision of its own: one per signal    *)
(* and one per operator decision.                                          *)
CountsChanges(b) ==
    b.incident.revision = b.incident.occurrences + Cardinality(Decisions(b.timeline))

RevisionCounts == \A k \in Keys : CountsChanges(book[k])

(* The timeline is the history of the status: it starts with opened, each   *)
(* entry starts where the one before it ended, the last one ends at the    *)
(* incident's status.                                                      *)
Chains(b) ==
    LET t == b.timeline
    IN /\ t = <<>> <=> b.incident.status = "absent"
       /\ \A j \in DOMAIN t :
             /\ t[j].from = IF j = 1 THEN Null ELSE t[j - 1].to
             /\ t[j].action = "opened" <=> j = 1
       /\ t # <<>> => t[Len(t)].to = b.incident.status

TimelineChains == \A k \in Keys : Chains(book[k])

(* The owner of an incident is the actor of its last entry that is not an   *)
(* escalation, nobody when the worker wrote it; acknowledged_at and        *)
(* resolved_at are set for the statuses that call for them.                *)
NamesOwner(b) ==
    LET t == b.timeline
        i == b.incident
    IN /\ \A j \in DOMAIN t :
             (\A n \in DOMAIN t : n > j => t[n].action = "escalated")
             /\ t[j].action # "escalated" => i.owner = t[j].actor
       /\ i.closed <=> i.status = "resolved"
       /\ i.acknowledged => i.status \in {"acknowledged", "resolved"}
       /\ i.status = "acknowledged" => i.acknowledged

OwnerDecided == \A k \in Keys : NamesOwner(book[k])

(* A decision of an operator is stamped no earlier than what the timeline   *)
(* held before it, up to what the clocks of two hosts are apart, although  *)
(* its time is read before the row is locked: the revision check refuses   *)
(* the request of one who has not seen it all.                             *)
DecisionsStampedLast ==
    \A k \in Keys :
        LET t == book[k].timeline
        IN \A n \in Decisions(t) : \A j \in DOMAIN t : j < n => t[j].at <= t[n].at + ClockLag

(* Revision, timeline, status, owner and times of an incident tell the same *)
(* story, whatever operators and workers did to it and in which order.      *)
TimelineTold == RevisionCounts /\ TimelineChains /\ OwnerDecided /\ DecisionsStampedLast

(* An operator decides about the incident the console showed: no evidence   *)
(* and no decision of another operator has come in between.                *)
DecisionsInformed ==
    [][\A o \in Operators :
          read[o] # Null /\ book' # book /\ read'[o] = Null =>
              book[ask[o].key].incident = ask[o].seen]_vars

(* A transaction commits all signals of its call or none: when it has gone  *)
(* through the list, each signal is on record already or in what it is     *)
(* about to commit.                                                        *)
CallsCommittedWhole ==
    \A w \in Workers :
        call[w] # Null /\ next[w] > Len(call[w]) =>
            \A j \in DOMAIN call[w] :
                Known(Visible(w, call[w][j].key), call[w][j])

(* What the committed tables tell of an incident, but for its times. *)
Untimed(e) == [action |-> e.action, actor |-> e.actor, from |-> e.from, to |-> e.to]
Tale(b) == [evidence |-> b.signals,
            timeline |-> [j \in DOMAIN b.timeline |-> Untimed(b.timeline[j])]]

Story == [k \in Keys |-> Tale(book[k])]

History == INSTANCE IncidentHistory WITH story <- Story

(* The transactions of workers and operators, however they interleave, wait *)
(* and fail, add up to whole calls and single decisions one after the      *)
(* other.                                                                  *)
Serializable == History!Spec
=============================================================================
