------------------------ MODULE IncidentLedgerProofs ------------------------
(***************************************************************************)
(* Theorems about IncidentLedger for any number of incidents, signals,     *)
(* workers and operators.                                                  *)
(***************************************************************************)
EXTENDS IncidentLedger, FiniteSetTheorems, SequenceTheorems, TLAPS

-----------------------------------------------------------------------------
(* The book of one incident, whoever holds it.                             *)

BookGood(b) ==
    /\ b \in Book
    /\ IsFiniteSet(b.signals)
    /\ CountsEvidence(b)
    /\ ShowsSeverity(b)
    /\ b.incident.status = "absent" => b.incident = NoIncident

LEMMA NullApart ==
    /\ Null \notin Operators /\ Null \notin Nat /\ Null \notin Statuses
    /\ Null \notin Row /\ Null \notin Ask /\ Null \notin Calls
BY ConstantsAssumption

LEMMA NoIncidentType == NoIncident \in Row
BY DEF NoIncident, Row, Statuses, Severities

(* What the row of a good book counts. *)
LEMMA GoodRow ==
    ASSUME NEW b, BookGood(b)
    PROVE  /\ b.incident \in Row
           /\ b.signals \subseteq Signals
           /\ b.timeline \in Seq(Entry)
           /\ b.incident.occurrences = 0 <=> b.incident.status = "absent"
<1>1. b.incident \in Row /\ b.signals \subseteq Signals /\ b.timeline \in Seq(Entry)
  BY DEF BookGood, Book
<1>2. Cardinality(b.signals) = 0 <=> b.signals = {}
  BY FS_EmptySet DEF BookGood
<1> QED  BY <1>1, <1>2 DEF BookGood, CountsEvidence

(* The new incident row of a key without one. *)
LEMMA InsertGood ==
    ASSUME NEW b, BookGood(b), NEW s \in Signals
    PROVE  LET c == Insert(b, s)
           IN /\ c.incident \in Row
              /\ c.incident.status # "absent"
              /\ c.signals = b.signals /\ c.timeline = b.timeline
              /\ c.incident.occurrences = b.incident.occurrences
              /\ c.incident.revision = b.incident.revision
              /\ b.incident.status = "absent" =>
                    /\ c.incident.severity = s.severity /\ c.incident.status = "open"
                    /\ c.incident.owner = Null /\ ~c.incident.closed
                    /\ ~c.incident.acknowledged
              /\ b.incident.status # "absent" => c = b
<1>1. CASE b.incident.status = "absent"
  <2>1. b.incident = NoIncident
    BY <1>1 DEF BookGood
  <2>2. b \in Book
    BY DEF BookGood
  <2>3. Insert(b, s) = [b EXCEPT !.incident = [NoIncident EXCEPT !.status = "open", !.severity = s.severity]]
    BY <1>1 DEF Insert
  <2>4. s.severity \in Severities
    BY SignalsAssumption
  <2> DEFINE r == [NoIncident EXCEPT !.status = "open", !.severity = s.severity]
  <2>5. /\ r \in Row /\ r.status = "open" /\ r.severity = s.severity /\ r.occurrences = 0
        /\ r.revision = 0 /\ r.owner = Null /\ ~r.closed /\ ~r.acknowledged
    BY <2>4 DEF NoIncident, Row, Statuses, Severities
  <2>6. b.incident.occurrences = 0 /\ b.incident.revision = 0
    BY <2>1 DEF NoIncident
  <2> HIDE DEF r
  <2>7. Insert(b, s) = [b EXCEPT !.incident = r]
    BY <2>3 DEF r
  <2>8. /\ Insert(b, s).incident = r
        /\ Insert(b, s).signals = b.signals /\ Insert(b, s).timeline = b.timeline
    BY <2>2, <2>7 DEF Book
  <2> QED  BY <1>1, <2>5, <2>6, <2>8
<1>2. CASE b.incident.status # "absent"
  BY <1>2, GoodRow DEF Insert
<1> QED  BY <1>1, <1>2

(* What one more signal does to the row. *)
Counted(r, s) == [r EXCEPT !.severity = IF s.severity = "critical" THEN "critical" ELSE @,
                           !.occurrences = @ + 1, !.revision = @ + 1]

LEMMA CountedRow ==
    ASSUME NEW r \in Row, NEW s \in Signals
    PROVE  LET u == Counted(r, s)
           IN /\ u \in Row
              /\ u.status = r.status
              /\ u.severity = IF s.severity = "critical" THEN "critical" ELSE r.severity
              /\ u.occurrences = r.occurrences + 1
              /\ u.revision = r.revision + 1
              /\ u.owner = r.owner
              /\ u.acknowledged = r.acknowledged
              /\ u.closed = r.closed
<1> DEFINE x == IF s.severity = "critical" THEN "critical" ELSE r.severity
<1>1. x \in Severities
  BY DEF Row, Severities
<1>2. Counted(r, s) = [r EXCEPT !.severity = x, !.occurrences = r.occurrences + 1,
                                !.revision = r.revision + 1]
  BY DEF Row, Counted
<1>3. x = IF s.severity = "critical" THEN "critical" ELSE r.severity
  OBVIOUS
<1> HIDE DEF x
<1>4. r.occurrences + 1 \in Nat /\ r.revision + 1 \in Nat
  BY DEF Row
<1> DEFINE u == [r EXCEPT !.severity = x, !.occurrences = r.occurrences + 1,
                          !.revision = r.revision + 1]
<1>5. u \in Row
  BY <1>1, <1>4 DEF Row
<1>6. /\ u.status = r.status /\ u.severity = x /\ u.occurrences = r.occurrences + 1
      /\ u.revision = r.revision + 1 /\ u.owner = r.owner
      /\ u.acknowledged = r.acknowledged /\ u.closed = r.closed
  BY DEF Row
<1> QED  BY <1>2, <1>3, <1>5, <1>6

LEMMA UpdateRow ==
    ASSUME NEW i \in Row, i.status # "absent", NEW s \in Signals
    PROVE  LET u == Update(i, s)
           IN /\ u \in Row
              /\ u.status = IF TimelineAction(i, s) = "reopened" THEN "open" ELSE i.status
              /\ u.severity = IF s.severity = "critical" THEN "critical" ELSE i.severity
              /\ u.occurrences = i.occurrences + 1
              /\ u.revision = i.revision + 1
              /\ TimelineAction(i, s) = "reopened" =>
                    u.owner = Null /\ u.acknowledged = FALSE /\ u.closed = FALSE
              /\ TimelineAction(i, s) # "reopened" =>
                    /\ u.owner = i.owner /\ u.acknowledged = i.acknowledged
                    /\ u.closed = i.closed
<1>1. CASE TimelineAction(i, s) = "reopened"
  <2> DEFINE r == [i EXCEPT !.status = "open", !.owner = Null, !.acknowledged = FALSE, !.closed = FALSE]
  <2>1. r \in Row
    BY DEF Row, Statuses
  <2>2. /\ r.status = "open" /\ r.owner = Null /\ r.acknowledged = FALSE
        /\ r.closed = FALSE /\ r.severity = i.severity /\ r.occurrences = i.occurrences
        /\ r.revision = i.revision
    BY DEF Row
  <2>3. Update(i, s) = Counted(r, s)
    BY <1>1 DEF Update, Counted
  <2> HIDE DEF r
  <2> QED  BY <1>1, <2>1, <2>2, <2>3, CountedRow
<1>2. CASE TimelineAction(i, s) # "reopened"
  <2>1. Update(i, s) = Counted(i, s)
    BY <1>2 DEF Update, Counted
  <2> QED  BY <1>2, <2>1, CountedRow
<1> QED  BY <1>1, <1>2

LEMMA WorkerEntryType ==
    ASSUME NEW i \in Row, i.status # "absent", NEW s \in Signals, NEW now \in Nat,
           TimelineAction(i, s) # "none"
    PROVE  WorkerEntry(i, s, now) \in Entry
<1>1. TimelineAction(i, s) \in Actions
  BY DEF TimelineAction, Actions
<1>2. i.status \in Statuses /\ Update(i, s).status \in Statuses
  BY UpdateRow DEF Row
<1> QED  BY <1>1, <1>2 DEF WorkerEntry, Entry

(* A new signal leaves a good book good. *)
LEMMA RecordGood ==
    ASSUME NEW b, BookGood(b), NEW s \in Signals, NEW now \in Nat, ~Known(b, s)
    PROVE  LET c == Record(Insert(b, s), s, now)
           IN /\ BookGood(c)
              /\ c.incident.status # "absent"
              /\ c.incident.revision = b.incident.revision + 1
<1> DEFINE i == Insert(b, s).incident
           c == Record(Insert(b, s), s, now)
<1>1. /\ i \in Row /\ i.status # "absent" /\ Insert(b, s).signals = b.signals
      /\ Insert(b, s).timeline = b.timeline /\ i.occurrences = b.incident.occurrences
      /\ i.revision = b.incident.revision
      /\ b.incident.status = "absent" => i.severity = s.severity
      /\ b.incident.status # "absent" => i = b.incident
  BY InsertGood
<1>2. /\ c.incident = Update(i, s) /\ c.signals = b.signals \cup {s}
      /\ c.timeline = IF TimelineAction(i, s) = "none" THEN b.timeline
                      ELSE Append(b.timeline, WorkerEntry(i, s, now))
      /\ c = [incident |-> c.incident, signals |-> c.signals, timeline |-> c.timeline]
  BY <1>1 DEF Record
<1> HIDE DEF i, c
<1>3. /\ c.incident \in Row /\ c.incident.status # "absent"
      /\ c.incident.severity = IF s.severity = "critical" THEN "critical" ELSE i.severity
      /\ c.incident.occurrences = i.occurrences + 1
      /\ c.incident.revision = i.revision + 1
  <2>1. LET u == Update(i, s)
        IN /\ u \in Row /\ u.status # "absent"
           /\ u.severity = IF s.severity = "critical" THEN "critical" ELSE i.severity
           /\ u.occurrences = i.occurrences + 1 /\ u.revision = i.revision + 1
    <3>1. i \in Row /\ i.status # "absent"
      BY <1>1
    <3> QED  BY <3>1, UpdateRow
  <2>2. c.incident = Update(i, s)
    BY <1>2
  <2> HIDE DEF i
  <2> QED  BY <2>1, <2>2
<1>4. b.signals \subseteq Signals /\ b.timeline \in Seq(Entry) /\ IsFiniteSet(b.signals)
  BY GoodRow DEF BookGood
<1>5. c.timeline \in Seq(Entry)
  BY <1>1, <1>2, <1>4, WorkerEntryType
<1>6. c \in Book
  BY <1>2, <1>3, <1>4, <1>5 DEF Book
<1>7. s \notin b.signals
  BY DEF Known
<1>8. IsFiniteSet(c.signals) /\ Cardinality(c.signals) = Cardinality(b.signals) + 1
  BY <1>2, <1>4, <1>7, FS_AddElement
<1>9. CountsEvidence(c)
  <2>1. c.incident.occurrences = Cardinality(c.signals)
    BY <1>1, <1>3, <1>8 DEF BookGood, CountsEvidence
  <2>2. \A t, u \in c.signals : t.id = u.id => t = u
    BY <1>2 DEF BookGood, CountsEvidence, Known
  <2> QED  BY <2>1, <2>2, <1>2, <1>3 DEF CountsEvidence
<1>10. ShowsSeverity(c)
  <2>1. CASE b.incident.status = "absent"
    <3>1. b.signals = {}
      BY <2>1 DEF BookGood, CountsEvidence
    <3> QED  BY <2>1, <3>1, <1>1, <1>2, <1>3 DEF ShowsSeverity
  <2>2. CASE b.incident.status # "absent"
    <3>1. i.severity = "critical" <=> \E t \in b.signals : t.severity = "critical"
      BY <2>2, <1>1 DEF BookGood, ShowsSeverity
    <3> QED  BY <3>1, <1>2, <1>3 DEF ShowsSeverity
  <2> QED  BY <2>1, <2>2
<1>11. BookGood(c)
  BY <1>3, <1>6, <1>8, <1>9, <1>10 DEF BookGood
<1> QED  BY <1>1, <1>3, <1>11 DEF c

-----------------------------------------------------------------------------
(* The books, the drafts and the screens, on either database.              *)

Present(k) == book[k].incident.status # "absent"

(* Every book, committed or not, is a good one; an incident never vanishes  *)
(* from a draft.                                                           *)
BooksGood == \A k \in Keys : BookGood(book[k])
DraftsGood ==
    \A w \in Workers : \A k \in DOMAIN draft[w] :
        /\ BookGood(draft[w][k])
        /\ Present(k) => draft[w][k].incident.status # "absent"

(* No two transactions of workers have locked the same book. *)
DraftsApart ==
    \A v, w \in Workers : v # w => DOMAIN draft[v] \cap DOMAIN draft[w] = {}

(* Operators act on incidents that exist, and the API reads for a request. *)
ScreensPresent ==
    \A o \in Operators :
        /\ \A k \in Keys : view[o][k] # Null => Present(k)
        /\ ask[o] # Null => Present(ask[o].key)
        /\ read[o] # Null => ask[o] # Null

(* The signal a worker is at. *)
LEMMA SignalType ==
    ASSUME TypeOK, NEW w \in Workers, Recording(w)
    PROVE  Signal(w) \in Signals /\ Signal(w).key \in Keys
<1>1. call[w] \in Seq(Signals)
  BY NullApart, ConstantsAssumption DEF TypeOK, Recording
<1>2. next[w] \in 1..Len(call[w])
  BY <1>1 DEF TypeOK, Recording
<1>3. call[w][next[w]] \in Signals
  BY <1>1, <1>2
<1> QED  BY <1>3, SignalsAssumption DEF Signal

(* The book of the signal, as the worker's transaction sees it. *)
Seen(w) == Visible(w, Signal(w).key)

(* What w has inserted is new: to what its transaction sees, to what others *)
(* have drafted, and no other worker has inserted it as well.              *)
Fresh(w) ==
    /\ Recording(w) /\ stamp[w] # Null
    /\ ~Known(Seen(w), Signal(w))
    /\ ~RowLocks => DOMAIN draft[w] = Keys
    /\ \A v \in Workers \ {w} :
          /\ held[v] # "nothing" => Signal(v).id # Signal(w).id
          /\ Signal(w).key \in DOMAIN draft[v] => ~Known(draft[v][Signal(w).key], Signal(w))

HeldFresh == \A w \in Workers : held[w] # "nothing" => Fresh(w)

LInv == TypeOK /\ BooksGood /\ DraftsGood /\ DraftsApart /\ ScreensPresent /\ HeldFresh

LEMMA InitLInv == Init => LInv
<1> SUFFICES ASSUME Init PROVE LInv
  OBVIOUS
<1> DEFINE b == [incident |-> NoIncident, signals |-> {}, timeline |-> <<>>]
<1>1. b \in Book
  BY NoIncidentType DEF Book
<1>2. IsFiniteSet(b.signals) /\ Cardinality(b.signals) = 0
  BY FS_EmptySet
<1>3. BookGood(b)
  BY <1>1, <1>2 DEF BookGood, CountsEvidence, ShowsSeverity, NoIncident
<1>4. \A k \in Keys : book[k] = b
  BY DEF Init
<1>5. book \in [Keys -> Book]
  BY <1>1 DEF Init
<1> HIDE DEF b
<1>6. \A w \in Workers : draft[w] = NoDraft /\ DOMAIN draft[w] = {}
  BY DEF Init, NoDraft
<1>7. TypeOK
  <2>1. \A w \in Workers : draft[w] \in [DOMAIN draft[w] -> Book]
    BY <1>6 DEF NoDraft
  <2>2. /\ clock \in Nat /\ call \in [Workers -> Calls \cup {Null}]
        /\ next \in [Workers -> Nat \ {0}] /\ stamp \in [Workers -> Nat \cup {Null}]
        /\ held \in [Workers -> {"nothing", "signal", "incident"}] /\ DOMAIN draft = Workers
    BY DEF Init
  <2>3. /\ view \in [Operators -> [Keys -> Row \cup {Null}]]
        /\ ask \in [Operators -> Ask \cup {Null}] /\ read \in [Operators -> Row \cup {Null}]
    BY DEF Init
  <2> QED  BY <1>5, <1>6, <2>1, <2>2, <2>3 DEF TypeOK
<1>8. BooksGood /\ DraftsGood /\ DraftsApart
  BY <1>3, <1>4, <1>6 DEF BooksGood, DraftsGood, DraftsApart
<1>9. ScreensPresent /\ HeldFresh
  BY DEF ScreensPresent, HeldFresh, Init
<1> QED  BY <1>7, <1>8, <1>9 DEF LInv

(* How what is held stays new. *)
LEMMA FreshStays ==
    ASSUME LInv, NEW w \in Workers, held[w] # "nothing",
           call'[w] = call[w], next'[w] = next[w], stamp'[w] = stamp[w], draft'[w] = draft[w],
           Signal(w).key \in DOMAIN draft[w] \/ ~Known(book'[Signal(w).key], Signal(w)),
           \A v \in Workers \ {w} :
              /\ held'[v] # "nothing" => Signal(v)'.id # Signal(w).id
              /\ Signal(w).key \in DOMAIN draft'[v] =>
                    ~Known(draft'[v][Signal(w).key], Signal(w))
    PROVE  Fresh(w)'
<1>1. Fresh(w)
  BY DEF LInv, HeldFresh
<1>2. Signal(w)' = Signal(w)
  BY DEF Signal
<1>3. Recording(w)' /\ stamp'[w] # Null
  BY <1>1 DEF Fresh, Recording
<1>4. ~Known(Seen(w)', Signal(w))
  <2>1. CASE Signal(w).key \in DOMAIN draft[w]
    <3>1. Seen(w)' = Seen(w)
      BY <1>2, <2>1 DEF Seen, Visible
    <3> QED  BY <1>1, <3>1 DEF Fresh
  <2>2. CASE Signal(w).key \notin DOMAIN draft[w]
    <3>1. Seen(w)' = book'[Signal(w).key]
      BY <1>2, <2>2 DEF Seen, Visible
    <3> QED  BY <2>2, <3>1
  <2> QED  BY <2>1, <2>2
<1>5. ~RowLocks => DOMAIN draft'[w] = Keys
  BY <1>1 DEF Fresh
<1> QED  BY <1>2, <1>3, <1>4, <1>5 DEF Fresh

(* What is known of a holder. *)
LEMMA HolderFacts ==
    ASSUME LInv, NEW w \in Workers, held[w] # "nothing"
    PROVE  /\ Recording(w) /\ call[w] # Null /\ stamp[w] # Null
           /\ Signal(w) \in Signals /\ Signal(w).key \in Keys
           /\ ~Known(Seen(w), Signal(w))
           /\ Signal(w).key \in DOMAIN draft[w] \/ ~Known(book[Signal(w).key], Signal(w))
           /\ ~RowLocks => DOMAIN draft[w] = Keys /\ DOMAIN draft[w] # {}
           /\ \A v \in Workers \ {w} :
                 /\ held[v] # "nothing" => Signal(v).id # Signal(w).id
                 /\ Signal(w).key \in DOMAIN draft[v] =>
                       ~Known(draft[v][Signal(w).key], Signal(w))
<1>1. Fresh(w)
  BY DEF LInv, HeldFresh
<1>2. Recording(w) /\ stamp[w] # Null /\ ~Known(Seen(w), Signal(w))
  BY <1>1 DEF Fresh
<1>3. Signal(w) \in Signals /\ Signal(w).key \in Keys
  BY <1>2, SignalType DEF LInv
<1>4. call[w] # Null
  BY <1>2 DEF Recording
<1>5. Signal(w).key \in DOMAIN draft[w] \/ ~Known(book[Signal(w).key], Signal(w))
  BY <1>2 DEF Seen, Visible
<1> QED  BY <1>1, <1>2, <1>3, <1>4, <1>5 DEF Fresh

(* Steps at which books, drafts, and who holds something stay as they are. *)
LEMMA HeldQuiet ==
    ASSUME LInv, book' = book, draft' = draft,
           \A w \in Workers :
              /\ held'[w] # "nothing" => held[w] # "nothing"
              /\ held[w] # "nothing" =>
                    call'[w] = call[w] /\ next'[w] = next[w] /\ stamp'[w] = stamp[w]
    PROVE  HeldFresh'
<1> SUFFICES ASSUME NEW w \in Workers, held'[w] # "nothing" PROVE Fresh(w)'
  BY DEF HeldFresh
<1>1. \A v \in Workers : held'[v] # "nothing" => Signal(v)' = Signal(v)
  BY DEF Signal
<1> QED  BY <1>1, HolderFacts, FreshStays

(* The first statement of an iteration, whatever comes of it, and what it   *)
(* locks.                                                                  *)
Locks == IF RowLocks THEN {} ELSE Keys

LEMMA LocksEffect ==
    ASSUME LInv, NEW w \in Workers, Skip(w) \/ InsertSignal(w)
    PROVE  /\ Recording(w) /\ stamp[w] # Null /\ held[w] = "nothing" /\ Free(w)
           /\ UNCHANGED <<clock, book, call, operator>>
           /\ DOMAIN draft' = Workers
           /\ \A v \in Workers \ {w} : draft'[v] = draft[v]
           /\ DOMAIN draft'[w] = DOMAIN draft[w] \cup Locks /\ Locks \subseteq Keys
           /\ draft'[w] = [k \in DOMAIN draft'[w] |-> draft'[w][k]]
           /\ \A k \in DOMAIN draft'[w] : draft'[w][k] = Visible(w, k)
           /\ \A k \in DOMAIN draft'[w] :
                 /\ BookGood(draft'[w][k])
                 /\ Present(k) => draft'[w][k].incident.status # "absent"
           /\ RowLocks => draft' = draft
           /\ \A v \in Workers \ {w} : DOMAIN draft[v] \cap Locks = {}
<1>1. /\ Recording(w) /\ stamp[w] # Null /\ held[w] = "nothing" /\ Free(w)
      /\ UNCHANGED <<clock, book, call, operator>>
      /\ LockDatabase(w)
  BY DEF Skip, InsertSignal
<1>2. DOMAIN draft = Workers /\ draft[w] \in [DOMAIN draft[w] -> Book]
      /\ DOMAIN draft[w] \subseteq Keys
  BY DEF LInv, TypeOK
<1>4. Locks \subseteq Keys
  BY DEF Locks
<1>5. /\ DOMAIN draft' = Workers
      /\ \A v \in Workers \ {w} : draft'[v] = draft[v]
      /\ DOMAIN draft'[w] = DOMAIN draft[w] \cup Locks
      /\ draft'[w] = [k \in DOMAIN draft'[w] |-> draft'[w][k]]
      /\ \A k \in DOMAIN draft'[w] : draft'[w][k] = Visible(w, k)
      /\ RowLocks => draft' = draft
  <2>1. CASE RowLocks
    BY <1>1, <1>2, <2>1 DEF LockDatabase, Locks, Visible
  <2>2. CASE ~RowLocks
    <3>1. /\ DOMAIN draft' = Workers /\ \A v \in Workers \ {w} : draft'[v] = draft[v]
          /\ draft'[w] = Locked(w, Keys)
      BY <1>1, <1>2, <2>2 DEF LockDatabase
    <3> QED  BY <2>2, <3>1 DEF Locked, Locks
  <2> QED  BY <2>1, <2>2
<1>6. ASSUME NEW k \in DOMAIN draft'[w]
      PROVE  /\ BookGood(draft'[w][k])
             /\ Present(k) => draft'[w][k].incident.status # "absent"
  <2>1. k \in Keys /\ draft'[w][k] = Visible(w, k)
    BY <1>2, <1>4, <1>5
  <2> QED  BY <2>1 DEF Visible, LInv, BooksGood, DraftsGood, Present
<1>8. \A v \in Workers \ {w} : DOMAIN draft[v] \cap Locks = {}
  BY <1>1 DEF Free, InTheWay, InTheWayOfInserts, Locks
<1> QED  BY <1>1, <1>4, <1>5, <1>6, <1>8

(* What File does to the drafts. *)
LEMMA FileEffect ==
    ASSUME LInv, NEW w \in Workers, File(w)
    PROVE  LET s == Signal(w)
           IN /\ s \in Signals /\ s.key \in Keys /\ stamp[w] \in Nat
              /\ BookGood(Seen(w)) /\ ~Known(Seen(w), s)
              /\ DOMAIN draft' = Workers
              /\ \A v \in Workers \ {w} : draft'[v] = draft[v]
              /\ DOMAIN draft'[w] = DOMAIN draft[w] \cup {s.key}
              /\ draft'[w][s.key] = Record(Insert(Seen(w), s), s, stamp[w])
              /\ \A k \in DOMAIN draft'[w] \ {s.key} :
                    draft'[w][k] = IF k \in DOMAIN draft[w] THEN draft[w][k] ELSE book[k]
              /\ \A v \in Workers \ {w} : s.key \notin DOMAIN draft[v]
              /\ draft'[w] = [k \in DOMAIN draft'[w] |-> draft'[w][k]]
<1> DEFINE s == Signal(w)
           seen == Locked(w, {s.key})
<1>1. s \in Signals /\ s.key \in Keys /\ ~Known(Seen(w), s) /\ stamp[w] # Null
  BY HolderFacts DEF File
<1>2. stamp[w] \in Nat
  BY <1>1 DEF LInv, TypeOK
<1>3. \A v \in Workers \ {w} : s.key \notin DOMAIN draft[v]
  BY DEF File, Free, InTheWay
<1>4. /\ DOMAIN seen = DOMAIN draft[w] \cup {s.key}
      /\ \A k \in DOMAIN seen :
            seen[k] = IF k \in DOMAIN draft[w] THEN draft[w][k] ELSE book[k]
  BY DEF Locked, Visible
<1>5. seen[s.key] = Seen(w)
  BY <1>4 DEF Seen, Visible
<1>6. BookGood(Seen(w))
  BY <1>1 DEF Seen, Visible, LInv, BooksGood, DraftsGood
<1>7. draft' = [draft EXCEPT ![w] =
                   [seen EXCEPT ![s.key] = Record(Insert(seen[s.key], s), s, stamp[w])]]
  BY DEF File
<1> HIDE DEF s, seen
<1>8. /\ draft'[w] = [seen EXCEPT ![s.key] = Record(Insert(seen[s.key], s), s, stamp[w])]
      /\ DOMAIN draft' = Workers
      /\ \A v \in Workers \ {w} : draft'[v] = draft[v]
  BY <1>7 DEF LInv, TypeOK
<1> QED  BY <1>1, <1>2, <1>3, <1>4, <1>5, <1>6, <1>8 DEF s

(* Every book a worker has drafted is a good one, after File as well. *)
LEMMA FileGood ==
    ASSUME LInv, NEW w \in Workers, File(w), NEW k \in DOMAIN draft'[w]
    PROVE  BookGood(draft'[w][k]) /\ (Present(k) => draft'[w][k].incident.status # "absent")
<1> DEFINE s == Signal(w)
<1>0. /\ s \in Signals /\ stamp[w] \in Nat /\ BookGood(Seen(w)) /\ ~Known(Seen(w), s)
      /\ draft'[w][s.key] = Record(Insert(Seen(w), s), s, stamp[w])
  BY FileEffect
<1>00. /\ DOMAIN draft'[w] \subseteq Keys
       /\ \A j \in DOMAIN draft'[w] \ {s.key} :
             draft'[w][j] = IF j \in DOMAIN draft[w] THEN draft[w][j] ELSE book[j]
  <2>1. /\ DOMAIN draft'[w] = DOMAIN draft[w] \cup {s.key} /\ s.key \in Keys
        /\ \A j \in DOMAIN draft'[w] \ {s.key} :
              draft'[w][j] = IF j \in DOMAIN draft[w] THEN draft[w][j] ELSE book[j]
    BY FileEffect
  <2>2. DOMAIN draft[w] \subseteq Keys
    BY DEF LInv, TypeOK
  <2> QED  BY <2>1, <2>2
<1> HIDE DEF s
<1>1. CASE k = s.key
  BY <1>0, <1>1, RecordGood
<1>2. CASE k # s.key
  <2>1. k \in Keys /\ draft'[w][k] = IF k \in DOMAIN draft[w] THEN draft[w][k] ELSE book[k]
    BY <1>2, <1>00
  <2>2. CASE k \in DOMAIN draft[w]
    BY <2>1, <2>2 DEF LInv, DraftsGood
  <2>3. CASE k \notin DOMAIN draft[w]
    BY <2>1, <2>3 DEF LInv, BooksGood, Present
  <2> QED  BY <2>2, <2>3
<1> QED  BY <1>1, <1>2

(* What an operator's decision does to the book. *)
LEMMA DecidedRow ==
    ASSUME NEW i \in Row, NEW o \in Operators, ask[o] \in Ask, read[o] \in Row
    PROVE  LET u == Decided(i, o)
           IN /\ u \in Row
              /\ u.status = ask[o].to
              /\ u.owner = IF read[o].owner = o THEN i.owner ELSE o
              /\ u.revision = read[o].revision + 1
              /\ u.severity = i.severity
              /\ u.occurrences = i.occurrences
              /\ u.acknowledged <=> i.acknowledged \/ ask[o].to = "acknowledged"
              /\ u.closed <=> i.closed \/ ask[o].to = "resolved"
<1> DEFINE owner == IF read[o].owner = o THEN i.owner ELSE o
           acknowledged == i.acknowledged \/ ask[o].to = "acknowledged"
           closed == i.closed \/ ask[o].to = "resolved"
           revision == read[o].revision + 1
           u == [i EXCEPT !.status = ask[o].to, !.owner = owner, !.acknowledged = acknowledged,
                          !.closed = closed, !.revision = revision]
<1>1. Decided(i, o) = u
  BY DEF Decided, Row
<1>2. ask[o].to \in Statuses /\ owner \in Operators \cup {Null} /\ revision \in Nat
  BY DEF Ask, Row, Statuses
<1>3. acknowledged \in BOOLEAN /\ closed \in BOOLEAN
  OBVIOUS
<1>4. u \in Row
  <2> HIDE DEF owner, acknowledged, closed, revision
  <2> QED  BY <1>2, <1>3 DEF Row
<1>5. /\ u.status = ask[o].to /\ u.owner = owner /\ u.revision = revision
      /\ u.severity = i.severity /\ u.occurrences = i.occurrences
      /\ u.acknowledged = acknowledged /\ u.closed = closed
  <2> HIDE DEF owner, acknowledged, closed, revision
  <2> QED  BY DEF Row
<1> HIDE DEF u
<1> QED  BY <1>1, <1>4, <1>5

LEMMA JudgedGood ==
    ASSUME NEW b, BookGood(b), b.incident.status # "absent",
           NEW o \in Operators, ask[o] \in Ask, read[o] \in Row
    PROVE  LET c == Judged(b, o)
           IN /\ BookGood(c)
              /\ c.incident = Decided(b.incident, o)
              /\ c.incident.status # "absent"
              /\ c.signals = b.signals
              /\ c.timeline = Append(b.timeline, OperatorEntry(o))
<1> DEFINE c == Judged(b, o)
<1>1. /\ b.incident \in Row /\ b.timeline \in Seq(Entry) /\ b \in Book
  BY GoodRow DEF BookGood
<1>2. OperatorEntry(o) \in Entry
  <2>1. ask[o].to \in {"acknowledged", "resolved"} /\ ask[o].at \in Nat /\ read[o].status \in Statuses
    BY DEF Ask, Row
  <2> QED  BY <2>1 DEF OperatorEntry, Entry, Actions, Statuses
<1>3. /\ c.incident = Decided(b.incident, o) /\ c.signals = b.signals
      /\ c.timeline = Append(b.timeline, OperatorEntry(o))
  BY <1>1 DEF Book, Judged
<1>4. Decided(b.incident, o) \in Row /\ Append(b.timeline, OperatorEntry(o)) \in Seq(Entry)
  BY <1>1, <1>2, DecidedRow
<1>5. c \in Book
  BY <1>1, <1>4 DEF Book, Judged
<1>6. /\ c.incident.status # "absent" /\ c.incident.severity = b.incident.severity
      /\ c.incident.occurrences = b.incident.occurrences
  BY <1>1, <1>3, DecidedRow DEF Ask
<1> HIDE DEF c
<1>7. BookGood(c)
  BY <1>3, <1>5, <1>6 DEF BookGood, CountsEvidence, ShowsSeverity
<1> QED  BY <1>3, <1>6, <1>7 DEF c

LEMMA DecideEffect ==
    ASSUME LInv, NEW o \in Operators, Decide(o)
    PROVE  LET k == ask[o].key
           IN /\ k \in Keys /\ ask[o] \in Ask /\ read[o] \in Row /\ Present(k)
              /\ book' \in [Keys -> Book]
              /\ book'[k] = Judged(book[k], o)
              /\ \A j \in Keys \ {k} : book'[j] = book[j]
              /\ \A w \in Workers : k \notin DOMAIN draft[w]
              /\ book'[k].incident \in Row
              /\ view' = [view EXCEPT ![o][k] = book'[k].incident]
<1> DEFINE k == ask[o].key
<1>1. read[o] \in Row /\ ask[o] \in Ask
  BY NullApart DEF LInv, TypeOK, ScreensPresent, Decide
<1>2. k \in Keys
  BY <1>1 DEF Ask
<1>3. Present(k)
  BY <1>1, NullApart DEF LInv, ScreensPresent
<1>4. book \in [Keys -> Book] /\ BookGood(book[k])
  BY <1>2 DEF LInv, TypeOK, BooksGood
<1>5. book[k].timeline = book[k].timeline /\ book[k] \in Book
  BY <1>2, <1>4
<1>6. book' = [book EXCEPT ![k] = Judged(book[k], o)]
  BY DEF Decide
<1>7. Judged(book[k], o) \in Book /\ Judged(book[k], o).incident = Decided(book[k].incident, o)
      /\ Judged(book[k], o).incident \in Row
  BY <1>1, <1>3, <1>4, JudgedGood, GoodRow DEF BookGood, Present
<1>8. /\ \A w \in Workers : k \notin DOMAIN draft[w]
      /\ view' = [view EXCEPT ![o][k] = Judged(book[k], o).incident]
  BY DEF Decide
<1> HIDE DEF k
<1>9. /\ book' \in [Keys -> Book] /\ book'[k] = Judged(book[k], o)
      /\ \A j \in Keys \ {k} : book'[j] = book[j]
  BY <1>2, <1>4, <1>6, <1>7
<1> QED  BY <1>1, <1>2, <1>3, <1>7, <1>8, <1>9 DEF k

-----------------------------------------------------------------------------
(* LInv is inductive: one lemma per way of changing books and drafts.      *)

(* Steps that change neither, beyond what their UNCHANGED says. *)
LEMMA QuietStep ==
    ASSUME LInv, book' = book, draft' = draft, ScreensPresent', HeldFresh',
           clock' \in Nat,
           call' \in [Workers -> Calls \cup {Null}],
           next' \in [Workers -> Nat \ {0}],
           stamp' \in [Workers -> Nat \cup {Null}],
           held' \in [Workers -> {"nothing", "signal", "incident"}],
           view' \in [Operators -> [Keys -> Row \cup {Null}]],
           ask' \in [Operators -> Ask \cup {Null}],
           read' \in [Operators -> Row \cup {Null}]
    PROVE  LInv'
BY DEF LInv, TypeOK, BooksGood, DraftsGood, DraftsApart, Present

LEMMA WorkerQuiet ==
    ASSUME LInv, NEW w \in Workers,
           \/ \E c \in Calls : Begin(w, c)
           \/ Stamp(w) \/ ShareIncident(w)
    PROVE  LInv'
<1>0. clock \in Nat /\ stamp \in [Workers -> Nat \cup {Null}]
      /\ held \in [Workers -> {"nothing", "signal", "incident"}]
  BY DEF LInv, TypeOK
<1>1. /\ book' = book /\ draft' = draft /\ clock' \in Nat /\ view' = view /\ ask' = ask
      /\ read' = read
      /\ call' \in [Workers -> Calls \cup {Null}] /\ next' = next
      /\ stamp' \in [Workers -> Nat \cup {Null}]
      /\ held' \in [Workers -> {"nothing", "signal", "incident"}]
  <2>1. CASE \E c \in Calls : Begin(w, c)
    BY <2>1 DEF Begin, LInv, TypeOK, operator
  <2>2. CASE Stamp(w)
    <3>1. PICK now \in Readings : stamp' = [stamp EXCEPT ![w] = now]
      BY <2>2 DEF Stamp
    <3>2. now \in Nat
      BY <1>0 DEF Readings
    <3> QED  BY <2>2, <1>0, <3>1, <3>2 DEF Stamp, LInv, TypeOK, operator
  <2>3. CASE ShareIncident(w)
    BY <2>3 DEF ShareIncident, LInv, TypeOK, operator
  <2> QED  BY <2>1, <2>2, <2>3
<1>2. ScreensPresent'
  BY <1>1 DEF LInv, ScreensPresent, Present
<1>3. HeldFresh'
  <2>1. CASE \E c \in Calls : Begin(w, c)
    <3>1. held[w] = "nothing"
      BY <2>1, HolderFacts DEF Begin
    <3>2. /\ held' = held /\ stamp' = stamp
          /\ \A v \in Workers \ {w} : call'[v] = call[v]
      BY <2>1 DEF Begin, LInv, TypeOK
    <3> QED  BY <1>1, <3>1, <3>2, HeldQuiet
  <2>2. CASE Stamp(w)
    <3>1. held[w] = "nothing"
      BY <2>2, HolderFacts DEF Stamp
    <3>2. /\ held' = held /\ call' = call
          /\ \A v \in Workers \ {w} : stamp'[v] = stamp[v]
      BY <1>0, <2>2 DEF Stamp
    <3> QED  BY <1>1, <3>1, <3>2, HeldQuiet
  <2>3. CASE ShareIncident(w)
    <3>1. /\ stamp' = stamp /\ call' = call /\ held[w] = "signal"
          /\ \A v \in Workers \ {w} : held'[v] = held[v]
      BY <1>0, <2>3 DEF ShareIncident
    <3> QED  BY <1>1, <3>1, HeldQuiet
  <2> QED  BY <2>1, <2>2, <2>3
<1> QED  BY <1>1, <1>2, <1>3, QuietStep DEF LInv, TypeOK

LEMMA OperatorQuiet ==
    ASSUME LInv, NEW o \in Operators,
           \/ Refresh(o) \/ Accept(o) \/ Refuse(o) \/ Drop(o)
           \/ \E k \in Keys, to \in {"acknowledged", "resolved"} : Request(o, k, to)
    PROVE  LInv'
<1>1. /\ book' = book /\ draft' = draft /\ call' = call /\ next' = next /\ stamp' = stamp
      /\ held' = held
  BY DEF Refresh, Accept, Refuse, Drop, Request, worker
<1>0. HeldFresh'
  BY <1>1, HeldQuiet
<1>2. CASE Refresh(o)
  <2>1. view' \in [Operators -> [Keys -> Row \cup {Null}]]
    BY <1>2, GoodRow DEF Refresh, LInv, TypeOK, BooksGood
  <2>2. ScreensPresent'
    BY <1>2, <1>1 DEF Refresh, LInv, TypeOK, ScreensPresent, Present
  <2> QED  BY <1>0, <1>1, <1>2, <2>1, <2>2, QuietStep DEF LInv, TypeOK, Refresh
<1>3. CASE Accept(o)
  <2>1. ask[o] \in Ask /\ ask[o].key \in Keys
    BY <1>3 DEF Accept, Pending, LInv, TypeOK, Ask
  <2>2. read' \in [Operators -> Row \cup {Null}]
    BY <1>3, <2>1, GoodRow DEF Accept, LInv, TypeOK, BooksGood
  <2>3. ScreensPresent'
    BY <1>3, <1>1 DEF Accept, Pending, LInv, TypeOK, ScreensPresent, Present
  <2> QED  BY <1>0, <1>1, <1>3, <2>2, <2>3, QuietStep DEF LInv, TypeOK, Accept
<1>4. CASE Refuse(o)
  <2>1. ask' \in [Operators -> Ask \cup {Null}]
    BY <1>4 DEF Refuse, LInv, TypeOK
  <2>2. ScreensPresent'
    BY <1>4, <1>1 DEF Refuse, Pending, LInv, TypeOK, ScreensPresent, Present
  <2> QED  BY <1>0, <1>1, <1>4, <2>1, <2>2, QuietStep DEF LInv, TypeOK, Refuse
<1>5. CASE Drop(o)
  <2>1. ask' \in [Operators -> Ask \cup {Null}] /\ read' \in [Operators -> Row \cup {Null}]
    BY <1>5 DEF Drop, LInv, TypeOK
  <2>2. ScreensPresent'
    BY <1>5, <1>1 DEF Drop, LInv, TypeOK, ScreensPresent, Present
  <2> QED  BY <1>0, <1>1, <1>5, <2>1, <2>2, QuietStep DEF LInv, TypeOK, Drop
<1>6. ASSUME NEW k \in Keys, NEW to \in {"acknowledged", "resolved"}, Request(o, k, to)
      PROVE  LInv'
  <2>0. PICK now \in Readings :
           ask' = [ask EXCEPT ![o] = [key |-> k, to |-> to, seen |-> view[o][k], at |-> now]]
    BY <1>6 DEF Request
  <2>00. now \in Nat
    BY DEF Readings, LInv, TypeOK
  <2> DEFINE a == [key |-> k, to |-> to, seen |-> view[o][k], at |-> now]
  <2>1. a \in Ask /\ clock' \in Nat
    BY <1>6, <2>00 DEF Request, LInv, TypeOK, Ask
  <2>2. ask' = [ask EXCEPT ![o] = a] /\ a.key = k
    BY <2>0
  <2> HIDE DEF a
  <2>3. ask' \in [Operators -> Ask \cup {Null}]
    BY <2>1, <2>2 DEF LInv, TypeOK
  <2>4. Present(k)
    BY <1>6 DEF Request, LInv, ScreensPresent
  <2>5. ScreensPresent'
    BY <1>6, <1>1, <2>1, <2>2, <2>4, NullApart
    DEF Request, LInv, TypeOK, ScreensPresent, Present
  <2> QED  BY <1>0, <1>1, <1>6, <2>1, <2>3, <2>5, QuietStep DEF LInv, TypeOK, Request
<1> QED  BY <1>2, <1>3, <1>4, <1>5, <1>6

LEMMA AdvanceType ==
    ASSUME TypeOK, NEW w \in Workers, Advance(w)
    PROVE  /\ next' \in [Workers -> Nat \ {0}]
           /\ stamp' \in [Workers -> Nat \cup {Null}]
           /\ held' \in [Workers -> {"nothing", "signal", "incident"}]
           /\ held'[w] = "nothing"
           /\ \A v \in Workers \ {w} :
                 held'[v] = held[v] /\ next'[v] = next[v] /\ stamp'[v] = stamp[v]
BY DEF Advance, TypeOK

(* File, and the lock that comes with a write on SQLite: w's draft grows,   *)
(* the new part of it was free.                                            *)
LEMMA GrowStep ==
    ASSUME LInv, NEW w \in Workers, NEW ks \in SUBSET Keys,
           UNCHANGED <<clock, book, call, operator>>,
           next' \in [Workers -> Nat \ {0}],
           stamp' \in [Workers -> Nat \cup {Null}],
           held' \in [Workers -> {"nothing", "signal", "incident"}],
           HeldFresh',
           DOMAIN draft' = Workers, \A v \in Workers \ {w} : draft'[v] = draft[v],
           DOMAIN draft'[w] = DOMAIN draft[w] \cup ks,
           draft'[w] = [k \in DOMAIN draft'[w] |-> draft'[w][k]],
           \A v \in Workers \ {w} : DOMAIN draft[v] \cap ks = {},
           \A k \in DOMAIN draft'[w] :
              /\ BookGood(draft'[w][k])
              /\ Present(k) => draft'[w][k].incident.status # "absent"
    PROVE  LInv'
<1>1. DOMAIN draft'[w] \subseteq Keys
  BY DEF LInv, TypeOK
<1>2. draft'[w] \in [DOMAIN draft'[w] -> Book]
  BY DEF BookGood
<1>3. \A v \in Workers : DOMAIN draft'[v] \subseteq Keys /\ draft'[v] \in [DOMAIN draft'[v] -> Book]
  BY <1>1, <1>2 DEF LInv, TypeOK
<1>4. TypeOK'
  BY <1>3 DEF LInv, TypeOK, operator
<1>5. DraftsApart'
  BY DEF LInv, DraftsApart
<1>6. BooksGood' /\ ScreensPresent'
  BY DEF LInv, BooksGood, ScreensPresent, Present, operator
<1>7. DraftsGood'
  BY DEF LInv, DraftsGood, Present
<1> QED  BY <1>4, <1>5, <1>6, <1>7 DEF LInv

LEMMA FileStep ==
    ASSUME LInv, NEW w \in Workers, File(w)
    PROVE  LInv'
<1> DEFINE s == Signal(w)
           c == Record(Insert(Seen(w), s), s, stamp[w])
<1>1. /\ s \in Signals /\ s.key \in Keys /\ DOMAIN draft' = Workers /\ BookGood(Seen(w))
      /\ \A v \in Workers \ {w} : draft'[v] = draft[v]
      /\ DOMAIN draft'[w] = DOMAIN draft[w] \cup {s.key}
      /\ draft'[w] = [k \in DOMAIN draft'[w] |-> draft'[w][k]]
      /\ \A v \in Workers \ {w} : s.key \notin DOMAIN draft[v]
      /\ draft'[w][s.key] = c
      /\ \A k \in DOMAIN draft'[w] \ {s.key} :
            draft'[w][k] = IF k \in DOMAIN draft[w] THEN draft[w][k] ELSE book[k]
  BY FileEffect
<1>2. UNCHANGED <<clock, book, call, operator>> /\ Advance(w) /\ held[w] = "incident"
  BY DEF File
<1>3. c.signals = Seen(w).signals \cup {s}
  BY <1>1, InsertGood DEF Record
<1> HIDE DEF s, c
<1>4. /\ next' \in [Workers -> Nat \ {0}] /\ stamp' \in [Workers -> Nat \cup {Null}]
      /\ held' \in [Workers -> {"nothing", "signal", "incident"}]
      /\ held'[w] = "nothing"
      /\ \A v \in Workers \ {w} :
            held'[v] = held[v] /\ next'[v] = next[v] /\ stamp'[v] = stamp[v]
  BY <1>2, AdvanceType DEF LInv
<1>5. ASSUME NEW v \in Workers, held'[v] # "nothing"
      PROVE  Fresh(v)'
  <2>1. v # w /\ held[v] # "nothing"
    BY <1>4, <1>5
  <2> DEFINE x == Signal(v)
  <2>2. /\ x.key \in DOMAIN draft[v] \/ ~Known(book[x.key], x)
        /\ s.id # x.id
        /\ \A u \in Workers \ {v} :
              /\ held[u] # "nothing" => Signal(u).id # x.id
              /\ x.key \in DOMAIN draft[u] => ~Known(draft[u][x.key], x)
    BY <1>2, <2>1, HolderFacts DEF s
  <2>3. \A u \in Workers \ {v} : held'[u] # "nothing" => Signal(u)' = Signal(u) /\ held[u] # "nothing"
    BY <1>2, <1>4 DEF Signal
  <2> HIDE DEF x
  <2>4. x.key \in DOMAIN draft'[w] => ~Known(draft'[w][x.key], x)
    <3>1. CASE x.key = s.key
      <4>1. ~Known(Seen(w), x)
        BY <1>1, <2>1, <2>2, <3>1 DEF Seen, Visible, s
      <4> QED  BY <1>1, <1>3, <2>2, <3>1, <4>1 DEF Known
    <3>2. CASE x.key # s.key
      BY <1>1, <2>1, <2>2, <3>2
    <3> QED  BY <3>1, <3>2
  <2>5. \A u \in Workers \ {v} : x.key \in DOMAIN draft'[u] => ~Known(draft'[u][x.key], x)
    BY <1>1, <2>2, <2>4
  <2> QED  BY <1>1, <1>2, <1>4, <2>1, <2>2, <2>3, <2>5, FreshStays DEF x
<1>6. HeldFresh'
  BY <1>5 DEF HeldFresh
<1>7. \A k \in DOMAIN draft'[w] :
         /\ BookGood(draft'[w][k])
         /\ Present(k) => draft'[w][k].incident.status # "absent"
  BY FileGood
<1> DEFINE ks == {s.key}
<1>8. /\ ks \in SUBSET Keys /\ DOMAIN draft'[w] = DOMAIN draft[w] \cup ks
      /\ \A v \in Workers \ {w} : DOMAIN draft[v] \cap ks = {}
  BY <1>1
<1> HIDE DEF ks
<1> QED  BY <1>1, <1>2, <1>4, <1>6, <1>7, <1>8, GrowStep

LEMMA SkipStep ==
    ASSUME LInv, NEW w \in Workers, Skip(w)
    PROVE  LInv'
<1>1. /\ UNCHANGED <<clock, book, call, operator>> /\ Free(w) /\ held[w] = "nothing"
      /\ Locks \subseteq Keys /\ DOMAIN draft' = Workers
      /\ \A v \in Workers \ {w} : draft'[v] = draft[v]
      /\ DOMAIN draft'[w] = DOMAIN draft[w] \cup Locks
      /\ draft'[w] = [k \in DOMAIN draft'[w] |-> draft'[w][k]]
      /\ \A v \in Workers \ {w} : DOMAIN draft[v] \cap Locks = {}
      /\ \A k \in DOMAIN draft'[w] :
            /\ BookGood(draft'[w][k])
            /\ Present(k) => draft'[w][k].incident.status # "absent"
      /\ RowLocks => draft' = draft
  BY LocksEffect
<1>2. /\ next' \in [Workers -> Nat \ {0}] /\ stamp' \in [Workers -> Nat \cup {Null}]
      /\ held' \in [Workers -> {"nothing", "signal", "incident"}]
      /\ held'[w] = "nothing"
      /\ \A v \in Workers \ {w} :
            held'[v] = held[v] /\ next'[v] = next[v] /\ stamp'[v] = stamp[v]
  BY AdvanceType DEF Skip, LInv
<1>3. HeldFresh'
  <2>1. CASE RowLocks
    BY <1>1, <1>2, <2>1, HeldQuiet
  <2>2. CASE ~RowLocks
    <3>1. \A v \in Workers \ {w} : held[v] = "nothing"
      BY <1>1, <2>2, HolderFacts DEF Free, InTheWay, InTheWayOfInserts
    <3> QED  BY <1>2, <3>1 DEF HeldFresh
  <2> QED  BY <2>1, <2>2
<1> QED  BY <1>1, <1>2, <1>3, GrowStep

LEMMA InsertStep ==
    ASSUME LInv, NEW w \in Workers, InsertSignal(w)
    PROVE  LInv'
<1>1. /\ UNCHANGED <<clock, book, call, operator>> /\ Free(w) /\ held[w] = "nothing"
      /\ Recording(w) /\ stamp[w] # Null
      /\ Locks \subseteq Keys /\ DOMAIN draft' = Workers
      /\ \A v \in Workers \ {w} : draft'[v] = draft[v]
      /\ DOMAIN draft'[w] = DOMAIN draft[w] \cup Locks
      /\ draft'[w] = [k \in DOMAIN draft'[w] |-> draft'[w][k]]
      /\ \A k \in DOMAIN draft'[w] : draft'[w][k] = Visible(w, k)
      /\ \A v \in Workers \ {w} : DOMAIN draft[v] \cap Locks = {}
      /\ \A k \in DOMAIN draft'[w] :
            /\ BookGood(draft'[w][k])
            /\ Present(k) => draft'[w][k].incident.status # "absent"
      /\ RowLocks => draft' = draft
  BY LocksEffect
<1>2. /\ next' = next /\ stamp' = stamp /\ held' = [held EXCEPT ![w] = "signal"]
      /\ ~Known(Seen(w), Signal(w))
  BY DEF InsertSignal, Seen
<1>3. /\ held' \in [Workers -> {"nothing", "signal", "incident"}]
      /\ \A v \in Workers \ {w} : held'[v] = held[v]
  BY <1>2 DEF LInv, TypeOK
<1>4. \A v \in Workers : Signal(v)' = Signal(v)
  BY <1>1, <1>2 DEF Signal
<1>5. ASSUME NEW v \in Workers \ {w}
      PROVE  /\ held[v] # "nothing" => RowLocks /\ Signal(v).id # Signal(w).id
             /\ Signal(w).key \notin DOMAIN draft[v]
  <2>1. ~InTheWayOfInserts(v, w)
    BY <1>1 DEF Free, InTheWay
  <2>2. CASE RowLocks
    BY <1>1, <2>1, <2>2 DEF InTheWayOfInserts, Wrote
  <2>3. CASE ~RowLocks
    BY <1>1, <2>1, <2>3, HolderFacts DEF InTheWayOfInserts
  <2> QED  BY <2>2, <2>3
<1>6. Fresh(w)'
  <2>1. Recording(w)' /\ stamp'[w] # Null
    BY <1>1, <1>2 DEF Recording
  <2>2. Seen(w)' = Seen(w)
    BY <1>1, <1>4 DEF Seen, Visible
  <2>3. ~RowLocks => DOMAIN draft'[w] = Keys
    BY <1>1 DEF Locks, LInv, TypeOK
  <2> QED  BY <1>1, <1>2, <1>3, <1>4, <1>5, <2>1, <2>2, <2>3 DEF Fresh
<1>7. ASSUME NEW v \in Workers \ {w}, held[v] # "nothing"
      PROVE  Fresh(v)'
  <2>1. draft' = draft /\ book' = book /\ call' = call
    BY <1>1, <1>5, <1>7
  <2>2. /\ Signal(v).key \in DOMAIN draft[v] \/ ~Known(book[Signal(v).key], Signal(v))
        /\ \A u \in Workers \ {v} :
              /\ held[u] # "nothing" => Signal(u).id # Signal(v).id
              /\ Signal(v).key \in DOMAIN draft[u] =>
                    ~Known(draft[u][Signal(v).key], Signal(v))
    BY <1>7, HolderFacts
  <2>3. \A u \in Workers \ {v} : held'[u] # "nothing" => Signal(u)'.id # Signal(v).id
    BY <1>3, <1>4, <1>5, <1>7, <2>2
  <2> QED  BY <1>2, <1>7, <2>1, <2>2, <2>3, FreshStays
<1>8. HeldFresh'
  BY <1>3, <1>6, <1>7 DEF HeldFresh
<1> QED  BY <1>1, <1>2, <1>3, <1>8, GrowStep DEF LInv, TypeOK

(* Commit and Abort: w's drafts replace the books, or are thrown away. *)
LEMMA HangupEffect ==
    ASSUME TypeOK, NEW w \in Workers, Hangup(w)
    PROVE  /\ DOMAIN draft' = Workers /\ draft'[w] = NoDraft /\ DOMAIN draft'[w] = {}
           /\ \A v \in Workers \ {w} : draft'[v] = draft[v]
           /\ draft'[w] \in [DOMAIN draft'[w] -> Book]
           /\ call' \in [Workers -> Calls \cup {Null}]
           /\ next' \in [Workers -> Nat \ {0}]
           /\ stamp' \in [Workers -> Nat \cup {Null}]
           /\ held' \in [Workers -> {"nothing", "signal", "incident"}]
           /\ held'[w] = "nothing"
           /\ \A v \in Workers \ {w} :
                 /\ held'[v] = held[v] /\ call'[v] = call[v]
                 /\ next'[v] = next[v] /\ stamp'[v] = stamp[v]
           /\ UNCHANGED <<clock, view, ask, read>>
<1>1. draft'[w] = NoDraft /\ DOMAIN draft' = Workers
      /\ \A v \in Workers \ {w} : draft'[v] = draft[v]
  BY DEF Hangup, TypeOK
<1>2. DOMAIN NoDraft = {} /\ NoDraft \in [{} -> Book]
  BY DEF NoDraft
<1> QED  BY <1>1, <1>2 DEF Hangup, TypeOK, operator

LEMMA CommitStep ==
    ASSUME LInv, NEW w \in Workers, Commit(w) \/ Abort(w)
    PROVE  LInv'
<1>1. Hangup(w)
  BY DEF Commit, Abort
<1>2. TypeOK
  BY DEF LInv
<1>3. /\ book' \in [Keys -> Book]
      /\ \/ \A k \in Keys : book'[k] = Visible(w, k)
         \/ book' = book
  BY DEF Commit, Abort, LInv, TypeOK, Visible
<1>4. TypeOK'
  BY <1>1, <1>2, <1>3, HangupEffect DEF TypeOK
<1>5. \A k \in Keys : BookGood(book'[k]) /\ (Present(k) => Present(k)')
  BY <1>3 DEF Visible, LInv, BooksGood, DraftsGood, Present
<1>6. BooksGood'
  BY <1>5 DEF BooksGood
<1>7. DraftsApart'
  BY <1>1, <1>2, HangupEffect DEF LInv, DraftsApart
<1>8. DraftsGood'
  <2>1. ASSUME NEW v \in Workers \ {w}, NEW k \in DOMAIN draft[v]
        PROVE  book'[k] = book[k]
    BY <1>3, <2>1 DEF Visible, LInv, TypeOK, DraftsApart
  <2> QED  BY <2>1, <1>1, <1>2, HangupEffect DEF LInv, DraftsGood, Present
<1>9. ScreensPresent'
  <2>1. \A o \in Operators : ask[o] # Null => ask[o].key \in Keys
    BY <1>2 DEF TypeOK, Ask
  <2> QED  BY <2>1, <1>1, <1>2, <1>5, HangupEffect DEF LInv, ScreensPresent
<1>10. ASSUME NEW v \in Workers, held'[v] # "nothing"
       PROVE  Fresh(v)'
  <2>1. /\ v # w /\ held[v] # "nothing" /\ draft'[v] = draft[v]
        /\ call'[v] = call[v] /\ next'[v] = next[v] /\ stamp'[v] = stamp[v]
        /\ DOMAIN draft'[w] = {}
        /\ \A u \in Workers \ {w} :
              draft'[u] = draft[u] /\ (held'[u] # "nothing" =>
                 held[u] # "nothing" /\ call'[u] = call[u] /\ next'[u] = next[u])
        /\ held'[w] = "nothing"
    BY <1>1, <1>2, <1>10, HangupEffect
  <2> DEFINE x == Signal(v)
  <2>2. /\ x.key \in Keys
        /\ x.key \in DOMAIN draft[v] \/ ~Known(book[x.key], x)
        /\ \A u \in Workers \ {v} :
              /\ held[u] # "nothing" => Signal(u).id # x.id
              /\ x.key \in DOMAIN draft[u] => ~Known(draft[u][x.key], x)
    BY <2>1, HolderFacts
  <2>3. \A u \in Workers \ {v} : held'[u] # "nothing" => Signal(u)'.id # x.id
    <3>1. \A u \in Workers \ {v} : held'[u] # "nothing" => Signal(u)' = Signal(u) /\ held[u] # "nothing"
      BY <2>1 DEF Signal
    <3> QED  BY <2>2, <3>1
  <2> HIDE DEF x
  <2>4. x.key \in DOMAIN draft[v] \/ ~Known(book'[x.key], x)
    BY <1>3, <2>1, <2>2 DEF Visible
  <2>5. \A u \in Workers \ {v} : x.key \in DOMAIN draft'[u] => ~Known(draft'[u][x.key], x)
    BY <2>1, <2>2
  <2> QED  BY <2>1, <2>3, <2>4, <2>5, FreshStays DEF x
<1>11. HeldFresh'
  BY <1>10 DEF HeldFresh
<1> QED  BY <1>4, <1>6, <1>7, <1>8, <1>9, <1>11 DEF LInv

LEMMA DecideStep ==
    ASSUME LInv, NEW o \in Operators, Decide(o)
    PROVE  LInv'
<1> DEFINE k == ask[o].key
<1>1. /\ k \in Keys /\ ask[o] \in Ask /\ read[o] \in Row /\ Present(k)
      /\ book' \in [Keys -> Book] /\ book'[k] = Judged(book[k], o)
      /\ \A j \in Keys \ {k} : book'[j] = book[j]
      /\ \A w \in Workers : k \notin DOMAIN draft[w]
      /\ book'[k].incident \in Row
      /\ view' = [view EXCEPT ![o][k] = book'[k].incident]
  BY DecideEffect
<1>2. /\ ask' = [ask EXCEPT ![o] = Null] /\ read' = [read EXCEPT ![o] = Null]
      /\ UNCHANGED <<clock, call, next, stamp, held, draft>>
  BY DEF Decide, worker
<1> HIDE DEF k
<1>3. TypeOK'
  <2>1. view' \in [Operators -> [Keys -> Row \cup {Null}]]
    BY <1>1 DEF LInv, TypeOK
  <2> QED  BY <2>1, <1>1, <1>2 DEF LInv, TypeOK
<1>4. BookGood(book'[k]) /\ book'[k].incident.status # "absent"
  BY <1>1, JudgedGood DEF LInv, BooksGood, Present
<1>04. book'[k].signals = book[k].signals
  BY <1>1, JudgedGood DEF LInv, BooksGood, Present
<1>5. BooksGood' /\ \A j \in Keys : Present(j) => Present(j)'
  BY <1>1, <1>4 DEF LInv, BooksGood, Present
<1>05. \A w \in Workers : \A j \in DOMAIN draft[w] : j \in Keys /\ j # k /\ book'[j] = book[j]
  BY <1>1 DEF LInv, TypeOK
<1>06. DraftsGood'
  BY <1>2, <1>05 DEF LInv, DraftsGood, Present
<1>6. DraftsGood' /\ DraftsApart'
  BY <1>06, <1>2 DEF LInv, DraftsApart
<1>7. ScreensPresent'
  <2>1. \A p \in Operators : ask[p] # Null => ask[p].key \in Keys
    BY DEF LInv, TypeOK, Ask
  <2>2. \A p \in Operators, j \in Keys : view'[p][j] # Null => view[p][j] # Null \/ j = k
    <3>1. view \in [Operators -> [Keys -> Row \cup {Null}]]
      BY DEF LInv, TypeOK
    <3> SUFFICES ASSUME NEW p \in Operators, NEW j \in Keys, j # k
                 PROVE  view'[p][j] = view[p][j]
      OBVIOUS
    <3>2. CASE p = o
      BY <1>1, <3>1, <3>2
    <3>3. CASE p # o
      BY <1>1, <3>1, <3>3
    <3> QED  BY <3>2, <3>3
  <2>3. \A j \in Keys : j = k => Present(j)'
    BY <1>4 DEF Present
  <2>4. ASSUME NEW p \in Operators
        PROVE  /\ ask'[p] # Null => ask'[p] = ask[p] /\ ask[p] # Null
               /\ read'[p] # Null => ask'[p] # Null
    <3>1. ask \in [Operators -> Ask \cup {Null}] /\ read \in [Operators -> Row \cup {Null}]
      BY DEF LInv, TypeOK
    <3>2. read[p] # Null => ask[p] # Null
      BY DEF LInv, ScreensPresent
    <3>3. CASE p = o
      BY <1>2, <3>1, <3>3
    <3>4. CASE p # o
      BY <1>2, <3>1, <3>2, <3>4
    <3> QED  BY <3>3, <3>4
  <2>5. ASSUME NEW p \in Operators, NEW j \in Keys, view'[p][j] # Null
        PROVE  Present(j)'
    BY <2>2, <2>3, <2>5, <1>5 DEF LInv, ScreensPresent
  <2>6. ASSUME NEW p \in Operators, ask'[p] # Null
        PROVE  Present(ask[p].key)' /\ ask'[p] = ask[p]
    BY <2>1, <2>4, <2>6, <1>5 DEF LInv, ScreensPresent
  <2> QED  BY <2>4, <2>5, <2>6 DEF ScreensPresent, Present
<1>8. ASSUME NEW v \in Workers, held[v] # "nothing"
      PROVE  Fresh(v)'
  <2>1. /\ Signal(v).key \in Keys
        /\ Signal(v).key \in DOMAIN draft[v] \/ ~Known(book[Signal(v).key], Signal(v))
        /\ \A u \in Workers \ {v} :
              /\ held[u] # "nothing" => Signal(u).id # Signal(v).id
              /\ Signal(v).key \in DOMAIN draft[u] =>
                    ~Known(draft[u][Signal(v).key], Signal(v))
    BY <1>8, HolderFacts
  <2>2. \A u \in Workers : Signal(u)' = Signal(u)
    BY <1>2 DEF Signal
  <2>3. book'[Signal(v).key].signals = book[Signal(v).key].signals
    BY <1>1, <1>04, <2>1
  <2>4. Signal(v).key \in DOMAIN draft[v] \/ ~Known(book'[Signal(v).key], Signal(v))
    BY <2>1, <2>3 DEF Known
  <2> QED  BY <1>2, <1>8, <2>1, <2>2, <2>4, FreshStays
<1>9. HeldFresh'
  BY <1>2, <1>8 DEF HeldFresh
<1> QED  BY <1>3, <1>5, <1>6, <1>7, <1>9 DEF LInv

LEMMA NextLInv == LInv /\ [Next]_vars => LInv'
<1> SUFFICES ASSUME LInv, [Next]_vars PROVE LInv'
  OBVIOUS
<1>1. CASE UNCHANGED vars
  <2>1. /\ book' = book /\ draft' = draft /\ clock' = clock /\ call' = call /\ next' = next
        /\ stamp' = stamp /\ held' = held /\ view' = view /\ ask' = ask /\ read' = read
    BY <1>1 DEF vars, worker, operator
  <2>2. ScreensPresent' /\ HeldFresh'
    BY <2>1, HeldQuiet DEF LInv, ScreensPresent, Present
  <2> QED  BY <2>1, <2>2, QuietStep DEF LInv, TypeOK
<1>2. ASSUME NEW w \in Workers,
             \/ \E c \in Calls : Begin(w, c)
             \/ Stamp(w) \/ ShareIncident(w)
      PROVE  LInv'
  BY <1>2, WorkerQuiet
<1>4. ASSUME NEW w \in Workers,
             Skip(w) \/ InsertSignal(w) \/ File(w) \/ Commit(w) \/ Abort(w)
      PROVE  LInv'
  BY <1>4, SkipStep, InsertStep, FileStep, CommitStep
<1>5. ASSUME NEW o \in Operators, Decide(o)
      PROVE  LInv'
  BY <1>5, DecideStep
<1>6. ASSUME NEW o \in Operators,
             \/ Refresh(o) \/ Accept(o) \/ Refuse(o) \/ Drop(o)
             \/ \E k \in Keys, to \in {"acknowledged", "resolved"} : Request(o, k, to)
      PROVE  LInv'
  BY <1>6, OperatorQuiet
<1> QED  BY <1>1, <1>2, <1>4, <1>5, <1>6 DEF Next

(* Every reachable state is as LInv says, on PostgreSQL and on SQLite. *)
THEOREM LedgerInvariance == Spec => []LInv
<1> QED  BY InitLInv, NextLInv, PTL DEF Spec

(* Type correctness. *)
THEOREM LedgerTypeCorrect == Spec => []TypeOK
<1>1. LInv => TypeOK
  BY DEF LInv
<1> QED  BY <1>1, LedgerInvariance, PTL

(* Deduplication: occurrence_count is the number of distinct signals on     *)
(* record, and an incident is critical exactly when critical evidence is,  *)
(* for every database, every interleaving and every redelivery.            *)
THEOREM EvidenceIsShown == Spec => []EvidenceShown
<1>1. LInv => EvidenceShown
  BY DEF LInv, BooksGood, BookGood, EvidenceShown, EvidenceCounted, SeverityEvidenced
<1> QED  BY <1>1, LedgerInvariance, PTL

-----------------------------------------------------------------------------
(* A call's signals are committed together, on either database.            *)

DraftsGrow ==
    \A w \in Workers : \A k \in DOMAIN draft[w] : book[k].signals \subseteq draft[w][k].signals

(* What a worker has been through is on record, as its transaction sees it. *)
BehindKnown(w) ==
    \A j \in DOMAIN call[w] :
        j < next[w] => Known(Visible(w, call[w][j].key), call[w][j])
Progress ==
    \A w \in Workers :
        /\ call[w] = Null => next[w] = 1
        /\ call[w] # Null => BehindKnown(w)

WInv == LInv /\ DraftsGrow /\ Progress

LEMMA InitWInv == Init => WInv
<1> SUFFICES ASSUME Init PROVE WInv
  OBVIOUS
<1>1. \A w \in Workers : DOMAIN draft[w] = {} /\ call[w] = Null /\ next[w] = 1
  BY DEF Init, NoDraft
<1> QED  BY <1>1, InitLInv DEF WInv, DraftsGrow, Progress

LEMMA CallSignal ==
    ASSUME TypeOK, NEW w \in Workers, call[w] # Null
    PROVE  /\ call[w] \in Seq(Signals) /\ Len(call[w]) \in Nat
           /\ DOMAIN call[w] = 1..Len(call[w])
           /\ \A j \in DOMAIN call[w] : call[w][j] \in Signals /\ call[w][j].key \in Keys
<1>1. call[w] \in Seq(Signals)
  BY NullApart, ConstantsAssumption DEF TypeOK
<1>2. DOMAIN call[w] = 1..Len(call[w]) /\ \A j \in DOMAIN call[w] : call[w][j] \in Signals
  BY <1>1
<1> QED  BY <1>1, <1>2, SignalsAssumption

(* A worker that does not move keeps what is behind it, if its view of the  *)
(* tables only grows.                                                      *)
LEMMA BehindStays ==
    ASSUME WInv, NEW w \in Workers, call'[w] = call[w], next'[w] = next[w],
           \A k \in Keys : Visible(w, k).signals \subseteq Visible(w, k)'.signals
    PROVE  /\ call'[w] = Null => next'[w] = 1
           /\ call'[w] # Null => BehindKnown(w)'
<1>1. CASE call[w] = Null
  BY <1>1 DEF WInv, Progress
<1>2. CASE call[w] # Null
  <2>1. \A j \in DOMAIN call[w] : call[w][j].key \in Keys
    BY <1>2, CallSignal DEF WInv, LInv
  <2>2. ASSUME NEW j \in DOMAIN call[w], j < next[w]
        PROVE  Known(Visible(w, call[w][j].key)', call[w][j])
    <3>1. Known(Visible(w, call[w][j].key), call[w][j])
      BY <1>2, <2>2 DEF WInv, Progress, BehindKnown
    <3> QED  BY <2>1, <3>1 DEF Known
  <2> QED  BY <1>2, <2>2 DEF BehindKnown
<1> QED  BY <1>1, <1>2

(* Steps that change no book and no draft, and no worker's place. *)
LEMMA QuietWhole ==
    ASSUME WInv, LInv', book' = book, draft' = draft, call' = call, next' = next
    PROVE  WInv'
<1>1. DraftsGrow'
  BY DEF WInv, DraftsGrow
<1>2. \A w \in Workers, k \in Keys : Visible(w, k)' = Visible(w, k)
  BY DEF Visible
<1>3. Progress'
  BY <1>2, BehindStays DEF Progress
<1> QED  BY <1>1, <1>3 DEF WInv

LEMMA BeginWhole ==
    ASSUME WInv, LInv', NEW w \in Workers, NEW c \in Calls, Begin(w, c)
    PROVE  WInv'
<1>1. /\ call[w] = Null /\ call' = [call EXCEPT ![w] = c]
      /\ book' = book /\ draft' = draft /\ next' = next
  BY DEF Begin
<1>2. DraftsGrow'
  BY <1>1 DEF WInv, DraftsGrow
<1>3. \A v \in Workers, k \in Keys : Visible(v, k)' = Visible(v, k)
  BY <1>1 DEF Visible
<1>4. ASSUME NEW v \in Workers
      PROVE  /\ call'[v] = Null => next'[v] = 1
             /\ call'[v] # Null => BehindKnown(v)'
  <2>1. CASE v = w
    <3>1. /\ next'[v] = 1 /\ call'[v] = c /\ call'[v] # Null
      BY <1>1, <2>1, NullApart DEF WInv, Progress, LInv, TypeOK
    <3>2. DOMAIN call'[v] = 1..Len(call'[v])
      <4>1. c \in Seq(Signals)
        BY ConstantsAssumption
      <4> QED  BY <3>1, <4>1
    <3>3. \A j \in DOMAIN call'[v] : ~(j < next'[v])
      BY <3>1, <3>2
    <3> QED  BY <3>1, <3>3 DEF BehindKnown
  <2>2. CASE v # w
    BY <1>1, <1>3, <2>2, BehindStays DEF WInv, LInv, TypeOK
  <2> QED  BY <2>1, <2>2
<1> QED  BY <1>2, <1>4 DEF WInv, Progress

(* What the transaction sees after a step. *)
VisibleNext(w, k) == IF k \in DOMAIN draft'[w] THEN draft'[w][k] ELSE book'[k]

(* The worker is through with one more signal: it is on record. *)
LEMMA AdvanceWhole ==
    ASSUME WInv, LInv', NEW w \in Workers, Recording(w), Advance(w),
           book' = book, call' = call, \A v \in Workers \ {w} : draft'[v] = draft[v],
           \A k \in Keys : Visible(w, k).signals \subseteq VisibleNext(w, k).signals,
           \A k \in DOMAIN draft'[w] : book[k].signals \subseteq draft'[w][k].signals,
           Known(VisibleNext(w, Signal(w).key), Signal(w))
    PROVE  WInv'
<1>1. DraftsGrow'
  BY DEF WInv, DraftsGrow
<1>2. next' = [next EXCEPT ![w] = next[w] + 1] /\ next[w] \in Nat \ {0}
  BY DEF Advance, WInv, LInv, TypeOK
<1>3. call[w] # Null
  BY DEF Recording
<1>4. BehindKnown(w)'
  <2>1. \A j \in DOMAIN call[w] : j \in Nat /\ call[w][j].key \in Keys
    BY <1>3, CallSignal DEF WInv, LInv
  <2>2. next'[w] = next[w] + 1
    BY <1>2 DEF WInv, LInv, TypeOK
  <2>3. ASSUME NEW j \in DOMAIN call[w], j < next'[w]
        PROVE  Known(VisibleNext(w, call[w][j].key), call[w][j])
    <3>1. CASE j < next[w]
      <4>1. Known(Visible(w, call[w][j].key), call[w][j])
        BY <1>3, <3>1 DEF WInv, Progress, BehindKnown
      <4> QED  BY <2>1, <4>1 DEF Known
    <3>2. CASE j = next[w]
      BY <3>2 DEF Signal
    <3> QED  BY <1>2, <2>1, <2>2, <2>3, <3>1, <3>2
  <2> QED  BY <2>3 DEF BehindKnown, Visible, VisibleNext
<1>5. ASSUME NEW v \in Workers \ {w}
      PROVE  /\ call'[v] = Null => next'[v] = 1
             /\ call'[v] # Null => BehindKnown(v)'
  <2>1. call'[v] = call[v] /\ next'[v] = next[v]
    BY <1>2 DEF WInv, LInv, TypeOK
  <2>2. \A k \in Keys : Visible(v, k)' = Visible(v, k)
    BY DEF Visible
  <2> QED  BY <2>1, <2>2, BehindStays
<1>6. Progress'
  BY <1>3, <1>4, <1>5 DEF Progress
<1> QED  BY <1>1, <1>6 DEF WInv

(* The first statement of an iteration leaves all there is to see as it is. *)
LEMMA LocksWhole ==
    ASSUME WInv, NEW w \in Workers, Skip(w) \/ InsertSignal(w)
    PROVE  /\ \A v \in Workers, k \in Keys : Visible(v, k)' = Visible(v, k)
           /\ \A k \in Keys : VisibleNext(w, k) = Visible(w, k)
           /\ \A k \in DOMAIN draft'[w] : book[k].signals \subseteq draft'[w][k].signals
<1>1. /\ book' = book /\ \A v \in Workers \ {w} : draft'[v] = draft[v]
      /\ DOMAIN draft'[w] = DOMAIN draft[w] \cup Locks /\ Locks \subseteq Keys
      /\ \A k \in DOMAIN draft'[w] : draft'[w][k] = Visible(w, k)
  BY LocksEffect DEF WInv
<1>2. \A k \in Keys : VisibleNext(w, k) = Visible(w, k)
  BY <1>1 DEF VisibleNext, Visible
<1>3. \A v \in Workers, k \in Keys : Visible(v, k)' = Visible(v, k)
  BY <1>1, <1>2 DEF VisibleNext, Visible
<1>4. \A k \in DOMAIN draft'[w] : book[k].signals \subseteq draft'[w][k].signals
  BY <1>1 DEF WInv, DraftsGrow, Visible
<1> QED  BY <1>2, <1>3, <1>4

LEMMA SkipWhole ==
    ASSUME WInv, LInv', NEW w \in Workers, Skip(w)
    PROVE  WInv'
<1>1. /\ Recording(w) /\ Advance(w) /\ book' = book /\ call' = call
      /\ Known(Visible(w, Signal(w).key), Signal(w))
  BY DEF Skip
<1>2. Signal(w).key \in Keys /\ \A v \in Workers \ {w} : draft'[v] = draft[v]
  BY <1>1, SignalType, LocksEffect DEF WInv, LInv
<1>3. /\ \A k \in Keys : VisibleNext(w, k) = Visible(w, k)
      /\ \A k \in DOMAIN draft'[w] : book[k].signals \subseteq draft'[w][k].signals
  BY LocksWhole
<1>4. Known(VisibleNext(w, Signal(w).key), Signal(w))
  BY <1>1, <1>2, <1>3
<1> QED  BY <1>1, <1>2, <1>3, <1>4, AdvanceWhole

LEMMA InsertWhole ==
    ASSUME WInv, LInv', NEW w \in Workers, InsertSignal(w)
    PROVE  WInv'
<1>1. /\ book' = book /\ call' = call /\ next' = next
      /\ \A v \in Workers \ {w} : draft'[v] = draft[v]
  BY LocksEffect DEF InsertSignal, WInv
<1>2. /\ \A v \in Workers, k \in Keys : Visible(v, k)' = Visible(v, k)
      /\ \A k \in DOMAIN draft'[w] : book[k].signals \subseteq draft'[w][k].signals
  BY LocksWhole
<1>3. DraftsGrow'
  BY <1>1, <1>2 DEF WInv, DraftsGrow
<1>4. Progress'
  BY <1>1, <1>2, BehindStays DEF Progress
<1> QED  BY <1>3, <1>4 DEF WInv

LEMMA FileWhole ==
    ASSUME WInv, LInv', NEW w \in Workers, File(w)
    PROVE  WInv'
<1> DEFINE s == Signal(w)
           c == Record(Insert(Seen(w), s), s, stamp[w])
<1>1. /\ s \in Signals /\ s.key \in Keys /\ BookGood(Seen(w))
      /\ \A v \in Workers \ {w} : draft'[v] = draft[v]
      /\ DOMAIN draft'[w] = DOMAIN draft[w] \cup {s.key}
      /\ draft'[w][s.key] = c
      /\ \A k \in DOMAIN draft'[w] \ {s.key} :
            draft'[w][k] = IF k \in DOMAIN draft[w] THEN draft[w][k] ELSE book[k]
  BY FileEffect DEF WInv
<1>2. Recording(w) /\ Advance(w) /\ book' = book /\ call' = call
  BY HolderFacts DEF File, WInv
<1>3. c.signals = Seen(w).signals \cup {s}
  BY <1>1, InsertGood DEF Record
<1>4. Seen(w) = Visible(w, s.key)
  BY DEF Seen
<1> HIDE DEF s, c
<1>5. s.key \in DOMAIN draft'[w] /\ DOMAIN draft[w] \subseteq DOMAIN draft'[w]
  BY <1>1
<1>6. \A k \in Keys : Visible(w, k).signals \subseteq VisibleNext(w, k).signals
  <2>1. ASSUME NEW k \in Keys, k = s.key
        PROVE  Visible(w, k).signals \subseteq VisibleNext(w, k).signals
    BY <1>1, <1>3, <1>4, <1>5, <2>1 DEF VisibleNext
  <2>2. ASSUME NEW k \in Keys, k # s.key
        PROVE  Visible(w, k) = VisibleNext(w, k)
    BY <1>1, <1>2, <1>5, <2>2 DEF Visible, VisibleNext
  <2> QED  BY <2>1, <2>2
<1>7. \A k \in DOMAIN draft'[w] : book[k].signals \subseteq draft'[w][k].signals
  <2>1. book[s.key].signals \subseteq c.signals
    BY <1>3, <1>4 DEF WInv, DraftsGrow, Visible
  <2>2. ASSUME NEW k \in DOMAIN draft'[w], k # s.key
        PROVE  book[k].signals \subseteq draft'[w][k].signals
    BY <1>1, <2>2 DEF WInv, DraftsGrow
  <2> QED  BY <1>1, <2>1, <2>2
<1>8. Known(VisibleNext(w, s.key), s)
  <2>1. VisibleNext(w, s.key) = c
    BY <1>1, <1>5 DEF VisibleNext
  <2> QED  BY <1>3, <2>1 DEF Known
<1> QED  BY <1>1, <1>2, <1>6, <1>7, <1>8, AdvanceWhole DEF s

(* The books have changed, and have grown; no draft of another worker has. *)
LEMMA CommitWhole ==
    ASSUME WInv, LInv', NEW w \in Workers, Commit(w) \/ Abort(w)
    PROVE  WInv'
<1>1. /\ DOMAIN draft'[w] = {} /\ \A v \in Workers \ {w} : draft'[v] = draft[v]
  BY HangupEffect DEF Commit, Abort, WInv, LInv
<1>2. \A k \in Keys : book'[k] = book[k] \/ (k \in DOMAIN draft[w] /\ book'[k] = draft[w][k])
  <2>1. CASE Commit(w)
    BY <2>1 DEF Commit
  <2>2. CASE Abort(w)
    BY <2>2 DEF Abort
  <2> QED  BY <2>1, <2>2
<1>3. \A k \in Keys : book[k].signals \subseteq book'[k].signals
  BY <1>2 DEF WInv, DraftsGrow
<1>4. \A v \in Workers \ {w} : \A k \in DOMAIN draft[v] : k \in Keys /\ book'[k] = book[k]
  BY <1>2 DEF WInv, LInv, TypeOK, DraftsApart
<1>5. DraftsGrow'
  BY <1>1, <1>4 DEF WInv, DraftsGrow
<1>6. /\ call' = [call EXCEPT ![w] = Null] /\ next' = [next EXCEPT ![w] = 1]
  BY DEF Commit, Abort, Hangup
<1>7. ASSUME NEW v \in Workers
      PROVE  /\ call'[v] = Null => next'[v] = 1
             /\ call'[v] # Null => BehindKnown(v)'
  <2>1. CASE v = w
    BY <1>6, <2>1 DEF WInv, LInv, TypeOK
  <2>2. CASE v # w
    <3>1. call'[v] = call[v] /\ next'[v] = next[v]
      BY <1>6, <2>2 DEF WInv, LInv, TypeOK
    <3>2. \A k \in Keys : Visible(v, k).signals \subseteq Visible(v, k)'.signals
      BY <1>1, <1>3, <2>2 DEF Visible
    <3> QED  BY <3>1, <3>2, BehindStays
  <2> QED  BY <2>1, <2>2
<1> QED  BY <1>5, <1>7 DEF WInv, Progress

LEMMA DecideWhole ==
    ASSUME WInv, LInv', NEW o \in Operators, Decide(o)
    PROVE  WInv'
<1> DEFINE k == ask[o].key
<1>1. /\ k \in Keys /\ ask[o] \in Ask /\ read[o] \in Row /\ Present(k)
      /\ book'[k] = Judged(book[k], o)
      /\ \A j \in Keys \ {k} : book'[j] = book[j]
  BY DecideEffect DEF WInv
<1>2. draft' = draft /\ call' = call /\ next' = next
  BY DEF Decide, worker
<1>3. Judged(book[k], o).signals = book[k].signals
  BY <1>1, JudgedGood DEF WInv, LInv, BooksGood, Present
<1> HIDE DEF k
<1>4. \A j \in Keys : book'[j].signals = book[j].signals
  BY <1>1, <1>3
<1>5. DraftsGrow'
  <2>1. \A w \in Workers : DOMAIN draft[w] \subseteq Keys
    BY DEF WInv, LInv, TypeOK
  <2> QED  BY <1>2, <1>4, <2>1 DEF WInv, DraftsGrow
<1>6. ASSUME NEW w \in Workers
      PROVE  /\ call'[w] = Null => next'[w] = 1
             /\ call'[w] # Null => BehindKnown(w)'
  <2>1. \A j \in Keys : Visible(w, j).signals \subseteq Visible(w, j)'.signals
    BY <1>2, <1>4 DEF Visible
  <2> QED  BY <1>2, <2>1, BehindStays
<1> QED  BY <1>5, <1>6 DEF WInv, Progress

LEMMA NextWInv == WInv /\ [Next]_vars => WInv'
<1> SUFFICES ASSUME WInv, [Next]_vars PROVE WInv'
  OBVIOUS
<1>1. LInv'
  BY NextLInv DEF WInv
<1>2. CASE UNCHANGED vars
  <2>1. book' = book /\ draft' = draft /\ call' = call /\ next' = next
    BY <1>2 DEF vars, worker
  <2> QED  BY <1>1, <2>1, QuietWhole
<1>3. ASSUME NEW w \in Workers, NEW c \in Calls, Begin(w, c)
      PROVE  WInv'
  BY <1>1, <1>3, BeginWhole
<1>4. ASSUME NEW w \in Workers, Stamp(w) \/ ShareIncident(w)
      PROVE  WInv'
  <2>1. book' = book /\ draft' = draft /\ call' = call /\ next' = next
    BY <1>4 DEF Stamp, ShareIncident
  <2> QED  BY <1>1, <2>1, QuietWhole
<1>5. ASSUME NEW w \in Workers,
             Skip(w) \/ InsertSignal(w) \/ File(w) \/ Commit(w) \/ Abort(w)
      PROVE  WInv'
  BY <1>1, <1>5, SkipWhole, InsertWhole, FileWhole, CommitWhole
<1>6. ASSUME NEW o \in Operators, Decide(o)
      PROVE  WInv'
  BY <1>1, <1>6, DecideWhole
<1>7. ASSUME NEW o \in Operators,
             \/ Refresh(o) \/ Accept(o) \/ Refuse(o) \/ Drop(o)
             \/ \E k \in Keys, to \in {"acknowledged", "resolved"} : Request(o, k, to)
      PROVE  WInv'
  <2>1. book' = book /\ draft' = draft /\ call' = call /\ next' = next
    BY <1>7 DEF Refresh, Accept, Refuse, Drop, Request, worker
  <2> QED  BY <1>1, <2>1, QuietWhole
<1> QED  BY <1>2, <1>3, <1>4, <1>5, <1>6, <1>7 DEF Next

(* Atomicity of record_incident_signals: when a worker has come to the end  *)
(* of its list, nothing on the list is missing from what it commits.        *)
THEOREM CallsAreWhole == Spec => []CallsCommittedWhole
<1>1. WInv => CallsCommittedWhole
  <2> SUFFICES ASSUME WInv, NEW w \in Workers, call[w] # Null, next[w] > Len(call[w]),
                      NEW j \in DOMAIN call[w]
               PROVE  Known(Visible(w, call[w][j].key), call[w][j])
    BY DEF CallsCommittedWhole
  <2>1. DOMAIN call[w] = 1..Len(call[w]) /\ Len(call[w]) \in Nat /\ next[w] \in Nat
    BY CallSignal DEF WInv, LInv, TypeOK
  <2>2. j < next[w]
    BY <2>1
  <2> QED  BY <2>2 DEF WInv, Progress, BehindKnown
<1> QED  BY <1>1, InitWInv, NextWInv, PTL DEF Spec

-----------------------------------------------------------------------------
(* The decisions of operators, on PostgreSQL (RowLocks).                   *)

(* One more entry in a timeline. *)

LEMMA AppendFacts ==
    ASSUME NEW t \in Seq(Entry), NEW e \in Entry
    PROVE  LET u == Append(t, e)
           IN /\ Len(t) \in Nat /\ DOMAIN t = 1..Len(t)
              /\ DOMAIN u = 1..(Len(t) + 1) /\ Len(u) = Len(t) + 1
              /\ \A j \in 1..Len(t) : u[j] = t[j]
              /\ u[Len(t) + 1] = e
              /\ u # <<>>
              /\ t = <<>> <=> Len(t) = 0
BY AppendProperties

LEMMA DecisionsFinite ==
    ASSUME NEW t \in Seq(Entry)
    PROVE  IsFiniteSet(Decisions(t)) /\ Cardinality(Decisions(t)) \in Nat
<1>1. Len(t) \in Nat /\ DOMAIN t = 1..Len(t)
  OBVIOUS
<1>2. IsFiniteSet(1..Len(t))
  BY <1>1, FS_Interval
<1>3. Decisions(t) \subseteq 1..Len(t)
  BY <1>1 DEF Decisions
<1>4. IsFiniteSet(Decisions(t))
  BY <1>2, <1>3, FS_Subset
<1> QED  BY <1>4, FS_CardinalityType

LEMMA AppendDecisions ==
    ASSUME NEW t \in Seq(Entry), NEW e \in Entry
    PROVE  Cardinality(Decisions(Append(t, e))) =
              Cardinality(Decisions(t)) + (IF e.actor = Null THEN 0 ELSE 1)
<1> DEFINE u == Append(t, e)
           n == Len(t) + 1
<1>1. /\ n \in Nat \ {0} /\ DOMAIN t = 1..(n - 1) /\ DOMAIN u = 1..n
      /\ \A j \in 1..(n - 1) : u[j] = t[j]
      /\ u[n] = e
  BY AppendFacts
<1>2. IsFiniteSet(Decisions(t)) /\ Cardinality(Decisions(t)) \in Nat
  BY DecisionsFinite
<1> HIDE DEF u, n
<1>3. n \notin Decisions(t)
  BY <1>1 DEF Decisions
<1>4. CASE e.actor = Null
  <2>1. Decisions(u) = Decisions(t)
    BY <1>1, <1>4 DEF Decisions
  <2> QED  BY <1>2, <1>4, <2>1 DEF u
<1>5. CASE e.actor # Null
  <2>1. Decisions(u) = Decisions(t) \cup {n}
    BY <1>1, <1>5 DEF Decisions
  <2>2. Cardinality(Decisions(u)) = Cardinality(Decisions(t)) + 1
    BY <1>2, <1>3, <2>1, FS_AddElement
  <2> QED  BY <1>5, <2>2 DEF u
<1> QED  BY <1>4, <1>5

LEMMA AppendChains ==
    ASSUME NEW b, NEW c, NEW e \in Entry, b.timeline \in Seq(Entry), Chains(b),
           c.timeline = Append(b.timeline, e),
           c.incident.status # "absent", e.to = c.incident.status,
           e.from = IF b.incident.status = "absent" THEN Null ELSE b.incident.status,
           e.action = "opened" <=> b.incident.status = "absent"
    PROVE  Chains(c)
<1> DEFINE t == b.timeline
           u == c.timeline
           n == Len(t)
<1>1. /\ n \in Nat /\ DOMAIN t = 1..n /\ DOMAIN u = 1..(n + 1) /\ Len(u) = n + 1
      /\ \A j \in 1..n : u[j] = t[j]
      /\ u[n + 1] = e /\ u # <<>>
      /\ t = <<>> <=> n = 0
  BY AppendFacts
<1>2. /\ t = <<>> <=> b.incident.status = "absent"
      /\ \A j \in DOMAIN t : /\ t[j].from = IF j = 1 THEN Null ELSE t[j - 1].to
                             /\ t[j].action = "opened" <=> j = 1
      /\ t # <<>> => t[n].to = b.incident.status
  BY DEF Chains
<1> HIDE DEF t, u, n
<1>3. ASSUME NEW j \in DOMAIN u
      PROVE  /\ u[j].from = IF j = 1 THEN Null ELSE u[j - 1].to
             /\ u[j].action = "opened" <=> j = 1
  <2>1. CASE j \in 1..n
    <3>1. u[j] = t[j] /\ j \in DOMAIN t
      BY <1>1, <2>1
    <3>2. j # 1 => u[j - 1] = t[j - 1]
      BY <1>1, <2>1
    <3> QED  BY <1>2, <3>1, <3>2
  <2>2. CASE j = n + 1
    <3>1. u[j] = e
      BY <1>1, <2>2
    <3>2. j = 1 <=> b.incident.status = "absent"
      BY <1>1, <1>2, <2>2
    <3>3. j # 1 => u[j - 1] = t[n] /\ t # <<>>
      BY <1>1, <2>2
    <3> QED  BY <1>2, <3>1, <3>2, <3>3
  <2> QED  BY <1>1, <2>1, <2>2
<1>4. u[Len(u)].to = c.incident.status
  BY <1>1
<1> QED  BY <1>1, <1>3, <1>4 DEF Chains, u

LEMMA AppendOwner ==
    ASSUME NEW b, NEW c, NEW e \in Entry, b.timeline \in Seq(Entry), NamesOwner(b),
           c.timeline = Append(b.timeline, e),
           c.incident.owner = IF e.action = "escalated" THEN b.incident.owner ELSE e.actor,
           c.incident.closed <=> c.incident.status = "resolved",
           c.incident.acknowledged => c.incident.status \in {"acknowledged", "resolved"},
           c.incident.status = "acknowledged" => c.incident.acknowledged
    PROVE  NamesOwner(c)
<1> DEFINE t == b.timeline
           u == c.timeline
           n == Len(t)
<1>1. /\ n \in Nat /\ DOMAIN t = 1..n /\ DOMAIN u = 1..(n + 1)
      /\ \A j \in 1..n : u[j] = t[j]
      /\ u[n + 1] = e
  BY AppendFacts
<1>2. \A j \in DOMAIN t :
         (\A m \in DOMAIN t : m > j => t[m].action = "escalated") /\ t[j].action # "escalated"
            => b.incident.owner = t[j].actor
  BY DEF NamesOwner
<1> HIDE DEF t, u, n
<1>3. ASSUME NEW j \in DOMAIN u,
             \A m \in DOMAIN u : m > j => u[m].action = "escalated", u[j].action # "escalated"
      PROVE  c.incident.owner = u[j].actor
  <2>1. CASE j = n + 1
    BY <1>1, <1>3, <2>1
  <2>2. CASE j \in 1..n
    <3>1. e.action = "escalated"
      BY <1>1, <1>3, <2>2
    <3>2. \A m \in DOMAIN t : m > j => t[m].action = "escalated"
      BY <1>1, <1>3
    <3> QED  BY <1>1, <1>2, <1>3, <2>2, <3>1, <3>2
  <2> QED  BY <1>1, <2>1, <2>2
<1> QED  BY <1>3 DEF NamesOwner, u

(* Decisions come after what was there, as far as the clocks tell, in one   *)
(* book.                                                                   *)
StampedLast(b) ==
    LET t == b.timeline
    IN \A n \in Decisions(t) : \A j \in DOMAIN t : j < n => t[j].at <= t[n].at + ClockLag

LEMMA AppendStamped ==
    ASSUME NEW b, NEW c, NEW e \in Entry, b.timeline \in Seq(Entry), StampedLast(b),
           c.timeline = Append(b.timeline, e),
           e.actor = Null \/ \A j \in DOMAIN b.timeline : b.timeline[j].at <= e.at + ClockLag
    PROVE  StampedLast(c)
<1> DEFINE t == b.timeline
           u == c.timeline
           n == Len(t)
<1>1. /\ n \in Nat /\ DOMAIN t = 1..n /\ DOMAIN u = 1..(n + 1)
      /\ \A j \in 1..n : u[j] = t[j]
      /\ u[n + 1] = e
  BY AppendFacts
<1>2. \A m \in DOMAIN t : t[m].actor # Null => \A j \in DOMAIN t : j < m => t[j].at <= t[m].at + ClockLag
  BY DEF StampedLast, Decisions
<1> HIDE DEF t, u, n
<1>3. ASSUME NEW m \in DOMAIN u, u[m].actor # Null, NEW j \in DOMAIN u, j < m
      PROVE  u[j].at <= u[m].at + ClockLag
  <2>1. j \in 1..n
    BY <1>1, <1>3
  <2>2. CASE m = n + 1
    BY <1>1, <1>3, <2>1, <2>2 DEF t
  <2>3. CASE m \in 1..n
    BY <1>1, <1>2, <1>3, <2>1, <2>3
  <2> QED  BY <1>1, <2>2, <2>3
<1> QED  BY <1>3 DEF StampedLast, Decisions, u

-----------------------------------------------------------------------------
(* The story of an incident, told by its columns and by its timeline. *)
Told(b) == CountsChanges(b) /\ Chains(b) /\ NamesOwner(b) /\ StampedLast(b)

LEMMA ActionCases ==
    ASSUME NEW i \in Row, NEW s \in Signals
    PROVE  /\ TimelineAction(i, s) \in {"opened", "reopened", "escalated", "none"}
           /\ TimelineAction(i, s) = "opened" <=> i.occurrences = 0
           /\ TimelineAction(i, s) = "reopened" <=> i.occurrences # 0 /\ i.status = "resolved"
BY DEF TimelineAction

LEMMA RecordTold ==
    ASSUME NEW b, BookGood(b), Told(b), NEW s \in Signals, NEW now \in Nat
    PROVE  Told(Record(Insert(b, s), s, now))
<1> DEFINE i == Insert(b, s).incident
           c == Record(Insert(b, s), s, now)
           act == TimelineAction(i, s)
           e == WorkerEntry(i, s, now)
<1>1. /\ i \in Row /\ i.status # "absent"
      /\ Insert(b, s).timeline = b.timeline
      /\ i.occurrences = b.incident.occurrences /\ i.revision = b.incident.revision
      /\ b.incident.status = "absent" =>
            /\ i.status = "open" /\ i.owner = Null /\ ~i.closed /\ ~i.acknowledged
      /\ b.incident.status # "absent" => i = b.incident
  BY InsertGood
<1>2. /\ c.incident = Update(i, s)
      /\ c.timeline = IF act = "none" THEN b.timeline ELSE Append(b.timeline, e)
  BY <1>1 DEF Record
<1>3. /\ b.timeline \in Seq(Entry)
      /\ b.incident.occurrences = 0 <=> b.incident.status = "absent"
      /\ b.incident.occurrences \in Nat /\ b.incident.revision \in Nat
  BY GoodRow DEF Row
<1>4. /\ act \in {"opened", "reopened", "escalated", "none"}
      /\ act = "opened" <=> b.incident.status = "absent"
      /\ act = "reopened" <=> b.incident.status = "resolved"
  BY <1>1, <1>3, ActionCases
<1>5. LET u == Update(i, s)
      IN /\ u.status = IF act = "reopened" THEN "open" ELSE i.status
         /\ u.occurrences = i.occurrences + 1 /\ u.revision = i.revision + 1
         /\ act = "reopened" => u.owner = Null /\ u.acknowledged = FALSE /\ u.closed = FALSE
         /\ act # "reopened" => /\ u.owner = i.owner /\ u.acknowledged = i.acknowledged
                                /\ u.closed = i.closed
  BY <1>1, UpdateRow
<1>6. act # "none" => e \in Entry
  BY <1>1, WorkerEntryType
<1>7. /\ e.action = act /\ e.actor = Null /\ e.to = Update(i, s).status
      /\ e.from = IF i.occurrences = 0 THEN Null ELSE i.status
  BY DEF WorkerEntry
<1> HIDE DEF i, c, act, e
<1>8. CountsChanges(c)
  <2>1. Cardinality(Decisions(c.timeline)) = Cardinality(Decisions(b.timeline))
    <3>1. CASE act = "none"
      BY <1>2, <3>1
    <3>2. CASE act # "none"
      <4>1. Cardinality(Decisions(Append(b.timeline, e))) = Cardinality(Decisions(b.timeline)) + 0
        BY <1>3, <1>6, <1>7, <3>2, AppendDecisions
      <4>2. Cardinality(Decisions(b.timeline)) \in Nat
        BY <1>3, DecisionsFinite
      <4> QED  BY <1>2, <3>2, <4>1, <4>2
    <3> QED  BY <3>1, <3>2
  <2>2. Cardinality(Decisions(b.timeline)) \in Nat
    BY <1>3, DecisionsFinite
  <2>3. b.incident.revision = b.incident.occurrences + Cardinality(Decisions(b.timeline))
    BY DEF Told, CountsChanges
  <2>4. /\ c.incident.revision = b.incident.revision + 1
        /\ c.incident.occurrences = b.incident.occurrences + 1
    BY <1>1, <1>2, <1>5
  <2> QED  BY <1>3, <2>1, <2>2, <2>3, <2>4 DEF CountsChanges
<1>9. Chains(c)
  <2>1. CASE act = "none"
    <3>1. c.timeline = b.timeline /\ c.incident.status = b.incident.status
      BY <1>1, <1>2, <1>4, <1>5, <2>1
    <3> QED  BY <3>1 DEF Told, Chains
  <2>2. CASE act # "none"
    <3>1. c.incident.status # "absent" /\ e.to = c.incident.status
      BY <1>1, <1>2, <1>5, <1>7
    <3>2. /\ e.from = IF b.incident.status = "absent" THEN Null ELSE b.incident.status
          /\ e.action = "opened" <=> b.incident.status = "absent"
      BY <1>1, <1>3, <1>4, <1>7
    <3> QED  BY <1>2, <1>3, <1>6, <2>2, <3>1, <3>2, AppendChains DEF Told
  <2> QED  BY <2>1, <2>2
<1>10. NamesOwner(c)
  <2>1. /\ b.incident.closed <=> b.incident.status = "resolved"
        /\ b.incident.acknowledged => b.incident.status \in {"acknowledged", "resolved"}
        /\ b.incident.status = "acknowledged" => b.incident.acknowledged
    BY DEF Told, NamesOwner
  <2>2. /\ c.incident.closed <=> c.incident.status = "resolved"
        /\ c.incident.acknowledged => c.incident.status \in {"acknowledged", "resolved"}
        /\ c.incident.status = "acknowledged" => c.incident.acknowledged
    BY <2>1, <1>1, <1>2, <1>4, <1>5
  <2>3. CASE act = "none"
    <3>1. c.timeline = b.timeline /\ c.incident.owner = b.incident.owner
      BY <1>1, <1>2, <1>4, <1>5, <2>3
    <3> QED  BY <2>2, <3>1 DEF Told, NamesOwner
  <2>4. CASE act # "none"
    <3>1. c.incident.owner = IF e.action = "escalated" THEN b.incident.owner ELSE e.actor
      BY <1>1, <1>2, <1>4, <1>5, <1>7, <2>4
    <3> QED  BY <1>2, <1>3, <1>6, <2>2, <2>4, <3>1, AppendOwner DEF Told
  <2> QED  BY <2>3, <2>4
<1>11. StampedLast(c)
  <2>1. CASE act = "none"
    BY <1>2, <2>1 DEF Told, StampedLast
  <2>2. CASE act # "none"
    BY <1>2, <1>3, <1>6, <1>7, <2>2, AppendStamped DEF Told
  <2> QED  BY <2>1, <2>2
<1> QED  BY <1>8, <1>9, <1>10, <1>11 DEF Told, c

(* An operator whose request is possible, and who has read this very row    *)
(* after everything in its timeline.                                       *)
LEMMA JudgedTold ==
    ASSUME NEW b, BookGood(b), Told(b), NEW o \in Operators, ask[o] \in Ask,
           read[o] = b.incident,
           b.incident.status \in (IF ask[o].to = "acknowledged" THEN {"open"}
                                  ELSE {"open", "acknowledged"}),
           \A j \in DOMAIN b.timeline : b.timeline[j].at <= ask[o].at + ClockLag
    PROVE  Told(Judged(b, o))
<1> DEFINE c == Judged(b, o)
           e == OperatorEntry(o)
           r == b.incident
<1>1. /\ r \in Row /\ b.timeline \in Seq(Entry) /\ r.status # "absent"
      /\ read[o] = r
  BY GoodRow
<1>2. ask[o].to \in {"acknowledged", "resolved"} /\ ask[o].at \in Nat
  BY DEF Ask
<1>3. c.incident = Decided(r, o) /\ c.timeline = Append(b.timeline, e)
  BY <1>1, JudgedGood
<1>4. /\ c.incident.status = ask[o].to
      /\ c.incident.owner = IF r.owner = o THEN r.owner ELSE o
      /\ c.incident.revision = r.revision + 1
      /\ c.incident.occurrences = r.occurrences
      /\ c.incident.acknowledged <=> r.acknowledged \/ ask[o].to = "acknowledged"
      /\ c.incident.closed <=> r.closed \/ ask[o].to = "resolved"
  BY <1>1, <1>3, DecidedRow
<1>5. /\ e.action = ask[o].to /\ e.actor = o /\ e.from = r.status /\ e.to = ask[o].to
      /\ e.at = ask[o].at
  BY <1>1 DEF OperatorEntry
<1>6. e \in Entry /\ e.actor # Null
  BY <1>1, <1>2, <1>5, NullApart DEF OperatorEntry, Entry, Actions, Statuses, Row
<1> HIDE DEF c, e
<1>7. CountsChanges(c)
  <2>1. Cardinality(Decisions(c.timeline)) = Cardinality(Decisions(b.timeline)) + 1
    BY <1>1, <1>3, <1>6, AppendDecisions
  <2>2. r.revision = r.occurrences + Cardinality(Decisions(b.timeline))
    BY DEF Told, CountsChanges
  <2>3. Cardinality(Decisions(b.timeline)) \in Nat /\ r.occurrences \in Nat
    BY <1>1, DecisionsFinite DEF Row
  <2> QED  BY <1>4, <2>1, <2>2, <2>3 DEF CountsChanges
<1>8. Chains(c)
  <2>1. /\ c.incident.status # "absent" /\ e.to = c.incident.status
        /\ e.from = IF r.status = "absent" THEN Null ELSE r.status
        /\ e.action = "opened" <=> r.status = "absent"
    BY <1>1, <1>2, <1>4, <1>5
  <2> QED  BY <1>1, <1>3, <1>6, <2>1, AppendChains DEF Told
<1>9. NamesOwner(c)
  <2>1. /\ r.closed <=> r.status = "resolved"
        /\ r.acknowledged => r.status \in {"acknowledged", "resolved"}
        /\ r.status = "acknowledged" => r.acknowledged
    BY DEF Told, NamesOwner
  <2>2. /\ c.incident.closed <=> c.incident.status = "resolved"
        /\ c.incident.acknowledged => c.incident.status \in {"acknowledged", "resolved"}
        /\ c.incident.status = "acknowledged" => c.incident.acknowledged
    BY <1>2, <1>4, <2>1
  <2>3. c.incident.owner = IF e.action = "escalated" THEN r.owner ELSE e.actor
    BY <1>2, <1>4, <1>5
  <2> QED  BY <1>1, <1>3, <1>6, <2>2, <2>3, AppendOwner DEF Told
<1>10. StampedLast(c)
  BY <1>1, <1>3, <1>5, <1>6, AppendStamped DEF Told
<1> QED  BY <1>7, <1>8, <1>9, <1>10 DEF Told, c

-----------------------------------------------------------------------------
(* What row locks add to LInv.                                             *)

(* A row has changed since another only if its revision has grown. *)
Newer(i, j) == i = j \/ i.revision > j.revision

(* What a worker is about to commit is newer than what it replaces, *)
DraftsNewer ==
    \A w \in Workers : \A k \in DOMAIN draft[w] :
        \/ draft[w][k] = book[k]
        \/ draft[w][k].incident.revision > book[k].incident.revision

(* and what is committed is newer than what a screen or a request shows.   *)
ScreensOlder ==
    \A o \in Operators :
        /\ \A k \in Keys : view[o][k] # Null => Newer(book[k].incident, view[o][k])
        /\ ask[o] # Null => Newer(book[ask[o].key].incident, ask[o].seen)

(* Between SELECT ... FOR UPDATE and commit the row stays what was read,    *)
(* which is what the operator has seen, and nobody else works on it.       *)
ReadHeld ==
    \A o \in Operators :
        read[o] # Null =>
            /\ read[o] = book[ask[o].key].incident
            /\ read[o] = ask[o].seen
            /\ Possible(o)
            /\ \A w \in Workers : ask[o].key \notin DOMAIN draft[w]
            /\ \A p \in Operators \ {o} : read[p] # Null => ask[p].key # ask[o].key

BooksTold ==
    /\ \A k \in Keys : Told(book[k])
    /\ \A w \in Workers : \A k \in DOMAIN draft[w] : Told(draft[w][k])

(* All that is stamped was stamped in the past. *)
Past(b) == \A j \in DOMAIN b.timeline : b.timeline[j].at < clock
StampsPast ==
    /\ \A w \in Workers : stamp[w] # Null => stamp[w] < clock
    /\ \A o \in Operators : ask[o] # Null => ask[o].at < clock
    /\ \A k \in Keys : Past(book[k])
    /\ \A w \in Workers : \A k \in DOMAIN draft[w] : Past(draft[w][k])

(* A request whose revision is current is stamped after the whole timeline, *)
(* up to the lag of its host's clock: had an entry been added since, the   *)
(* revision would have moved.                                              *)
AskedLast ==
    \A o \in Operators :
        ask[o] # Null /\ Current(o) =>
            LET t == book[ask[o].key].timeline
            IN \A j \in DOMAIN t : t[j].at <= ask[o].at + ClockLag

PInv ==
    /\ LInv
    /\ DraftsNewer /\ ScreensOlder /\ ReadHeld
    /\ BooksTold /\ StampsPast /\ AskedLast

LEMMA InitPInv == Init => PInv
<1> SUFFICES ASSUME Init PROVE PInv
  OBVIOUS
<1> DEFINE b == [incident |-> NoIncident, signals |-> {}, timeline |-> <<>>]
<1>1. \A k \in Keys : book[k] = b
  BY DEF Init
<1>2. \A w \in Workers : DOMAIN draft[w] = {}
  BY DEF Init, NoDraft
<1>3. /\ \A o \in Operators : ask[o] = Null /\ read[o] = Null
      /\ \A o \in Operators, k \in Keys : view[o][k] = Null
      /\ \A w \in Workers : stamp[w] = Null
  BY DEF Init
<1>4. /\ b.timeline = <<>> /\ DOMAIN b.timeline = {} /\ b.incident = NoIncident
      /\ Decisions(b.timeline) = {}
  BY DEF Decisions
<1>5. Told(b)
  BY <1>4, FS_EmptySet
  DEF Told, CountsChanges, Chains, NamesOwner, StampedLast, NoIncident
<1> HIDE DEF b
<1>6. DraftsNewer /\ ScreensOlder /\ ReadHeld /\ AskedLast
  BY <1>2, <1>3 DEF DraftsNewer, ScreensOlder, ReadHeld, AskedLast
<1>7. BooksTold
  BY <1>1, <1>2, <1>5 DEF BooksTold
<1>8. StampsPast
  BY <1>1, <1>2, <1>3, <1>4 DEF StampsPast, Past
<1> QED  BY <1>6, <1>7, <1>8, InitLInv DEF PInv

(* Revisions of rows are numbers, and Newer is transitive. *)
LEMMA NewerTransitive ==
    ASSUME NEW h \in Row, NEW i \in Row, NEW j \in Row, Newer(h, i), Newer(i, j)
    PROVE  Newer(h, j)
<1>1. h.revision \in Nat /\ i.revision \in Nat /\ j.revision \in Nat
  BY DEF Row
<1> QED  BY <1>1 DEF Newer

(* The rows there are. *)
LEMMA RowTypes ==
    ASSUME LInv
    PROVE  /\ \A k \in Keys : book[k].incident \in Row /\ book[k].timeline \in Seq(Entry)
           /\ \A w \in Workers : \A k \in DOMAIN draft[w] : draft[w][k].incident \in Row
           /\ \A o \in Operators, k \in Keys : view[o][k] # Null => view[o][k] \in Row
           /\ \A o \in Operators : ask[o] # Null =>
                 /\ ask[o] \in Ask /\ ask[o].key \in Keys /\ ask[o].seen \in Row
                 /\ ask[o].at \in Nat
           /\ clock \in Nat
<1>1. \A k \in Keys : book[k].incident \in Row /\ book[k].timeline \in Seq(Entry)
  BY GoodRow DEF LInv, BooksGood
<1>2. \A w \in Workers : \A k \in DOMAIN draft[w] : draft[w][k].incident \in Row
  BY GoodRow DEF LInv, DraftsGood
<1>3. \A o \in Operators, k \in Keys : view[o][k] # Null => view[o][k] \in Row
  BY DEF LInv, TypeOK
<1>4. \A o \in Operators : ask[o] # Null => ask[o] \in Ask
  BY DEF LInv, TypeOK
<1>5. \A a \in Ask : a.key \in Keys /\ a.seen \in Row /\ a.at \in Nat
  BY DEF Ask
<1> QED  BY <1>1, <1>2, <1>3, <1>4, <1>5 DEF LInv, TypeOK

(* Time passes: what is past stays past. *)
LEMMA PastStays ==
    ASSUME NEW b, b.timeline \in Seq(Entry), Past(b), clock \in Nat, clock' \in Nat,
           clock <= clock'
    PROVE  \A j \in DOMAIN b.timeline : b.timeline[j].at < clock'
<1>1. \A j \in DOMAIN b.timeline : b.timeline[j] \in Entry
  OBVIOUS
<1>2. \A j \in DOMAIN b.timeline : b.timeline[j].at \in Nat
  BY <1>1 DEF Entry
<1> QED  BY <1>2 DEF Past

-----------------------------------------------------------------------------
(* Steps that change no book and no draft. *)
LEMMA QuietTold ==
    ASSUME PInv, LInv', book' = book, draft' = draft,
           ScreensOlder', ReadHeld', AskedLast', clock <= clock',
           \A w \in Workers : stamp'[w] # Null => stamp'[w] < clock',
           \A o \in Operators : ask'[o] # Null => ask'[o].at < clock'
    PROVE  PInv'
<1>1. DraftsNewer' /\ BooksTold'
  BY DEF PInv, DraftsNewer, BooksTold
<1>2. clock \in Nat /\ clock' \in Nat
  BY DEF PInv, LInv, TypeOK
<1>3. ASSUME NEW k \in Keys PROVE Past(book[k])'
  <2>1. book[k].timeline \in Seq(Entry) /\ Past(book[k])
    BY GoodRow DEF PInv, LInv, BooksGood, StampsPast
  <2> QED  BY <1>2, <2>1, PastStays DEF Past
<1>4. ASSUME NEW w \in Workers, NEW k \in DOMAIN draft[w] PROVE Past(draft[w][k])'
  <2>1. draft[w][k].timeline \in Seq(Entry) /\ Past(draft[w][k])
    BY GoodRow DEF PInv, LInv, DraftsGood, StampsPast
  <2> QED  BY <1>2, <2>1, PastStays DEF Past
<1>5. StampsPast'
  BY <1>3, <1>4 DEF StampsPast
<1> QED  BY <1>1, <1>5 DEF PInv

(* Steps of workers that only read. *)
LEMMA WorkerReads ==
    ASSUME PInv, LInv', book' = book, draft' = draft, UNCHANGED operator, clock <= clock',
           \A w \in Workers : stamp'[w] # Null => stamp'[w] < clock'
    PROVE  PInv'
<1>1. view' = view /\ ask' = ask /\ read' = read
  BY DEF operator
<1>2. ScreensOlder'
  BY <1>1 DEF PInv, ScreensOlder
<1>3. ReadHeld'
  BY <1>1 DEF PInv, ReadHeld, Possible
<1>4. AskedLast'
  BY <1>1 DEF PInv, AskedLast, Current
<1>5. \A o \in Operators : ask'[o] # Null => ask'[o].at < clock'
  <2>1. ASSUME NEW o \in Operators, ask[o] # Null PROVE ask[o].at < clock'
    <3>1. ask[o].at \in Nat /\ clock \in Nat /\ clock' \in Nat
      BY <2>1, RowTypes DEF PInv, LInv, TypeOK
    <3>2. ask[o].at < clock
      BY <2>1 DEF PInv, StampsPast
    <3> QED  BY <3>1, <3>2
  <2> QED  BY <1>1, <2>1
<1> QED  BY <1>2, <1>3, <1>4, <1>5, QuietTold

LEMMA BeginTold ==
    ASSUME PInv, LInv', NEW w \in Workers, NEW c \in Calls, Begin(w, c)
    PROVE  PInv'
<1>1. /\ book' = book /\ draft' = draft /\ UNCHANGED operator
      /\ clock' = clock /\ stamp' = stamp
  BY DEF Begin
<1>2. clock \in Nat /\ \A v \in Workers : stamp[v] # Null => stamp[v] < clock
  BY DEF PInv, LInv, TypeOK, StampsPast
<1> QED  BY <1>1, <1>2, WorkerReads

LEMMA StampTold ==
    ASSUME PInv, LInv', NEW w \in Workers, Stamp(w)
    PROVE  PInv'
<1>0. PICK now \in Readings : stamp' = [stamp EXCEPT ![w] = now]
  BY DEF Stamp
<1>1. /\ book' = book /\ draft' = draft /\ UNCHANGED operator /\ clock' = clock + 1
  BY DEF Stamp
<1>2. /\ clock \in Nat /\ stamp \in [Workers -> Nat \cup {Null}]
      /\ \A v \in Workers : stamp[v] # Null => stamp[v] < clock
  BY DEF PInv, LInv, TypeOK, StampsPast
<1>3. now \in Nat /\ now <= clock
  BY <1>2 DEF Readings
<1>4. ASSUME NEW v \in Workers, stamp'[v] # Null PROVE stamp'[v] < clock'
  <2>1. CASE v = w
    BY <1>0, <1>1, <1>2, <1>3, <2>1
  <2>2. CASE v # w
    <3>1. stamp'[v] = stamp[v] /\ stamp[v] \in Nat
      BY <1>0, <1>2, <1>4, <2>2
    <3> QED  BY <1>1, <1>2, <1>4, <3>1
  <2> QED  BY <2>1, <2>2
<1> QED  BY <1>1, <1>2, <1>4, WorkerReads

(* The statements before SELECT ... FOR UPDATE change no book and no draft. *)
LEMMA InsertTold ==
    ASSUME RowLocks, PInv, LInv', NEW w \in Workers,
           Skip(w) \/ InsertSignal(w) \/ ShareIncident(w)
    PROVE  PInv'
<1>1. /\ book' = book /\ UNCHANGED operator /\ clock' = clock
      /\ stamp' = stamp \/ stamp' = [stamp EXCEPT ![w] = Null]
  BY DEF Skip, InsertSignal, ShareIncident, Advance
<1>2. draft' = draft
  BY LocksEffect DEF ShareIncident, PInv
<1>3. /\ clock \in Nat /\ stamp \in [Workers -> Nat \cup {Null}]
      /\ \A v \in Workers : stamp[v] # Null => stamp[v] < clock
  BY DEF PInv, LInv, TypeOK, StampsPast
<1>4. \A v \in Workers : stamp'[v] # Null => stamp'[v] < clock'
  BY <1>1, <1>3
<1> QED  BY <1>1, <1>2, <1>3, <1>4, WorkerReads

LEMMA RefreshTold ==
    ASSUME PInv, LInv', NEW o \in Operators, Refresh(o)
    PROVE  PInv'
<1>1. /\ book' = book /\ draft' = draft /\ ask' = ask /\ read' = read
      /\ clock' = clock /\ stamp' = stamp
      /\ view' = [view EXCEPT ![o] =
            [k \in Keys |-> IF book[k].incident.status = "absent" THEN Null ELSE book[k].incident]]
  BY DEF Refresh, worker
<1>2. ScreensOlder'
  <2>1. view \in [Operators -> [Keys -> Row \cup {Null}]]
    BY DEF PInv, LInv, TypeOK
  <2>2. ASSUME NEW p \in Operators, NEW k \in Keys, view'[p][k] # Null
        PROVE  Newer(book[k].incident, view'[p][k])
    <3>1. CASE p = o
      BY <1>1, <2>1, <2>2, <3>1 DEF Newer
    <3>2. CASE p # o
      BY <1>1, <2>1, <2>2, <3>2 DEF PInv, ScreensOlder
    <3> QED  BY <3>1, <3>2
  <2> QED  BY <1>1, <2>2 DEF PInv, ScreensOlder, Newer
<1>3. ReadHeld'
  BY <1>1 DEF PInv, ReadHeld, Possible
<1>4. AskedLast'
  BY <1>1 DEF PInv, AskedLast, Current
<1>5. /\ clock \in Nat
      /\ \A w \in Workers : stamp[w] # Null => stamp[w] < clock
      /\ \A p \in Operators : ask[p] # Null => ask[p].at < clock
  BY DEF PInv, LInv, TypeOK, StampsPast
<1> QED  BY <1>1, <1>2, <1>3, <1>4, <1>5, QuietTold

LEMMA RequestTold ==
    ASSUME PInv, LInv', NEW o \in Operators, NEW k \in Keys,
           NEW to \in {"acknowledged", "resolved"}, Request(o, k, to)
    PROVE  PInv'
<1>00. PICK now \in Readings :
          ask' = [ask EXCEPT ![o] = [key |-> k, to |-> to, seen |-> view[o][k], at |-> now]]
  BY DEF Request
<1>0. now \in Nat /\ now <= clock /\ clock <= now + ClockLag
  BY DEF Readings, PInv, LInv, TypeOK
<1> DEFINE a == [key |-> k, to |-> to, seen |-> view[o][k], at |-> now]
<1>1. /\ book' = book /\ draft' = draft /\ view' = view /\ read' = read
      /\ clock' = clock + 1 /\ stamp' = stamp
      /\ ask[o] = Null /\ view[o][k] # Null
      /\ ask' = [ask EXCEPT ![o] = a]
  BY <1>00 DEF Request, worker
<1>2. a.key = k /\ a.seen = view[o][k] /\ a.at = now
  OBVIOUS
<1> HIDE DEF a
<1>3. /\ ask \in [Operators -> Ask \cup {Null}] /\ clock \in Nat
      /\ stamp \in [Workers -> Nat \cup {Null}] /\ read[o] = Null
  BY <1>1 DEF PInv, LInv, TypeOK, ScreensPresent
<1>4. ask'[o] = a /\ \A p \in Operators \ {o} : ask'[p] = ask[p]
  BY <1>1, <1>3
<1>5. ScreensOlder'
  <2>1. Newer(book[k].incident, view[o][k])
    BY <1>1 DEF PInv, ScreensOlder
  <2>2. \A p \in Operators, j \in Keys : view[p][j] # Null => Newer(book[j].incident, view[p][j])
    BY DEF PInv, ScreensOlder
  <2>3. ASSUME NEW p \in Operators, ask'[p] # Null
        PROVE  Newer(book[ask'[p].key].incident, ask'[p].seen)
    <3>1. CASE p = o
      BY <1>2, <1>4, <2>1, <3>1
    <3>2. CASE p # o
      BY <1>4, <2>3, <3>2 DEF PInv, ScreensOlder
    <3> QED  BY <3>1, <3>2
  <2> QED  BY <1>1, <2>2, <2>3 DEF ScreensOlder, Newer
<1>6. ReadHeld'
  <2>1. ASSUME NEW p \in Operators, read[p] # Null
        PROVE  p # o /\ ask'[p] = ask[p]
    BY <1>3, <1>4, <2>1
  <2>2. \A p \in Operators : read[p] # Null => (Possible(p)' <=> Possible(p))
    BY <1>1, <2>1 DEF Possible
  <2> QED  BY <1>1, <2>1, <2>2 DEF PInv, ReadHeld
<1>7. AskedLast'
  <2>1. ASSUME NEW p \in Operators, ask'[p] # Null,
               book[ask'[p].key].incident.revision = ask'[p].seen.revision
        PROVE  \A j \in DOMAIN book[ask'[p].key].timeline :
                  book[ask'[p].key].timeline[j].at <= ask'[p].at + ClockLag
    <3>1. CASE p = o
      <4>1. book[k].timeline \in Seq(Entry) /\ Past(book[k])
        BY RowTypes DEF PInv, StampsPast
      <4>2. \A j \in DOMAIN book[k].timeline :
               book[k].timeline[j] \in Entry /\ book[k].timeline[j].at < clock
        BY <4>1 DEF Past
      <4>3. \A e \in Entry : e.at \in Nat
        BY DEF Entry
      <4>4. \A j \in DOMAIN book[k].timeline : book[k].timeline[j].at <= now + ClockLag
        BY <1>0, <1>3, <4>2, <4>3, ConstantsAssumption
      <4> QED  BY <1>2, <1>4, <3>1, <4>4
    <3>2. CASE p # o
      BY <1>4, <2>1, <3>2 DEF PInv, AskedLast, Current
    <3> QED  BY <3>1, <3>2
  <2> QED  BY <1>1, <2>1 DEF AskedLast, Current
<1>8. ASSUME NEW p \in Operators, ask'[p] # Null PROVE ask'[p].at < clock'
  <2>1. CASE p = o
    BY <1>0, <1>1, <1>2, <1>3, <1>4, <2>1
  <2>2. CASE p # o
    <3>1. ask[p].at \in Nat /\ ask[p].at < clock /\ ask'[p] = ask[p]
      BY <1>4, <1>8, <2>2, RowTypes DEF PInv, StampsPast
    <3> QED  BY <1>1, <1>3, <3>1
  <2> QED  BY <2>1, <2>2
<1>9. ASSUME NEW w \in Workers, stamp'[w] # Null PROVE stamp'[w] < clock'
  <2>1. stamp[w] \in Nat /\ stamp[w] < clock
    BY <1>1, <1>3, <1>9 DEF PInv, StampsPast
  <2> QED  BY <1>1, <1>3, <2>1
<1> QED  BY <1>1, <1>3, <1>5, <1>6, <1>7, <1>8, <1>9, QuietTold

LEMMA AcceptTold ==
    ASSUME RowLocks, PInv, LInv', NEW o \in Operators, Accept(o)
    PROVE  PInv'
<1>1. /\ book' = book /\ draft' = draft /\ view' = view /\ ask' = ask
      /\ clock' = clock /\ stamp' = stamp
      /\ ask[o] # Null /\ Current(o) /\ Possible(o) /\ Unlocked(o)
      /\ read' = [read EXCEPT ![o] = book[ask[o].key].incident]
  BY DEF Accept, Pending, worker
<1>2. read \in [Operators -> Row \cup {Null}]
  BY DEF PInv, LInv, TypeOK
<1>3. read'[o] = book[ask[o].key].incident /\ \A p \in Operators \ {o} : read'[p] = read[p]
  BY <1>1, <1>2
<1>4. book[ask[o].key].incident = ask[o].seen
  <2>1. Newer(book[ask[o].key].incident, ask[o].seen)
    BY <1>1 DEF PInv, ScreensOlder
  <2>2. /\ book[ask[o].key].incident.revision = ask[o].seen.revision
        /\ ask[o].seen.revision \in Nat
    BY <1>1, RowTypes DEF Current, PInv, Row
  <2> QED  BY <2>1, <2>2 DEF Newer
<1>5. /\ \A p \in Operators : read[p] # Null => ask[p].key # ask[o].key
      /\ \A w \in Workers : ask[o].key \notin DOMAIN draft[w]
  BY <1>1 DEF Unlocked, HeldByOperator
<1>6. ReadHeld'
  <2>1. ASSUME NEW p \in Operators, read'[p] # Null
        PROVE  /\ read'[p] = book[ask[p].key].incident
               /\ read'[p] = ask[p].seen
               /\ Possible(p)
               /\ \A w \in Workers : ask[p].key \notin DOMAIN draft[w]
               /\ \A q \in Operators \ {p} : read'[q] # Null => ask[q].key # ask[p].key
    <3>1. CASE p = o
      BY <1>1, <1>3, <1>4, <1>5, <3>1
    <3>2. CASE p # o
      BY <1>3, <1>5, <2>1, <3>2 DEF PInv, ReadHeld
    <3> QED  BY <3>1, <3>2
  <2> QED  BY <1>1, <2>1 DEF ReadHeld, Possible
<1>7. ScreensOlder' /\ AskedLast'
  BY <1>1 DEF PInv, ScreensOlder, AskedLast, Current, Newer
<1>8. /\ clock \in Nat
      /\ \A w \in Workers : stamp[w] # Null => stamp[w] < clock
      /\ \A p \in Operators : ask[p] # Null => ask[p].at < clock
  BY DEF PInv, LInv, TypeOK, StampsPast
<1> QED  BY <1>1, <1>6, <1>7, <1>8, QuietTold

(* A request ends without a change. *)
LEMMA GoneTold ==
    ASSUME PInv, LInv', NEW o \in Operators, Refuse(o) \/ Drop(o)
    PROVE  PInv'
<1>1. /\ book' = book /\ draft' = draft /\ view' = view
      /\ clock' = clock /\ stamp' = stamp
      /\ ask' = [ask EXCEPT ![o] = Null]
  BY DEF Refuse, Drop, worker
<1>2. ask \in [Operators -> Ask \cup {Null}] /\ read \in [Operators -> Row \cup {Null}]
  BY DEF PInv, LInv, TypeOK
<1>3. read'[o] = Null /\ \A p \in Operators \ {o} : read'[p] = read[p]
  <2>1. CASE Refuse(o)
    BY <2>1 DEF Refuse, Pending
  <2>2. CASE Drop(o)
    BY <1>2, <2>2 DEF Drop
  <2> QED  BY <2>1, <2>2
<1>4. ask'[o] = Null /\ \A p \in Operators \ {o} : ask'[p] = ask[p]
  BY <1>1, <1>2
<1>5. ReadHeld'
  <2>1. ASSUME NEW p \in Operators, read'[p] # Null
        PROVE  /\ p # o /\ ask'[p] = ask[p] /\ read'[p] = read[p]
               /\ Possible(p)' <=> Possible(p)
    BY <1>1, <1>3, <1>4, <2>1 DEF Possible
  <2> QED  BY <1>1, <2>1 DEF PInv, ReadHeld
<1>6. ScreensOlder' /\ AskedLast'
  <2>1. ASSUME NEW p \in Operators, ask'[p] # Null PROVE p # o /\ ask'[p] = ask[p]
    BY <1>4, <2>1
  <2> QED  BY <1>1, <2>1 DEF PInv, ScreensOlder, AskedLast, Current, Newer
<1>7. /\ clock \in Nat
      /\ \A w \in Workers : stamp[w] # Null => stamp[w] < clock
      /\ \A p \in Operators : ask'[p] # Null => ask'[p].at < clock
  <2>1. \A p \in Operators : ask'[p] # Null => p # o /\ ask'[p] = ask[p]
    BY <1>4
  <2> QED  BY <2>1 DEF PInv, LInv, TypeOK, StampsPast
<1> QED  BY <1>1, <1>5, <1>6, <1>7, QuietTold

-----------------------------------------------------------------------------
(* A worker drafts one more book, under the lock of its row. *)
LEMMA FileTold ==
    ASSUME RowLocks, PInv, LInv', NEW w \in Workers, File(w)
    PROVE  PInv'
<1> DEFINE s == Signal(w)
           key == s.key
           b == Seen(w)
           c == Record(Insert(b, s), s, stamp[w])
<1>1. /\ s \in Signals /\ key \in Keys /\ stamp[w] \in Nat
      /\ BookGood(b) /\ ~Known(b, s)
      /\ \A v \in Workers \ {w} : draft'[v] = draft[v]
      /\ DOMAIN draft'[w] = DOMAIN draft[w] \cup {key}
      /\ draft'[w][key] = c
      /\ \A k \in DOMAIN draft'[w] \ {key} :
            draft'[w][k] = IF k \in DOMAIN draft[w] THEN draft[w][k] ELSE book[k]
  BY FileEffect DEF PInv
<1>2. ~HeldByOperator(key)
  BY DEF File
<1>3. /\ book' = book /\ UNCHANGED operator /\ clock' = clock
      /\ stamp' = [stamp EXCEPT ![w] = Null] /\ stamp[w] # Null
  BY HolderFacts DEF File, Advance, PInv
<1>4. view' = view /\ ask' = ask /\ read' = read
  BY <1>3 DEF operator
<1>5. b = IF key \in DOMAIN draft[w] THEN draft[w][key] ELSE book[key]
  BY DEF Seen, Visible
<1>6. /\ b.incident.revision \in Nat /\ book[key].incident.revision \in Nat
      /\ b.incident.revision >= book[key].incident.revision
  <2>1. b.incident \in Row /\ book[key].incident \in Row
    BY <1>1, GoodRow, RowTypes DEF PInv
  <2>2. b.incident.revision \in Nat /\ book[key].incident.revision \in Nat
    BY <2>1 DEF Row
  <2>3. CASE key \in DOMAIN draft[w]
    BY <1>5, <2>2, <2>3 DEF PInv, DraftsNewer
  <2>4. CASE key \notin DOMAIN draft[w]
    BY <1>5, <2>2, <2>4
  <2> QED  BY <2>2, <2>3, <2>4
<1>7. Told(b) /\ Past(b)
  BY <1>1, <1>5 DEF PInv, BooksTold, StampsPast
<1>8. /\ c.incident.revision = b.incident.revision + 1
      /\ Told(c)
  BY <1>1, <1>7, RecordGood, RecordTold
<1>9. \A j \in DOMAIN c.timeline : c.timeline[j].at < clock
  <2> DEFINE i == Insert(b, s).incident
             e == WorkerEntry(i, s, stamp[w])
  <2>1. i \in Row /\ i.status # "absent" /\ Insert(b, s).timeline = b.timeline
    BY <1>1, InsertGood
  <2>2. c.timeline = IF TimelineAction(i, s) = "none" THEN b.timeline ELSE Append(b.timeline, e)
    BY <2>1 DEF Record
  <2>3. TimelineAction(i, s) # "none" => e \in Entry
    BY <1>1, <2>1, WorkerEntryType
  <2>4. e.at < clock
    BY <1>3 DEF WorkerEntry, PInv, StampsPast
  <2>5. b.timeline \in Seq(Entry)
    BY <1>1, GoodRow
  <2> HIDE DEF i, e, b, c
  <2>6. CASE TimelineAction(i, s) = "none"
    BY <1>7, <2>2, <2>6 DEF Past
  <2>7. CASE TimelineAction(i, s) # "none"
    <3>1. /\ DOMAIN c.timeline = 1..(Len(b.timeline) + 1) /\ DOMAIN b.timeline = 1..Len(b.timeline)
          /\ \A j \in 1..Len(b.timeline) : c.timeline[j] = b.timeline[j]
          /\ c.timeline[Len(b.timeline) + 1] = e
          /\ Len(b.timeline) \in Nat
      BY <2>2, <2>3, <2>5, <2>7, AppendFacts
    <3> QED  BY <1>7, <2>4, <3>1 DEF Past
  <2> QED  BY <2>6, <2>7
<1> HIDE DEF s, key, b, c
<1>10. \A k \in DOMAIN draft'[w] : k # key => k \in DOMAIN draft[w] /\ draft'[w][k] = draft[w][k]
  BY <1>1
<1>11. DraftsNewer'
  <2>1. ASSUME NEW k \in DOMAIN draft'[w]
        PROVE  \/ draft'[w][k] = book[k]
               \/ draft'[w][k].incident.revision > book[k].incident.revision
    <3>1. CASE k = key
      BY <1>1, <1>6, <1>8, <3>1
    <3>2. CASE k # key
      BY <1>10, <3>2 DEF PInv, DraftsNewer
    <3> QED  BY <3>1, <3>2
  <2> QED  BY <1>1, <1>3, <2>1 DEF PInv, DraftsNewer
<1>12. ScreensOlder' /\ AskedLast'
  BY <1>3, <1>4 DEF PInv, ScreensOlder, AskedLast, Current, Newer
<1>13. ReadHeld'
  <2>2. \A o \in Operators : read[o] # Null => ask[o].key # key
    BY <1>2 DEF HeldByOperator
  <2>3. \A o \in Operators : read[o] # Null => \A v \in Workers : ask[o].key \notin DOMAIN draft'[v]
    BY <1>1, <2>2 DEF PInv, ReadHeld
  <2> QED  BY <1>3, <1>4, <2>3 DEF PInv, ReadHeld, Possible
<1>14. BooksTold'
  <2>1. \A k \in DOMAIN draft'[w] : Told(draft'[w][k])
    BY <1>1, <1>8, <1>10 DEF PInv, BooksTold
  <2> QED  BY <1>1, <1>3, <2>1 DEF PInv, BooksTold
<1>15. StampsPast'
  <2>1. \A k \in DOMAIN draft'[w] : \A j \in DOMAIN draft'[w][k].timeline :
           draft'[w][k].timeline[j].at < clock
    BY <1>1, <1>9, <1>10 DEF PInv, StampsPast, Past
  <2>2. \A v \in Workers : stamp'[v] # Null => stamp'[v] < clock
    BY <1>3 DEF PInv, LInv, TypeOK, StampsPast
  <2> QED  BY <1>1, <1>3, <1>4, <2>1, <2>2 DEF PInv, StampsPast, Past
<1> QED  BY <1>11, <1>12, <1>13, <1>14, <1>15 DEF PInv

(* A worker's drafts replace the books, or are thrown away. *)
LEMMA CommitTold ==
    ASSUME PInv, LInv', NEW w \in Workers, Commit(w) \/ Abort(w)
    PROVE  PInv'
<1>1. /\ DOMAIN draft'[w] = {} /\ \A v \in Workers \ {w} : draft'[v] = draft[v]
      /\ UNCHANGED <<clock, view, ask, read>>
  BY HangupEffect DEF Commit, Abort, PInv, LInv
<1>2. \A k \in Keys : book'[k] = book[k] \/ (k \in DOMAIN draft[w] /\ book'[k] = draft[w][k])
  <2>1. CASE Commit(w)
    BY <2>1 DEF Commit
  <2>2. CASE Abort(w)
    BY <2>2 DEF Abort
  <2> QED  BY <2>1, <2>2
<1>3. \A k \in Keys : k \notin DOMAIN draft[w] => book'[k] = book[k]
  BY <1>2
<1>4. \A v \in Workers \ {w} : \A k \in DOMAIN draft[v] : k \in Keys /\ k \notin DOMAIN draft[w]
  BY DEF PInv, LInv, TypeOK, DraftsApart
<1>5. DraftsNewer'
  BY <1>1, <1>3, <1>4 DEF PInv, DraftsNewer
<1>6. \A k \in Keys : /\ book'[k] = book[k] \/ book'[k].incident.revision > book[k].incident.revision
                      /\ book[k].incident \in Row /\ book'[k].incident \in Row
  BY <1>2, RowTypes DEF PInv, DraftsNewer
<1>7. \A k \in Keys : Newer(book'[k].incident, book[k].incident)
  BY <1>6 DEF Newer
<1>8. ScreensOlder'
  <2>1. ASSUME NEW o \in Operators, NEW k \in Keys, view[o][k] # Null
        PROVE  Newer(book'[k].incident, view[o][k])
    <3>1. view[o][k] \in Row /\ Newer(book[k].incident, view[o][k])
      BY <2>1, RowTypes DEF PInv, ScreensOlder
    <3> QED  BY <1>6, <1>7, <3>1, NewerTransitive
  <2>2. ASSUME NEW o \in Operators, ask[o] # Null
        PROVE  Newer(book'[ask[o].key].incident, ask[o].seen)
    <3>1. /\ ask[o].key \in Keys /\ ask[o].seen \in Row
          /\ Newer(book[ask[o].key].incident, ask[o].seen)
      BY <2>2, RowTypes DEF PInv, ScreensOlder
    <3> QED  BY <1>6, <1>7, <3>1, NewerTransitive
  <2> QED  BY <1>1, <2>1, <2>2 DEF ScreensOlder, Newer
<1>9. ReadHeld'
  <2>1. ASSUME NEW o \in Operators, read[o] # Null
        PROVE  /\ book'[ask[o].key] = book[ask[o].key]
               /\ \A v \in Workers : ask[o].key \notin DOMAIN draft'[v]
    <3>1. ask[o].key \in Keys
      BY <2>1, RowTypes DEF PInv, LInv, ScreensPresent
    <3> QED  BY <1>1, <1>3, <2>1, <3>1 DEF PInv, ReadHeld
  <2> QED  BY <1>1, <2>1 DEF PInv, ReadHeld, Possible
<1>10. BooksTold'
  BY <1>1, <1>2 DEF PInv, BooksTold
<1>11. StampsPast'
  <2>1. \A k \in Keys : \A j \in DOMAIN book'[k].timeline : book'[k].timeline[j].at < clock
    BY <1>2 DEF PInv, StampsPast, Past
  <2>2. \A v \in Workers : stamp'[v] # Null => stamp'[v] < clock
    BY DEF Commit, Abort, Hangup, PInv, LInv, TypeOK, StampsPast
  <2> QED  BY <1>1, <2>1, <2>2 DEF PInv, StampsPast, Past
<1>12. AskedLast'
  <2>1. ASSUME NEW o \in Operators, ask[o] # Null,
               book'[ask[o].key].incident.revision = ask[o].seen.revision
        PROVE  book'[ask[o].key] = book[ask[o].key]
    <3> DEFINE k == ask[o].key
    <3>1. /\ k \in Keys /\ ask[o].seen \in Row
          /\ Newer(book[k].incident, ask[o].seen)
      BY <2>1, RowTypes DEF PInv, ScreensOlder
    <3>2. ask[o].seen.revision \in Nat /\ book[k].incident.revision \in Nat
          /\ book'[k].incident.revision = ask[o].seen.revision
      BY <1>6, <2>1, <3>1 DEF Row
    <3>3. book[k].incident.revision >= ask[o].seen.revision
      BY <3>1, <3>2 DEF Newer
    <3>4. book'[k] = book[k] \/ book'[k].incident.revision > book[k].incident.revision
      BY <1>6, <3>1
    <3> HIDE DEF k
    <3>5. book'[k] = book[k]
      BY <3>2, <3>3, <3>4
    <3> QED  BY <3>5 DEF k
  <2> QED  BY <1>1, <2>1 DEF PInv, AskedLast, Current
<1> QED  BY <1>5, <1>8, <1>9, <1>10, <1>11, <1>12 DEF PInv

(* What a decision finds and leaves behind. *)
LEMMA DecideFinds ==
    ASSUME PInv, NEW o \in Operators, Decide(o)
    PROVE  LET k == ask[o].key
           IN /\ k \in Keys /\ ask[o] \in Ask /\ read[o] # Null
              /\ read[o] = book[k].incident /\ read[o] = ask[o].seen
              /\ book'[k] = Judged(book[k], o)
              /\ \A j \in Keys \ {k} : book'[j] = book[j]
              /\ \A w \in Workers : k \notin DOMAIN draft[w]
              /\ book'[k].incident.revision = book[k].incident.revision + 1
              /\ Told(book'[k])
              /\ \A j \in DOMAIN book'[k].timeline : book'[k].timeline[j].at < clock
<1> DEFINE k == ask[o].key
<1>1. /\ k \in Keys /\ ask[o] \in Ask /\ read[o] \in Row /\ Present(k)
      /\ book'[k] = Judged(book[k], o)
      /\ \A j \in Keys \ {k} : book'[j] = book[j]
      /\ \A w \in Workers : k \notin DOMAIN draft[w]
  BY DecideEffect DEF PInv
<1>2. read[o] # Null /\ ask[o] # Null
  BY <1>1, NullApart
<1>3. read[o] = book[k].incident /\ read[o] = ask[o].seen /\ Possible(o)
  BY <1>2 DEF PInv, ReadHeld
<1>4. BookGood(book[k]) /\ Told(book[k]) /\ Past(book[k])
  BY <1>1 DEF PInv, LInv, BooksGood, BooksTold, StampsPast
<1>5. \A j \in DOMAIN book[k].timeline : book[k].timeline[j].at <= ask[o].at + ClockLag
  BY <1>2, <1>3 DEF PInv, AskedLast, Current
<1>6. Told(Judged(book[k], o))
  BY <1>1, <1>3, <1>4, <1>5, JudgedTold DEF Possible
<1>7. /\ Judged(book[k], o).incident = Decided(book[k].incident, o)
      /\ Judged(book[k], o).timeline = Append(book[k].timeline, OperatorEntry(o))
  BY <1>1, <1>4, JudgedGood DEF Present
<1>8. Decided(book[k].incident, o).revision = book[k].incident.revision + 1
  BY <1>1, <1>3, DecidedRow
<1>9. OperatorEntry(o) \in Entry /\ OperatorEntry(o).at = ask[o].at
  <2>1. ask[o].to \in {"acknowledged", "resolved"} /\ ask[o].at \in Nat /\ read[o].status \in Statuses
    BY <1>1 DEF Ask, Row
  <2> QED  BY <2>1 DEF OperatorEntry, Entry, Actions, Statuses
<1> HIDE DEF k
<1>10. \A j \in DOMAIN Judged(book[k], o).timeline : Judged(book[k], o).timeline[j].at < clock
  <2> DEFINE t == book[k].timeline
             u == Judged(book[k], o).timeline
             e == OperatorEntry(o)
  <2>1. t \in Seq(Entry) /\ u = Append(t, e) /\ e \in Entry
    BY <1>4, <1>7, <1>9, GoodRow
  <2>2. e.at < clock
    BY <1>2, <1>9 DEF PInv, StampsPast
  <2>3. \A j \in DOMAIN t : t[j].at < clock
    BY <1>4 DEF Past
  <2> HIDE DEF t, u, e
  <2>4. /\ DOMAIN u = 1..(Len(t) + 1) /\ DOMAIN t = 1..Len(t) /\ Len(t) \in Nat
        /\ \A j \in 1..Len(t) : u[j] = t[j]
        /\ u[Len(t) + 1] = e
    BY <2>1, AppendFacts
  <2>5. \A j \in DOMAIN u : u[j].at < clock
    BY <2>2, <2>3, <2>4
  <2> QED  BY <2>5 DEF u
<1> QED  BY <1>1, <1>2, <1>3, <1>6, <1>7, <1>8, <1>10 DEF k

LEMMA DecideTold ==
    ASSUME PInv, LInv', NEW o \in Operators, Decide(o)
    PROVE  PInv'
<1> DEFINE k == ask[o].key
<1>1. /\ k \in Keys
      /\ \A j \in Keys \ {k} : book'[j] = book[j]
      /\ \A w \in Workers : k \notin DOMAIN draft[w]
      /\ book'[k].incident.revision = book[k].incident.revision + 1
      /\ Told(book'[k])
      /\ \A j \in DOMAIN book'[k].timeline : book'[k].timeline[j].at < clock
  BY DecideFinds
<1>2. /\ draft' = draft /\ clock' = clock /\ stamp' = stamp
      /\ ask' = [ask EXCEPT ![o] = Null] /\ read' = [read EXCEPT ![o] = Null]
      /\ read[o] # Null
  BY DEF Decide, worker
<1>3. view' = [view EXCEPT ![o][k] = book'[k].incident] /\ book'[k].incident \in Row
  BY DecideEffect DEF PInv
<1> HIDE DEF k
<1>4. /\ ask \in [Operators -> Ask \cup {Null}] /\ read \in [Operators -> Row \cup {Null}]
      /\ view \in [Operators -> [Keys -> Row \cup {Null}]]
  BY DEF PInv, LInv, TypeOK
<1>5. ask'[o] = Null /\ read'[o] = Null
      /\ \A p \in Operators \ {o} : ask'[p] = ask[p] /\ read'[p] = read[p]
  BY <1>2, <1>4
<1>6. \A j \in Keys : book[j].incident \in Row /\ book'[j].incident \in Row
  BY <1>1, <1>3, RowTypes DEF PInv
<1>7. \A j \in Keys : Newer(book'[j].incident, book[j].incident)
  <2>1. book[k].incident.revision \in Nat
    BY <1>1, <1>6 DEF Row
  <2> QED  BY <1>1, <2>1 DEF Newer
<1>8. DraftsNewer'
  <2>1. \A w \in Workers : \A j \in DOMAIN draft[w] : book'[j] = book[j]
    BY <1>1 DEF PInv, LInv, TypeOK
  <2> QED  BY <1>2, <2>1 DEF PInv, DraftsNewer
<1>9. ScreensOlder'
  <2>1. ASSUME NEW p \in Operators, NEW j \in Keys, view'[p][j] # Null
        PROVE  Newer(book'[j].incident, view'[p][j])
    <3>1. CASE p = o /\ j = k
      <4>1. view'[p][j] = book'[j].incident
        BY <1>1, <1>3, <1>4, <3>1
      <4> QED  BY <4>1 DEF Newer
    <3>2. CASE p # o \/ j # k
      <4>1. view'[p][j] = view[p][j]
        <5>1. CASE p # o
          BY <1>3, <1>4, <5>1
        <5>2. CASE p = o /\ j # k
          BY <1>3, <1>4, <5>2
        <5> QED  BY <3>2, <5>1, <5>2
      <4>2. view[p][j] \in Row /\ Newer(book[j].incident, view[p][j])
        BY <2>1, <4>1, RowTypes DEF PInv, ScreensOlder
      <4> QED  BY <1>6, <1>7, <4>1, <4>2, NewerTransitive
    <3> QED  BY <3>1, <3>2
  <2>2. ASSUME NEW p \in Operators, ask'[p] # Null
        PROVE  Newer(book'[ask'[p].key].incident, ask'[p].seen)
    <3>1. p # o /\ ask'[p] = ask[p]
      BY <1>5, <2>2
    <3>2. /\ ask[p].key \in Keys /\ ask[p].seen \in Row
          /\ Newer(book[ask[p].key].incident, ask[p].seen)
      BY <2>2, <3>1, RowTypes DEF PInv, ScreensOlder
    <3>3. Newer(book'[ask[p].key].incident, ask[p].seen)
      BY <1>6, <1>7, <3>2, NewerTransitive
    <3> QED  BY <3>1, <3>3
  <2> QED  BY <2>1, <2>2 DEF ScreensOlder, Newer
<1>10. ReadHeld'
  <2>1. ASSUME NEW p \in Operators, read'[p] # Null
        PROVE  /\ p # o /\ ask'[p] = ask[p] /\ read'[p] = read[p]
               /\ book'[ask[p].key] = book[ask[p].key]
    <3>1. p # o /\ ask'[p] = ask[p] /\ read'[p] = read[p]
      BY <1>5, <2>1
    <3>2. ask[p].key \in Keys
      BY <2>1, <3>1, RowTypes DEF PInv, LInv, ScreensPresent
    <3>3. ask[p].key # k
      BY <1>2, <2>1, <3>1 DEF PInv, ReadHeld, k
    <3> QED  BY <1>1, <3>1, <3>2, <3>3
  <2>2. ASSUME NEW p \in Operators, read'[p] # Null
        PROVE  /\ read'[p] = book'[ask'[p].key].incident
               /\ read'[p] = ask'[p].seen
               /\ book'[ask'[p].key].incident.status \in
                     (IF ask'[p].to = "acknowledged" THEN {"open"} ELSE {"open", "acknowledged"})
               /\ \A w \in Workers : ask'[p].key \notin DOMAIN draft[w]
               /\ \A q \in Operators \ {p} : read'[q] # Null => ask'[q].key # ask'[p].key
    BY <2>1, <2>2 DEF PInv, ReadHeld, Possible
  <2> QED  BY <1>2, <2>2 DEF ReadHeld, Possible
<1>11. BooksTold'
  BY <1>1, <1>2 DEF PInv, BooksTold
<1>12. StampsPast'
  <2>1. \A j \in Keys : Past(book[j])'
    BY <1>1, <1>2 DEF PInv, StampsPast, Past
  <2>2. \A p \in Operators : ask'[p] # Null => ask'[p].at < clock
    BY <1>5 DEF PInv, StampsPast
  <2> QED  BY <1>2, <2>1, <2>2 DEF PInv, StampsPast, Past
<1>13. AskedLast'
  <2>1. ASSUME NEW p \in Operators, ask'[p] # Null,
               book'[ask'[p].key].incident.revision = ask'[p].seen.revision
        PROVE  ask'[p] = ask[p] /\ ask[p].key \in Keys /\ book'[ask[p].key] = book[ask[p].key]
    <3>1. p # o /\ ask'[p] = ask[p] /\ ask[p] # Null
      BY <1>5, <2>1
    <3>2. /\ ask[p].key \in Keys /\ ask[p].seen \in Row
          /\ Newer(book[ask[p].key].incident, ask[p].seen)
      BY <3>1, RowTypes DEF PInv, ScreensOlder
    <3>3. ask[p].key # k
      <4> SUFFICES ASSUME ask[p].key = k PROVE FALSE
        OBVIOUS
      <4>1. /\ Newer(book[k].incident, ask[p].seen)
            /\ book'[k].incident.revision = ask[p].seen.revision
        BY <2>1, <3>1, <3>2
      <4>2. book[k].incident.revision \in Nat /\ ask[p].seen.revision \in Nat
        BY <1>1, <1>6, <3>2 DEF Row
      <4> QED  BY <1>1, <4>1, <4>2 DEF Newer
    <3> QED  BY <1>1, <3>1, <3>2, <3>3
  <2>2. ASSUME NEW p \in Operators, ask'[p] # Null,
               book'[ask'[p].key].incident.revision = ask'[p].seen.revision
        PROVE  \A j \in DOMAIN book'[ask'[p].key].timeline :
                  book'[ask'[p].key].timeline[j].at <= ask'[p].at + ClockLag
    BY <2>1, <2>2 DEF PInv, AskedLast, Current
  <2> QED  BY <2>2 DEF AskedLast, Current
<1> QED  BY <1>8, <1>9, <1>10, <1>11, <1>12, <1>13 DEF PInv

-----------------------------------------------------------------------------
LEMMA NextPInv ==
    ASSUME RowLocks, PInv, [Next]_vars
    PROVE  PInv'
<1>1. LInv'
  BY NextLInv DEF PInv
<1>2. CASE UNCHANGED vars
  <2>1. /\ book' = book /\ draft' = draft /\ UNCHANGED operator
        /\ clock' = clock /\ stamp' = stamp
    BY <1>2 DEF vars, worker
  <2>2. clock \in Nat /\ \A w \in Workers : stamp[w] # Null => stamp[w] < clock
    BY DEF PInv, LInv, TypeOK, StampsPast
  <2> QED  BY <1>1, <2>1, <2>2, WorkerReads
<1>3. ASSUME NEW w \in Workers,
             \/ \E c \in Calls : Begin(w, c)
             \/ Stamp(w) \/ Skip(w) \/ InsertSignal(w) \/ ShareIncident(w) \/ File(w)
             \/ Commit(w) \/ Abort(w)
      PROVE  PInv'
  BY <1>1, <1>3, BeginTold, StampTold, InsertTold, FileTold, CommitTold
<1>4. ASSUME NEW o \in Operators,
             \/ Refresh(o)
             \/ \E k \in Keys, to \in {"acknowledged", "resolved"} : Request(o, k, to)
             \/ Accept(o) \/ Refuse(o) \/ Decide(o) \/ Drop(o)
      PROVE  PInv'
  BY <1>1, <1>4, RefreshTold, RequestTold, AcceptTold, GoneTold, DecideTold
<1> QED  BY <1>2, <1>3, <1>4 DEF Next

(* Every reachable state on PostgreSQL is as PInv says. *)
THEOREM DecisionInvariance ==
    ASSUME RowLocks PROVE Spec => []PInv
<1>1. PInv /\ [Next]_vars => PInv'
  BY NextPInv
<1> QED  BY InitPInv, <1>1, PTL DEF Spec

(* The columns and the timeline of an incident tell one story: revisions    *)
(* count the changes, the entries chain to the status, the owner is who the *)
(* last entry says, and a decision is stamped no earlier than what it       *)
(* decided about, up to the distance of two hosts' clocks                  *)
(* (record_incident_signals and transition_incident on PostgreSQL).        *)
THEOREM StoryTold ==
    ASSUME RowLocks
    PROVE  Spec => []TimelineTold
<1>1. PInv => TimelineTold
  BY DEF PInv, TimelineTold, BooksTold, Told, RevisionCounts, TimelineChains, OwnerDecided,
         DecisionsStampedLast, StampedLast
<1> QED  BY <1>1, DecisionInvariance, PTL

(* No operator's decision is written over anything the operator has not     *)
(* seen (transition_incident with the row locked FOR UPDATE).              *)
THEOREM InformedDecisions ==
    ASSUME RowLocks PROVE Spec => DecisionsInformed
<1> DEFINE Informed ==
       \A o \in Operators :
          read[o] # Null /\ book' # book /\ read'[o] = Null =>
              book[ask[o].key].incident = ask[o].seen
<1>1. PInv /\ [Next]_vars => [Informed]_vars
  BY DEF PInv, ReadHeld
<1> QED  BY <1>1, DecisionInvariance, PTL DEF Spec, DecisionsInformed

-----------------------------------------------------------------------------
(* On PostgreSQL the ledger is serializable: the committed tables change    *)
(* as IncidentHistory says, a whole call or one decision at a time.        *)

Notes == [action : Actions, actor : Operators \cup {Null},
          from : Statuses \cup {Null}, to : Statuses]

(* What the tale of a book says. *)
LEMMA TaleParts ==
    ASSUME NEW b, BookGood(b), Told(b)
    PROVE  /\ Tale(b) = [evidence |-> b.signals, timeline |-> Tale(b).timeline]
           /\ Tale(b).evidence = b.signals
           /\ Tale(b).timeline \in Seq(Notes)
           /\ History!Status(Tale(b)) = b.incident.status
<1> DEFINE t == b.timeline
           u == [j \in DOMAIN t |-> Untimed(t[j])]
<1>1. t \in Seq(Entry) /\ b.incident.status \in Statuses
  BY GoodRow DEF Row
<1>2. Tale(b) = [evidence |-> b.signals, timeline |-> u]
  BY DEF Tale
<1>3. /\ DOMAIN t = 1..Len(t) /\ Len(t) \in Nat /\ \A j \in DOMAIN t : t[j] \in Entry
      /\ t # <<>> => Len(t) \in DOMAIN t
      /\ t = <<>> => Len(t) = 0
  BY <1>1
<1>4. \A e \in Entry : Untimed(e) \in Notes /\ Untimed(e).to = e.to
  BY DEF Entry, Notes, Untimed
<1>5. /\ t = <<>> <=> b.incident.status = "absent"
      /\ t # <<>> => t[Len(t)].to = b.incident.status
  BY DEF Told, Chains
<1> HIDE DEF t
<1>6. u \in [1..Len(t) -> Notes]
  BY <1>3, <1>4
<1>7. u \in Seq(Notes) /\ Len(u) = Len(t)
  BY <1>3, <1>6, SeqDef
<1>8. u = <<>> <=> t = <<>>
  BY <1>1, <1>3, <1>7
<1>9. t # <<>> => u[Len(t)].to = t[Len(t)].to
  BY <1>3, <1>4
<1> HIDE DEF u
<1>10. History!Status(Tale(b)) = b.incident.status
  BY <1>2, <1>5, <1>7, <1>8, <1>9 DEF History!Status
<1> QED  BY <1>2, <1>7, <1>10

LEMMA TaleAppend ==
    ASSUME NEW t \in Seq(Entry), NEW e \in Entry
    PROVE  LET u == Append(t, e)
           IN [j \in DOMAIN u |-> Untimed(u[j])] =
              Append([j \in DOMAIN t |-> Untimed(t[j])], Untimed(e))
<1> DEFINE u == Append(t, e)
           v == [j \in DOMAIN t |-> Untimed(t[j])]
           w == [j \in DOMAIN u |-> Untimed(u[j])]
<1>1. /\ DOMAIN u = 1..(Len(t) + 1) /\ DOMAIN t = 1..Len(t) /\ Len(t) \in Nat
      /\ \A j \in 1..Len(t) : u[j] = t[j]
      /\ u[Len(t) + 1] = e
  BY AppendFacts
<1>2. \A d \in Entry : Untimed(d) \in Notes
  BY DEF Entry, Notes, Untimed
<1>3. \A j \in 1..Len(t) : t[j] \in Entry
  OBVIOUS
<1>4. v \in [1..Len(t) -> Notes]
  BY <1>1, <1>2, <1>3
<1>5. v \in Seq(Notes) /\ Len(v) = Len(t) /\ Untimed(e) \in Notes
  BY <1>1, <1>2, <1>4, SeqDef
<1>6. /\ Append(v, Untimed(e)) \in Seq(Notes)
      /\ Len(Append(v, Untimed(e))) = Len(t) + 1
      /\ \A j \in 1..Len(t) : Append(v, Untimed(e))[j] = v[j]
      /\ Append(v, Untimed(e))[Len(t) + 1] = Untimed(e)
  BY <1>5, AppendProperties
<1>7. \A j \in 1..(Len(t) + 1) : w[j] = Untimed(u[j])
  BY <1>1
<1>8. \A j \in 1..Len(t) : v[j] = Untimed(t[j])
  BY <1>1
<1>9. w \in [1..(Len(t) + 1) -> Notes]
  <2>1. \A j \in 1..(Len(t) + 1) : u[j] \in Entry
    BY <1>1, <1>3
  <2> QED  BY <1>1, <1>2, <2>1
<1>10. w \in Seq(Notes) /\ Len(w) = Len(t) + 1
  BY <1>1, <1>9, SeqDef
<1> HIDE DEF u, v, w
<1>11. \A j \in 1..(Len(t) + 1) : w[j] = Append(v, Untimed(e))[j]
  BY <1>1, <1>6, <1>7, <1>8
<1> QED  BY <1>6, <1>10, <1>11, SeqEqual DEF u, v, w

(* What a new signal adds to the tale: the evidence, and the entry that is  *)
(* due for it, if any.                                                     *)
LEMMA RecordTale ==
    ASSUME NEW b, BookGood(b), Told(b), NEW s \in Signals, NEW now \in Nat, ~Known(b, s)
    PROVE  LET c == Record(Insert(b, s), s, now)
               status == b.incident.status
               t == Tale(b).timeline
               raised == /\ s.severity = "critical" /\ status \notin {"absent", "resolved"}
                         /\ \A e \in b.signals : e.severity # "critical"
           IN /\ Tale(c) = [evidence |-> b.signals \cup {s}, timeline |-> Tale(c).timeline]
              /\ status = "absent" =>
                    Tale(c).timeline = Append(t, History!Note("opened", Null, Null, "open"))
              /\ status = "resolved" =>
                    Tale(c).timeline = Append(t, History!Note("reopened", Null, "resolved", "open"))
              /\ raised =>
                    Tale(c).timeline = Append(t, History!Note("escalated", Null, status, status))
              /\ ~raised /\ status \notin {"absent", "resolved"} => Tale(c).timeline = t
<1> DEFINE i == Insert(b, s).incident
           c == Record(Insert(b, s), s, now)
           act == TimelineAction(i, s)
           e == WorkerEntry(i, s, now)
           status == b.incident.status
           raised == /\ s.severity = "critical" /\ status \notin {"absent", "resolved"}
                     /\ \A x \in b.signals : x.severity # "critical"
<1>1. /\ i \in Row /\ i.status # "absent"
      /\ Insert(b, s).timeline = b.timeline /\ Insert(b, s).signals = b.signals
      /\ i.occurrences = b.incident.occurrences
      /\ status = "absent" => i.status = "open"
      /\ status # "absent" => i = b.incident
  BY InsertGood
<1>2. /\ c.signals = b.signals \cup {s}
      /\ c.timeline = IF act = "none" THEN b.timeline ELSE Append(b.timeline, e)
  BY <1>1 DEF Record
<1>3. /\ b.timeline \in Seq(Entry)
      /\ i.occurrences = 0 <=> status = "absent"
      /\ status \in Statuses /\ b.incident.severity \in Severities
  BY <1>1, GoodRow DEF Row
<1>4. act = IF status = "absent" THEN "opened"
            ELSE IF status = "resolved" THEN "reopened"
            ELSE IF raised THEN "escalated" ELSE "none"
  <2>1. b.incident.severity = "warning" <=> \A x \in b.signals : x.severity # "critical"
    <3>1. b.incident.severity = "critical" <=> \E x \in b.signals : x.severity = "critical"
      BY DEF BookGood, ShowsSeverity
    <3> QED  BY <1>3, <3>1 DEF Severities
  <2> HIDE DEF i
  <2>2. CASE status = "absent"
    BY <1>3, <2>2 DEF TimelineAction
  <2>3. CASE status # "absent"
    BY <1>1, <1>3, <2>1, <2>3 DEF TimelineAction
  <2> QED  BY <2>2, <2>3
<1>5. Update(i, s).status = IF act = "reopened" THEN "open" ELSE i.status
  BY <1>1, UpdateRow
<1>6. act # "none" => e \in Entry
  BY <1>1, WorkerEntryType
<1>7. Untimed(e) = History!Note(act, Null, IF status = "absent" THEN Null ELSE i.status,
                                Update(i, s).status)
  BY <1>3 DEF WorkerEntry, Untimed, History!Note
<1> HIDE DEF i, act, e
<1>8. /\ Tale(c) = [evidence |-> b.signals \cup {s}, timeline |-> Tale(c).timeline]
      /\ Tale(c).timeline = IF act = "none" THEN Tale(b).timeline
                            ELSE Append(Tale(b).timeline, Untimed(e))
  <2>1. CASE act = "none"
    BY <1>2, <2>1 DEF Tale
  <2>2. CASE act # "none"
    BY <1>2, <1>3, <1>6, <2>2, TaleAppend DEF Tale
  <2> QED  BY <2>1, <2>2
<1> HIDE DEF c
<1>9. CASE status = "absent"
  BY <1>1, <1>4, <1>5, <1>7, <1>8, <1>9 DEF c
<1>10. CASE status = "resolved"
  BY <1>1, <1>4, <1>5, <1>7, <1>8, <1>10 DEF c
<1>11. CASE raised
  BY <1>1, <1>4, <1>5, <1>7, <1>8, <1>11 DEF c
<1>12. CASE ~raised /\ status \notin {"absent", "resolved"}
  BY <1>1, <1>4, <1>5, <1>7, <1>8, <1>12 DEF c
<1> QED  BY <1>8, <1>9, <1>10, <1>11, <1>12 DEF c

(* The first n signals of a call have what the first n - 1 have, and the    *)
(* n-th if it is the first with its id.                                    *)
LEMMA NewNext ==
    ASSUME NEW b, NEW c, NEW n \in Nat \ {0}, NEW k
    PROVE  LET fresh == /\ c[n].key = k
                        /\ \A s \in b.evidence : s.id # c[n].id
                        /\ \A i \in 1..(n - 1) : c[i].id # c[n].id
           IN History!New(b, c, n, k) =
                 History!New(b, c, n - 1, k) \cup (IF fresh THEN {n} ELSE {})
<1>1. 1..n = 1..(n - 1) \cup {n}
  OBVIOUS
<1> QED  BY <1>1 DEF History!New

(* The parts of a tale with the first n signals of a call filed. *)
LEMMA FiledParts ==
    ASSUME NEW a, a.timeline \in Seq(Notes), History!Status(a) \in Statuses, NEW c, NEW new
    PROVE  /\ History!Opening(a, new) \in Seq(Notes)
           /\ History!Escalation(a, c, new) \in Seq(Notes)
           /\ a.timeline \o History!Opening(a, new) \in Seq(Notes)
           /\ ~History!Opens(a, new) =>
                 /\ History!Opening(a, new) = <<>>
                 /\ a.timeline \o History!Opening(a, new) = a.timeline
           /\ ~History!Raises(a, c, new) =>
                 a.timeline \o History!Opening(a, new) \o History!Escalation(a, c, new) =
                 a.timeline \o History!Opening(a, new)
           /\ \A x \in Notes : a.timeline \o <<x>> = Append(a.timeline, x)
           /\ \A x \in Notes : a.timeline \o History!Opening(a, new) \o <<x>> =
                               Append(a.timeline \o History!Opening(a, new), x)
<1> DEFINE o == History!Opening(a, new)
           e == History!Escalation(a, c, new)
           status == IF History!Opens(a, new) THEN "open" ELSE History!Status(a)
<1>1. \A x \in Notes : <<x>> \in Seq(Notes)
  OBVIOUS
<1>2. <<>> \in Seq(Notes)
  OBVIOUS
<1>3. /\ History!Note("opened", Null, Null, "open") \in Notes
      /\ History!Note("reopened", Null, "resolved", "open") \in Notes
      /\ History!Note("escalated", Null, status, status) \in Notes
  BY DEF History!Note, Notes, Actions, Statuses
<1>4. o \in Seq(Notes)
  <2>1. CASE History!Opens(a, new) /\ History!Status(a) = "absent"
    BY <2>1, <1>1, <1>3 DEF History!Opening
  <2>2. CASE History!Opens(a, new) /\ History!Status(a) = "resolved"
    BY <2>2, <1>1, <1>3 DEF History!Opening
  <2>3. CASE ~History!Opens(a, new)
    BY <2>3, <1>2 DEF History!Opening
  <2> QED  BY <2>1, <2>2, <2>3 DEF History!Opens
<1>5. e \in Seq(Notes)
  BY <1>1, <1>2, <1>3 DEF History!Escalation
<1>6. ~History!Opens(a, new) => o = <<>>
  BY DEF History!Opening
<1>7. ~History!Raises(a, c, new) => e = <<>>
  BY DEF History!Escalation
<1> HIDE DEF o, e
<1>8. a.timeline \o o \in Seq(Notes)
  BY <1>4, ConcatProperties
<1>9. o = <<>> => a.timeline \o o = a.timeline
  BY ConcatEmptySeq
<1>10. e = <<>> => a.timeline \o o \o e = a.timeline \o o
  BY <1>8, ConcatEmptySeq
<1>11. \A x \in Notes : a.timeline \o o \o <<x>> = Append(a.timeline \o o, x)
  BY <1>8, AppendIsConcat
<1>12. \A x \in Notes : a.timeline \o <<x>> = Append(a.timeline, x)
  BY AppendIsConcat
<1> QED  BY <1>4, <1>5, <1>6, <1>7, <1>8, <1>9, <1>10, <1>11, <1>12 DEF o, e

(* A signal that is on record already changes nothing; a call files nothing *)
(* before its first signal.                                                *)
LEMMA FiledNothing ==
    ASSUME NEW a, BookGood(a), Told(a), NEW c, NEW n, NEW k, History!New(Tale(a), c, n, k) = {}
    PROVE  History!Filed(Tale(a), c, n, k) = Tale(a)
<1> DEFINE A == Tale(a)
<1>1. /\ A = [evidence |-> A.evidence, timeline |-> A.timeline]
      /\ A.timeline \in Seq(Notes) /\ History!Status(A) \in Statuses
  <2>1. /\ A = [evidence |-> a.signals, timeline |-> A.timeline] /\ A.evidence = a.signals
        /\ A.timeline \in Seq(Notes) /\ History!Status(A) = a.incident.status
    BY TaleParts
  <2>2. a.incident.status \in Statuses
    BY GoodRow DEF Row
  <2> QED  BY <2>1, <2>2
<1> HIDE DEF A
<1>2. ~History!Opens(A, {}) /\ ~History!Raises(A, c, {})
  BY DEF History!Opens, History!Raises, History!Later
<1>3. A.timeline \o History!Opening(A, {}) \o History!Escalation(A, c, {}) = A.timeline
  <2>1. A.timeline \in Seq(Notes) /\ History!Status(A) \in Statuses
    BY <1>1
  <2>2. /\ A.timeline \o History!Opening(A, {}) = A.timeline
        /\ A.timeline \o History!Opening(A, {}) \o History!Escalation(A, c, {}) =
           A.timeline \o History!Opening(A, {})
    BY ONLY <1>2, <2>1, FiledParts
  <2> QED  BY <2>2
<1>4. History!Filed(A, c, n, k) = [evidence |-> A.evidence \cup {c[j] : j \in {}},
                                    timeline |-> A.timeline]
  BY <1>3 DEF History!Filed, A
<1> QED  BY <1>1, <1>4 DEF A

LEMMA FiledSame ==
    ASSUME NEW a, NEW c, NEW m, NEW n, NEW k, History!New(a, c, m, k) = History!New(a, c, n, k)
    PROVE  History!Filed(a, c, m, k) = History!Filed(a, c, n, k)
BY DEF History!Filed

Quiet(a, c, new) == \A s \in a.evidence \cup {c[j] : j \in new} : ~History!Critical(s)

(* What one more new signal changes in the parts of Filed. *)
LEMMA OneMore ==
    ASSUME NEW a, NEW c, NEW n \in Nat \ {0}, NEW old \in SUBSET (1..(n - 1))
    PROVE  LET new == old \cup {n}
               plain == \A s \in a.evidence : ~History!Critical(s)
               starts == History!Status(a) \in {"absent", "resolved"}
           IN /\ old = {} =>
                    /\ History!Opens(a, new) <=> starts
                    /\ History!Raises(a, c, new) <=> ~starts /\ plain /\ History!Critical(c[n])
                    /\ ~History!Opens(a, old) /\ ~History!Raises(a, c, old)
              /\ old # {} =>
                    /\ History!Opens(a, new) = History!Opens(a, old)
                    /\ History!Opening(a, new) = History!Opening(a, old)
                    /\ History!Raises(a, c, old) => History!Raises(a, c, new)
                    /\ History!Raises(a, c, old) =>
                          ~Quiet(a, c, old)
                    /\ ~History!Raises(a, c, old) =>
                          (History!Raises(a, c, new) <=>
                             /\ History!Critical(c[n])
                             /\ Quiet(a, c, old))
<1> DEFINE new == old \cup {n}
           plain == \A s \in a.evidence : ~History!Critical(s)
           starts == History!Status(a) \in {"absent", "resolved"}
           before == History!Later(a, old)
           after == History!Later(a, new)
<1>1. n \notin old /\ \A j \in old : j \in Nat /\ j < n
  OBVIOUS
<1>2. /\ History!Opens(a, new) <=> starts
      /\ History!Opens(a, old) <=> starts /\ old # {}
  BY DEF History!Opens
<1>3. /\ before = IF starts THEN {j \in old : \E i \in old : i < j} ELSE old
      /\ after = IF starts THEN {j \in new : \E i \in new : i < j} ELSE new
  BY <1>2 DEF History!Later
<1>4. /\ History!Raises(a, c, old) <=>
            /\ \E j \in before : History!Critical(c[j])
            /\ \A j \in old \ before : ~History!Critical(c[j])
            /\ plain
      /\ History!Raises(a, c, new) <=>
            /\ \E j \in after : History!Critical(c[j])
            /\ \A j \in new \ after : ~History!Critical(c[j])
            /\ plain
  BY DEF History!Raises
<1> HIDE DEF before, after, starts, plain
<1>5. CASE old = {}
  <2>1. before = {} /\ after = IF starts THEN {} ELSE {n}
    <3>1. new = {n}
      BY <1>5
    <3> QED  BY <1>3, <1>5, <3>1
  <2>2. ~starts => new \ after = {}
    BY <1>5, <2>1
  <2> QED  BY <1>2, <1>4, <1>5, <2>1, <2>2 DEF starts, plain
<1>6. CASE old # {}
  <2>1. after = before \cup {n}
    <3>1. \E i \in old : i < n
      BY <1>1, <1>6
    <3>2. ASSUME NEW j \in old PROVE ~(n < j)
      BY <1>1
    <3>3. ASSUME NEW j \in old PROVE (\E i \in new : i < j) <=> (\E i \in old : i < j)
      BY <3>2
    <3> QED  BY <1>3, <3>1, <3>3
  <2>2. new \ after = old \ before /\ before \subseteq old
    <3>1. n \notin before
      BY <1>1, <1>3
    <3> QED  BY <1>1, <1>3, <2>1
  <2>3. Quiet(a, c, old) <=>
            /\ plain
            /\ \A j \in before : ~History!Critical(c[j])
            /\ \A j \in old \ before : ~History!Critical(c[j])
    BY <2>2 DEF plain, Quiet
  <2>4. History!Opens(a, new) = History!Opens(a, old)
    BY <1>2, <1>6 DEF History!Opens
  <2>5. History!Opening(a, new) = History!Opening(a, old)
    BY <2>4 DEF History!Opening
  <2> HIDE DEF new
  <2> QED  BY <1>4, <1>6, <2>1, <2>2, <2>3, <2>4, <2>5 DEF new
<1> QED  BY <1>5, <1>6

(* An incident opened by the call is open, any other keeps its status. *)
LEMMA FiledStatus ==
    ASSUME NEW a, a.timeline \in Seq(Notes), History!Status(a) \in Statuses, NEW c, NEW new,
           NEW f, f.timeline = a.timeline \o History!Opening(a, new) \o History!Escalation(a, c, new)
    PROVE  History!Status(f) = IF History!Opens(a, new) THEN "open" ELSE History!Status(a)
<1> DEFINE status == IF History!Opens(a, new) THEN "open" ELSE History!Status(a)
           w == a.timeline \o History!Opening(a, new)
<1>1. ASSUME NEW t \in Seq(Notes), NEW x \in Notes, NEW g, g.timeline = Append(t, x)
      PROVE  History!Status(g) = x.to
  <2>1. /\ Append(t, x) # <<>>
        /\ Append(t, x)[Len(Append(t, x))] = x
    BY AppendProperties
  <2> QED  BY <1>1, <2>1 DEF History!Status
<1>2. /\ History!Note("opened", Null, Null, "open") \in Notes
      /\ History!Note("opened", Null, Null, "open").to = "open"
      /\ History!Note("reopened", Null, "resolved", "open") \in Notes
      /\ History!Note("reopened", Null, "resolved", "open").to = "open"
      /\ History!Note("escalated", Null, status, status) \in Notes
      /\ History!Note("escalated", Null, status, status).to = status
  BY DEF History!Note, Notes, Actions, Statuses
<1>3. CASE History!Raises(a, c, new)
  <2>1. f.timeline = Append(w, History!Note("escalated", Null, status, status)) /\ w \in Seq(Notes)
    BY <1>2, <1>3, FiledParts DEF History!Escalation
  <2> QED  BY <1>1, <1>2, <2>1
<1>4. CASE ~History!Raises(a, c, new) /\ History!Opens(a, new)
  <2>1. f.timeline = w
    BY <1>4, FiledParts
  <2>2. CASE History!Status(a) = "absent"
    <3>1. w = Append(a.timeline, History!Note("opened", Null, Null, "open"))
      BY <1>2, <1>4, <2>2, FiledParts DEF History!Opening
    <3> QED  BY <1>1, <1>2, <1>4, <2>1, <3>1
  <2>3. CASE History!Status(a) = "resolved"
    <3>1. w = Append(a.timeline, History!Note("reopened", Null, "resolved", "open"))
      BY <1>2, <1>4, <2>3, FiledParts DEF History!Opening
    <3> QED  BY <1>1, <1>2, <1>4, <2>1, <3>1
  <2> QED  BY <1>4, <2>2, <2>3 DEF History!Opens
<1>5. CASE ~History!Raises(a, c, new) /\ ~History!Opens(a, new)
  <2>1. f.timeline = a.timeline
    BY <1>5, FiledParts
  <2> QED  BY <1>5, <2>1 DEF History!Status
<1> QED  BY <1>3, <1>4, <1>5

(* The draft b of a transaction that has filed the first n - 1 signals of   *)
(* its call on the book a, and files the n-th.                             *)
LEMMA FiledOneMore ==
    ASSUME NEW a, BookGood(a), Told(a), NEW b, BookGood(b), Told(b),
           NEW c, NEW n \in Nat \ {0}, NEW k,
           Tale(b) = History!Filed(Tale(a), c, n - 1, k),
           c[n] \in Signals, c[n].key = k, ~Known(b, c[n]),
           \A i \in 1..(n - 1) : c[i].id # c[n].id,
           NEW now \in Nat
    PROVE  Tale(Record(Insert(b, c[n]), c[n], now)) = History!Filed(Tale(a), c, n, k)
<1> DEFINE A == Tale(a)
           s == c[n]
           d == Tale(Record(Insert(b, s), s, now))
           old == History!New(A, c, n - 1, k)
           new == old \cup {n}
           t == A.timeline \o History!Opening(A, old) \o History!Escalation(A, c, old)
           u == A.timeline \o History!Opening(A, new) \o History!Escalation(A, c, new)
           status == b.incident.status
           plain == \A e \in b.signals : ~History!Critical(e)
           raised == /\ s.severity = "critical" /\ status \notin {"absent", "resolved"}
                     /\ \A e \in b.signals : e.severity # "critical"
           grown(v) == Append(Tale(b).timeline, v)
<1>1. /\ A.timeline \in Seq(Notes) /\ History!Status(A) \in Statuses
      /\ History!Status(A) = a.incident.status
      /\ A.evidence = a.signals
  BY TaleParts, GoodRow DEF Row
<1>2. /\ Tale(b).evidence = A.evidence \cup {c[j] : j \in old}
      /\ Tale(b).timeline = t
  <2>1. Tale(b) = [evidence |-> A.evidence \cup {c[j] : j \in old}, timeline |-> t]
    BY DEF History!Filed
  <2> HIDE DEF A, old, t
  <2> QED  BY <2>1
<1>3. /\ Tale(b).evidence = b.signals /\ History!Status(Tale(b)) = status
      /\ status \in Statuses
  BY TaleParts, GoodRow DEF Row
<1>4. old \in SUBSET (1..(n - 1)) /\ new # {}
  BY DEF History!New
<1>5. History!New(A, c, n, k) = new
  <2>1. \A x \in A.evidence : x.id # s.id
    BY <1>2, <1>3 DEF Known
  <2> QED  BY <2>1, NewNext
<1>6. History!Filed(A, c, n, k) = [evidence |-> A.evidence \cup {c[j] : j \in new}, timeline |-> u]
  BY <1>5 DEF History!Filed
<1>7. A.evidence \cup {c[j] : j \in new} = b.signals \cup {s}
  BY <1>2, <1>3
<1>8. /\ d = [evidence |-> b.signals \cup {s}, timeline |-> d.timeline]
      /\ status = "absent" => d.timeline = grown(History!Note("opened", Null, Null, "open"))
      /\ status = "resolved" =>
            d.timeline = grown(History!Note("reopened", Null, "resolved", "open"))
      /\ raised => d.timeline = grown(History!Note("escalated", Null, status, status))
      /\ ~raised /\ status \notin {"absent", "resolved"} => d.timeline = Tale(b).timeline
  BY RecordTale
<1>9. raised <=> /\ History!Critical(s) /\ plain /\ status \notin {"absent", "resolved"}
  BY DEF History!Critical
<1>10. \A x \in {"opened", "reopened", "escalated"} :
          \A from \in Statuses \cup {Null}, to \in Statuses : History!Note(x, Null, from, to) \in Notes
  BY DEF History!Note, Notes, Actions
<1> HIDE DEF A, s, d, old, new, status, plain, raised
<1>11. status = IF History!Opens(A, old) THEN "open" ELSE History!Status(A)
  <2>1. A.timeline \in Seq(Notes) /\ History!Status(A) \in Statuses
    BY <1>1
  <2>2. Tale(b).timeline = A.timeline \o History!Opening(A, old) \o History!Escalation(A, c, old)
    BY <1>2
  <2>3. History!Status(Tale(b)) = IF History!Opens(A, old) THEN "open" ELSE History!Status(A)
    BY ONLY <2>1, <2>2, FiledStatus
  <2> QED  BY <1>3, <2>3
<1> DEFINE w == A.timeline \o History!Opening(A, new)
<1>12. A.timeline \in Seq(Notes) /\ History!Status(A) \in Statuses
  BY <1>1
<1>13. /\ ~History!Raises(A, c, new) => u = w
       /\ ~History!Opens(A, new) => w = A.timeline
       /\ \A x \in Notes : A.timeline \o <<x>> = Append(A.timeline, x)
       /\ \A x \in Notes : w \o <<x>> = Append(w, x)
  BY ONLY <1>12, FiledParts
<1>14. /\ ~History!Raises(A, c, old) => t = A.timeline \o History!Opening(A, old)
       /\ ~History!Opens(A, old) => A.timeline \o History!Opening(A, old) = A.timeline
  BY ONLY <1>12, FiledParts
<1>15. u = w \o History!Escalation(A, c, new)
  OBVIOUS
<1>16. d.timeline = u
  <2>1. CASE old = {}
    <3>1. /\ ~History!Opens(A, old) /\ ~History!Raises(A, c, old)
          /\ History!Opens(A, new) <=> status \in {"absent", "resolved"}
          /\ History!Raises(A, c, new) <=>
                /\ status \notin {"absent", "resolved"} /\ plain /\ History!Critical(s)
      <4>1. b.signals = A.evidence
        BY <1>2, <1>3, <2>1
      <4>2. status = History!Status(A)
        BY <1>11, <2>1 DEF History!Opens
      <4>3. plain <=> \A e \in A.evidence : ~History!Critical(e)
        BY <4>1 DEF plain
      <4> QED  BY <1>4, <2>1, <4>2, <4>3, OneMore DEF s, new
    <3>2. Tale(b).timeline = A.timeline /\ status = History!Status(A)
      BY <1>2, <1>11, <1>14, <3>1
    <3> HIDE DEF A, s, d, old, new, status, plain, raised, t, u, w
    <3>3. CASE status = "absent"
      <4>1. History!Opening(A, new) = <<History!Note("opened", Null, Null, "open")>>
        BY <3>1, <3>2, <3>3 DEF History!Opening
      <4>2. u = Append(A.timeline, History!Note("opened", Null, Null, "open"))
        BY <1>10, <1>13, <3>1, <3>3, <4>1 DEF w, Statuses
      <4> QED  BY <1>8, <3>2, <3>3, <4>2
    <3>4. CASE status = "resolved"
      <4>1. History!Opening(A, new) = <<History!Note("reopened", Null, "resolved", "open")>>
        BY <3>1, <3>2, <3>4 DEF History!Opening
      <4>2. u = Append(A.timeline, History!Note("reopened", Null, "resolved", "open"))
        BY <1>10, <1>13, <3>1, <3>4, <4>1 DEF w, Statuses
      <4> QED  BY <1>8, <3>2, <3>4, <4>2
    <3>5. CASE raised
      <4>1. History!Escalation(A, c, new) = <<History!Note("escalated", Null, status, status)>>
        BY <1>9, <3>1, <3>2, <3>5 DEF History!Escalation
      <4>2. u = Append(w, History!Note("escalated", Null, status, status)) /\ w = A.timeline
        BY <1>3, <1>9, <1>10, <1>13, <1>15, <3>1, <3>5, <4>1
      <4> QED  BY <1>8, <3>2, <3>5, <4>2
    <3>6. CASE ~raised /\ status \notin {"absent", "resolved"}
      BY <1>8, <1>9, <1>13, <3>1, <3>2, <3>6
    <3> QED  BY <3>3, <3>4, <3>5, <3>6
  <2>2. CASE old # {}
    <3>1. /\ History!Opens(A, new) = History!Opens(A, old)
          /\ History!Opening(A, new) = History!Opening(A, old)
          /\ History!Raises(A, c, old) => History!Raises(A, c, new) /\ ~plain
          /\ ~History!Raises(A, c, old) =>
                (History!Raises(A, c, new) <=> History!Critical(s) /\ plain)
      <4>1. b.signals = A.evidence \cup {c[j] : j \in old}
        BY <1>2, <1>3
      <4>2. plain <=> Quiet(A, c, old)
        BY <4>1 DEF plain, Quiet
      <4> QED  BY <1>4, <2>2, <4>2, OneMore DEF s, new
    <3>2. status \notin {"absent", "resolved"}
      BY <1>11, <2>2 DEF History!Opens
    <3>3. History!Escalation(A, c, new) =
             IF History!Raises(A, c, new) THEN <<History!Note("escalated", Null, status, status)>> ELSE <<>>
      BY <1>11, <3>1 DEF History!Escalation
    <3>4. t = w \o History!Escalation(A, c, old)
      BY <3>1
    <3>5. ~History!Raises(A, c, old) => t = w
      BY <1>14, <3>1
    <3> HIDE DEF A, s, d, old, new, status, plain, raised, t, u, w
    <3>6. CASE History!Raises(A, c, old)
      <4>1. History!Escalation(A, c, new) = History!Escalation(A, c, old)
        BY <3>1, <3>6 DEF History!Escalation
      <4> QED  BY <1>2, <1>8, <1>9, <1>15, <3>1, <3>2, <3>4, <3>6, <4>1
    <3>7. CASE ~History!Raises(A, c, old) /\ raised
      <4>1. u = Append(w, History!Note("escalated", Null, status, status))
        BY <1>3, <1>9, <1>10, <1>13, <1>15, <3>1, <3>3, <3>7
      <4> QED  BY <1>2, <1>8, <3>5, <3>7, <4>1
    <3>8. CASE ~History!Raises(A, c, old) /\ ~raised
      BY <1>2, <1>8, <1>9, <1>13, <3>1, <3>2, <3>5, <3>8
    <3> QED  BY <3>6, <3>7, <3>8
  <2> QED  BY <2>1, <2>2
<1> HIDE DEF A, s, d, new, u
<1> QED  BY <1>6, <1>7, <1>8, <1>16 DEF A, s, d

-----------------------------------------------------------------------------
(* What a transaction has drafted is the committed story with the signals   *)
(* filed that it has been through.                                         *)
Follows ==
    \A w \in Workers :
        /\ call[w] = Null => DOMAIN draft[w] = {}
        /\ call[w] # Null => next[w] <= Len(call[w]) + 1
        /\ \A k \in DOMAIN draft[w] :
              Tale(draft[w][k]) = History!Filed(Tale(book[k]), call[w], next[w] - 1, k)

HInv == WInv /\ PInv /\ Follows

LEMMA InitHInv == Init => HInv
<1> SUFFICES ASSUME Init PROVE HInv
  OBVIOUS
<1>1. \A w \in Workers : DOMAIN draft[w] = {} /\ call[w] = Null
  BY DEF Init, NoDraft
<1> QED  BY <1>1, InitWInv, InitPInv DEF HInv, Follows

(* A book that a transaction has not locked has the evidence of all signals *)
(* for it that the transaction has been through.                           *)
LEMMA BehindOld ==
    ASSUME HInv, NEW w \in Workers, call[w] # Null, NEW k \in Keys, k \notin DOMAIN draft[w]
    PROVE  /\ History!New(Tale(book[k]), call[w], next[w] - 1, k) = {}
           /\ History!Filed(Tale(book[k]), call[w], next[w] - 1, k) = Tale(book[k])
<1>1. /\ BookGood(book[k]) /\ Told(book[k])
      /\ Tale(book[k]).evidence = book[k].signals
  BY TaleParts DEF HInv, PInv, LInv, BooksGood, BooksTold
<1>2. /\ DOMAIN call[w] = 1..Len(call[w]) /\ Len(call[w]) \in Nat
      /\ next[w] \in Nat \ {0} /\ next[w] <= Len(call[w]) + 1
  BY CallSignal DEF HInv, PInv, LInv, TypeOK, Follows
<1>3. ASSUME NEW j \in 1..(next[w] - 1), call[w][j].key = k
      PROVE  \E t \in book[k].signals : t.id = call[w][j].id
  <2>1. j \in DOMAIN call[w] /\ j < next[w]
    BY <1>2
  <2>2. Known(Visible(w, k), call[w][j])
    BY <1>3, <2>1 DEF HInv, WInv, Progress, BehindKnown
  <2> QED  BY <2>2 DEF Visible, Known
<1>4. History!New(Tale(book[k]), call[w], next[w] - 1, k) = {}
  BY <1>1, <1>3 DEF History!New
<1> QED  BY <1>1, <1>4, FiledNothing

(* A worker that does not move, with nobody touching the books it locks. *)
LEMMA FollowsStays ==
    ASSUME HInv, NEW w \in Workers, call'[w] = call[w], next'[w] = next[w], draft'[w] = draft[w],
           \A k \in DOMAIN draft[w] : book'[k] = book[k]
    PROVE  /\ call'[w] = Null => DOMAIN draft'[w] = {}
           /\ call'[w] # Null => next'[w] <= Len(call'[w]) + 1
           /\ \A k \in DOMAIN draft'[w] :
                 Tale(draft'[w][k]) = History!Filed(Tale(book'[k]), call'[w], next'[w] - 1, k)
BY DEF HInv, Follows

LEMMA QuietFollows ==
    ASSUME HInv, book' = book, draft' = draft, call' = call, next' = next
    PROVE  Follows'
BY FollowsStays DEF Follows

LEMMA BeginFollows ==
    ASSUME HInv, NEW w \in Workers, NEW c \in Calls, Begin(w, c)
    PROVE  Follows'
<1>1. /\ call[w] = Null /\ call' = [call EXCEPT ![w] = c]
      /\ book' = book /\ draft' = draft /\ next' = next
  BY DEF Begin
<1>2. /\ call'[w] = c /\ c # Null /\ next[w] = 1 /\ DOMAIN draft[w] = {}
      /\ \A v \in Workers \ {w} : call'[v] = call[v]
  BY <1>1, NullApart DEF HInv, WInv, LInv, TypeOK, Progress, Follows
<1>3. c \in Seq(Signals) /\ Len(c) \in Nat
  BY ConstantsAssumption
<1>4. ASSUME NEW v \in Workers
      PROVE  /\ call'[v] = Null => DOMAIN draft'[v] = {}
             /\ call'[v] # Null => next'[v] <= Len(call'[v]) + 1
             /\ \A k \in DOMAIN draft'[v] :
                   Tale(draft'[v][k]) = History!Filed(Tale(book'[k]), call'[v], next'[v] - 1, k)
  <2>1. CASE v = w
    BY <1>1, <1>2, <1>3, <2>1
  <2>2. CASE v # w
    BY <1>1, <1>2, <2>2, FollowsStays
  <2> QED  BY <2>1, <2>2
<1> QED  BY <1>4 DEF Follows

(* The worker w moves on, its drafts in step with its place in the call. *)
LEMMA MoveFollows ==
    ASSUME HInv, NEW w \in Workers, Recording(w), Advance(w), book' = book, call' = call,
           \A v \in Workers \ {w} : draft'[v] = draft[v],
           \A k \in DOMAIN draft'[w] :
              Tale(draft'[w][k]) = History!Filed(Tale(book[k]), call[w], next[w], k)
    PROVE  Follows'
<1>1. /\ call[w] # Null /\ next[w] \in Nat \ {0} /\ next[w] <= Len(call[w])
      /\ Len(call[w]) \in Nat
      /\ next'[w] = next[w] + 1 /\ \A v \in Workers \ {w} : next'[v] = next[v]
  BY CallSignal DEF Recording, Advance, HInv, PInv, LInv, TypeOK
<1>2. next'[w] - 1 = next[w] /\ next'[w] <= Len(call[w]) + 1
  BY <1>1
<1>3. ASSUME NEW v \in Workers
      PROVE  /\ call'[v] = Null => DOMAIN draft'[v] = {}
             /\ call'[v] # Null => next'[v] <= Len(call'[v]) + 1
             /\ \A k \in DOMAIN draft'[v] :
                   Tale(draft'[v][k]) = History!Filed(Tale(book'[k]), call'[v], next'[v] - 1, k)
  <2>1. CASE v = w
    BY <1>1, <1>2, <2>1
  <2>2. CASE v # w
    BY <1>1, <2>2, FollowsStays
  <2> QED  BY <2>1, <2>2
<1> QED  BY <1>3 DEF Follows

(* Where the n-th signal is not new, the n-th adds nothing. *)
LEMMA OldSignal ==
    ASSUME HInv, NEW w \in Workers, Recording(w), NEW k \in DOMAIN draft[w],
           LET s == Signal(w)
           IN s.key = k => Known(book[k], s) \/ Known(draft[w][k], s)
    PROVE  History!Filed(Tale(book[k]), call[w], next[w], k) = Tale(draft[w][k])
<1> DEFINE s == Signal(w)
           n == next[w]
           A == Tale(book[k])
<1>1. k \in Keys /\ n \in Nat \ {0} /\ call[w][n] = s
  BY DEF Signal, HInv, PInv, LInv, TypeOK
<1>2. /\ BookGood(book[k]) /\ Told(book[k]) /\ BookGood(draft[w][k]) /\ Told(draft[w][k])
  BY <1>1 DEF HInv, PInv, LInv, BooksGood, DraftsGood, BooksTold
<1>3. A.evidence = book[k].signals /\ Tale(draft[w][k]).evidence = draft[w][k].signals
  BY <1>2, TaleParts
<1>4. Tale(draft[w][k]) = History!Filed(A, call[w], n - 1, k)
  BY DEF HInv, Follows
<1> DEFINE old == History!New(A, call[w], n - 1, k)
<1>5. draft[w][k].signals = A.evidence \cup {call[w][j] : j \in old}
  <2> HIDE DEF A
  <2>1. History!Filed(A, call[w], n - 1, k).evidence = A.evidence \cup {call[w][j] : j \in old}
    BY DEF History!Filed
  <2> QED  BY <1>3, <1>4, <2>1
<1>6. old \subseteq 1..(n - 1)
  BY DEF History!New
<1>7. ~(/\ call[w][n].key = k
        /\ \A t \in A.evidence : t.id # call[w][n].id
        /\ \A i \in 1..(n - 1) : call[w][i].id # call[w][n].id)
  BY <1>1, <1>3, <1>5, <1>6 DEF Known
<1> DEFINE fresh == /\ call[w][n].key = k
                    /\ \A t \in A.evidence : t.id # call[w][n].id
                    /\ \A i \in 1..(n - 1) : call[w][i].id # call[w][n].id
<1> HIDE DEF A, n, s
<1>8. History!New(A, call[w], n, k) = old
  <2>1. History!New(A, call[w], n, k) = old \cup (IF fresh THEN {n} ELSE {})
    BY <1>1, NewNext
  <2> QED  BY <1>7, <2>1
<1>9. History!Filed(A, call[w], n, k) = History!Filed(A, call[w], n - 1, k)
  BY <1>8, FiledSame
<1> QED  BY <1>4, <1>9 DEF A, n

LEMMA SkipFollows ==
    ASSUME RowLocks, HInv, NEW w \in Workers, Skip(w)
    PROVE  Follows'
<1>1. /\ Recording(w) /\ Advance(w) /\ book' = book /\ call' = call
      /\ Known(Visible(w, Signal(w).key), Signal(w))
  BY DEF Skip
<1>2. draft' = draft
  BY LocksEffect DEF HInv, PInv
<1>3. ASSUME NEW k \in DOMAIN draft[w]
      PROVE  Tale(draft[w][k]) = History!Filed(Tale(book[k]), call[w], next[w], k)
  <2>1. Signal(w).key = k => Known(draft[w][k], Signal(w))
    BY <1>1 DEF Visible
  <2> QED  BY <1>1, <2>1, OldSignal
<1> QED  BY <1>1, <1>2, <1>3, MoveFollows

LEMMA FileFollows ==
    ASSUME RowLocks, HInv, NEW w \in Workers, File(w)
    PROVE  Follows'
<1> DEFINE s == Signal(w)
           n == next[w]
           c == call[w]
<1>1. /\ Recording(w) /\ Advance(w) /\ book' = book /\ call' = call
  BY HolderFacts DEF File, HInv, PInv
<1>2. /\ s \in Signals /\ s.key \in Keys /\ stamp[w] \in Nat
      /\ BookGood(Seen(w)) /\ ~Known(Seen(w), s)
      /\ \A v \in Workers \ {w} : draft'[v] = draft[v]
      /\ DOMAIN draft'[w] = DOMAIN draft[w] \cup {s.key}
      /\ draft'[w][s.key] = Record(Insert(Seen(w), s), s, stamp[w])
      /\ \A k \in DOMAIN draft'[w] \ {s.key} :
            draft'[w][k] = IF k \in DOMAIN draft[w] THEN draft[w][k] ELSE book[k]
  BY FileEffect DEF HInv, PInv
<1>4. n \in Nat \ {0} /\ c[n] = s /\ c # Null /\ DOMAIN c = 1..Len(c) /\ Len(c) \in Nat
      /\ n <= Len(c)
  BY <1>1, CallSignal DEF Recording, Signal, HInv, PInv, LInv, TypeOK
<1>5. /\ BookGood(book[s.key]) /\ Told(book[s.key]) /\ Told(Seen(w))
      /\ Tale(Seen(w)) = History!Filed(Tale(book[s.key]), c, n - 1, s.key)
  <2>1. BookGood(book[s.key]) /\ Told(book[s.key])
    BY <1>2 DEF HInv, PInv, LInv, BooksGood, BooksTold
  <2>2. CASE s.key \in DOMAIN draft[w]
    BY <2>1, <2>2 DEF HInv, PInv, BooksTold, Follows, Seen, Visible
  <2>3. CASE s.key \notin DOMAIN draft[w]
    <3>1. Seen(w) = book[s.key]
      BY <2>3 DEF Seen, Visible
    <3> QED  BY <1>2, <1>4, <2>1, <2>3, <3>1, BehindOld
  <2> QED  BY <2>2, <2>3
<1>6. ASSUME NEW i \in 1..(n - 1) PROVE c[i].id # s.id
  <2> SUFFICES ASSUME c[i].id = s.id PROVE FALSE
    OBVIOUS
  <2>1. i \in DOMAIN c /\ i < n
    BY <1>4
  <2>2. c[i].key = s.key
    BY <1>2, <1>4, <2>1, CallSignal, SignalsAssumption DEF HInv, PInv, LInv
  <2>3. Known(Visible(w, c[i].key), c[i])
    BY <1>4, <2>1 DEF HInv, WInv, Progress, BehindKnown
  <2> QED  BY <1>2, <2>2, <2>3 DEF Known, Seen
<1> HIDE DEF s, n, c
<1>7. Tale(draft'[w][s.key]) = History!Filed(Tale(book[s.key]), c, n, s.key)
  BY <1>2, <1>4, <1>5, <1>6, FiledOneMore
<1>8. ASSUME NEW k \in DOMAIN draft'[w]
      PROVE  Tale(draft'[w][k]) = History!Filed(Tale(book[k]), c, n, k)
  <2>1. CASE k = s.key
    BY <1>7, <2>1
  <2>2. CASE k # s.key
    <3>1. k \in DOMAIN draft[w] /\ draft'[w][k] = draft[w][k]
      BY <1>2, <2>2
    <3> QED  BY <1>1, <2>2, <3>1, OldSignal DEF s, n, c
  <2> QED  BY <2>1, <2>2
<1> QED  BY <1>1, <1>2, <1>8, MoveFollows DEF n, c

(* A transaction ends, and what it locked is let go. *)
LEMMA GoneFollows ==
    ASSUME HInv, NEW w \in Workers, Commit(w) \/ Abort(w)
    PROVE  Follows'
<1>1. /\ DOMAIN draft'[w] = {} /\ \A v \in Workers \ {w} : draft'[v] = draft[v]
  BY HangupEffect DEF Commit, Abort, HInv, PInv, LInv
<1>2. /\ call'[w] = Null
      /\ \A v \in Workers \ {w} : call'[v] = call[v] /\ next'[v] = next[v]
  BY DEF Commit, Abort, Hangup, HInv, PInv, LInv, TypeOK
<1>3. \A k \in Keys \ DOMAIN draft[w] : book'[k] = book[k]
  BY DEF Commit, Abort
<1>4. ASSUME NEW v \in Workers
      PROVE  /\ call'[v] = Null => DOMAIN draft'[v] = {}
             /\ call'[v] # Null => next'[v] <= Len(call'[v]) + 1
             /\ \A k \in DOMAIN draft'[v] :
                   Tale(draft'[v][k]) = History!Filed(Tale(book'[k]), call'[v], next'[v] - 1, k)
  <2>1. CASE v = w
    BY <1>1, <1>2, <2>1
  <2>2. CASE v # w
    <3>1. \A k \in DOMAIN draft[v] : book'[k] = book[k]
      BY <1>3, <2>2 DEF HInv, PInv, LInv, TypeOK, DraftsApart
    <3> QED  BY <1>1, <1>2, <2>2, <3>1, FollowsStays
  <2> QED  BY <2>1, <2>2
<1> QED  BY <1>4 DEF Follows

LEMMA DecideFollows ==
    ASSUME HInv, NEW o \in Operators, Decide(o)
    PROVE  Follows'
<1>1. \A w \in Workers : \A k \in DOMAIN draft[w] : book'[k] = book[k]
  BY DecideFinds DEF HInv, PInv, LInv, TypeOK
<1>2. draft' = draft /\ call' = call /\ next' = next
  BY DEF Decide, worker
<1> QED  BY <1>1, <1>2, FollowsStays DEF Follows

LEMMA NextHInv ==
    ASSUME RowLocks, HInv, [Next]_vars
    PROVE  HInv'
<1>1. WInv' /\ PInv'
  BY NextWInv, NextPInv DEF HInv
<1>2. CASE UNCHANGED vars
  <2>1. book' = book /\ draft' = draft /\ call' = call /\ next' = next
    BY <1>2 DEF vars, worker
  <2> QED  BY <1>1, <2>1, QuietFollows DEF HInv
<1>3. ASSUME NEW w \in Workers, Stamp(w) \/ InsertSignal(w) \/ ShareIncident(w)
      PROVE  HInv'
  <2>1. book' = book /\ draft' = draft /\ call' = call /\ next' = next
    BY <1>3, LocksEffect DEF Stamp, InsertSignal, ShareIncident, HInv, PInv
  <2> QED  BY <1>1, <2>1, QuietFollows DEF HInv
<1>4. ASSUME NEW w \in Workers,
             \/ \E c \in Calls : Begin(w, c)
             \/ Skip(w) \/ File(w) \/ Commit(w) \/ Abort(w)
      PROVE  HInv'
  BY <1>1, <1>4, BeginFollows, SkipFollows, FileFollows, GoneFollows DEF HInv
<1>5. ASSUME NEW o \in Operators, Decide(o)
      PROVE  HInv'
  BY <1>1, <1>5, DecideFollows DEF HInv
<1>6. ASSUME NEW o \in Operators,
             \/ Refresh(o) \/ Accept(o) \/ Refuse(o) \/ Drop(o)
             \/ \E k \in Keys, to \in {"acknowledged", "resolved"} : Request(o, k, to)
      PROVE  HInv'
  <2>1. book' = book /\ draft' = draft /\ call' = call /\ next' = next
    BY <1>6 DEF Refresh, Accept, Refuse, Drop, Request, worker
  <2> QED  BY <1>1, <2>1, QuietFollows DEF HInv
<1> QED  BY <1>2, <1>3, <1>4, <1>5, <1>6 DEF Next

-----------------------------------------------------------------------------
(* The steps of the ledger, as steps of the history. *)

LEMMA InitTold == Init => History!Init
<1> SUFFICES ASSUME Init PROVE History!Init
  OBVIOUS
<1> DEFINE b == [incident |-> NoIncident, signals |-> {}, timeline |-> <<>>]
<1>1. \A k \in Keys : book[k] = b
  BY DEF Init
<1>2. Tale(b) = [evidence |-> {}, timeline |-> <<>>]
  <2>1. Len(b.timeline) = 0 /\ DOMAIN b.timeline = {}
    OBVIOUS
  <2>2. [j \in DOMAIN b.timeline |-> Untimed(b.timeline[j])] = <<>>
    BY <2>1
  <2> QED  BY <2>2 DEF Tale
<1> HIDE DEF b
<1> QED  BY <1>1, <1>2 DEF History!Init, Story

(* The commit of a worker records its whole call. *)
LEMMA CommitRecords ==
    ASSUME HInv, NEW w \in Workers, Commit(w)
    PROVE  call[w] \in Calls /\ History!Record(call[w])
<1> DEFINE c == call[w]
<1>1. /\ c \in Calls /\ c # Null /\ next[w] > Len(c)
      /\ \A k \in Keys : book'[k] = IF k \in DOMAIN draft[w] THEN draft[w][k] ELSE book[k]
  BY DEF Commit, HInv, PInv, LInv, TypeOK
<1>2. next[w] - 1 = Len(c)
  <2>1. next[w] \in Nat /\ Len(c) \in Nat /\ next[w] <= Len(c) + 1
    BY <1>1, CallSignal DEF HInv, PInv, LInv, TypeOK, Follows
  <2> QED  BY <1>1, <2>1
<1>3. ASSUME NEW k \in Keys
      PROVE  Tale(book'[k]) = History!Filed(Tale(book[k]), c, Len(c), k)
  <2>1. CASE k \in DOMAIN draft[w]
    BY <1>1, <1>2, <2>1 DEF HInv, Follows
  <2>2. CASE k \notin DOMAIN draft[w]
    BY <1>1, <1>2, <2>2, BehindOld
  <2> QED  BY <2>1, <2>2
<1> HIDE DEF c
<1>4. \A k \in Keys : Story[k] = Tale(book[k])
  BY DEF Story
<1>5. Story' = [k \in Keys |-> Tale(book'[k])]
  BY DEF Story
<1>6. History!Record(c)
  BY <1>3, <1>4, <1>5 DEF History!Record
<1> QED  BY <1>1, <1>6 DEF c

(* The commit of an operator is one decision. *)
LEMMA DecideDecides ==
    ASSUME HInv, NEW o \in Operators, Decide(o)
    PROVE  /\ ask[o].key \in Keys /\ ask[o].to \in {"acknowledged", "resolved"}
           /\ History!Decide(o, ask[o].key, ask[o].to)
<1> DEFINE k == ask[o].key
           to == ask[o].to
           b == book[k]
           e == OperatorEntry(o)
<1>1. /\ k \in Keys /\ ask[o] \in Ask /\ read[o] = b.incident /\ read[o] # Null
      /\ book'[k] = Judged(b, o)
      /\ \A j \in Keys \ {k} : book'[j] = book[j]
  BY DecideFinds DEF HInv
<1>2. /\ BookGood(b) /\ Told(b) /\ Possible(o)
  BY <1>1 DEF HInv, PInv, LInv, BooksGood, BooksTold, ReadHeld
<1>3. to \in {"acknowledged", "resolved"}
  BY <1>1 DEF Ask
<1>4. /\ Tale(b) = [evidence |-> b.signals, timeline |-> Tale(b).timeline]
      /\ History!Status(Tale(b)) = b.incident.status
      /\ b.timeline \in Seq(Entry) /\ b.incident.status \in Statuses
  BY <1>2, TaleParts, GoodRow DEF Row
<1>5. e \in Entry /\ Untimed(e) = History!Note(to, o, b.incident.status, to)
  <2>1. ask[o].at \in Nat
    BY <1>1 DEF Ask
  <2> QED  BY <1>1, <1>3, <1>4, <2>1 DEF OperatorEntry, Entry, Actions, Statuses, Untimed, History!Note
<1>6. Judged(b, o).signals = b.signals /\ Judged(b, o).timeline = Append(b.timeline, e)
  <2>1. b \in Book
    BY <1>2 DEF BookGood
  <2> QED  BY <2>1 DEF Judged, Book
<1>7. Tale(Judged(b, o)) = [evidence |-> b.signals, timeline |-> Append(Tale(b).timeline, Untimed(e))]
  BY <1>4, <1>5, <1>6, TaleAppend DEF Tale
<1>8. History!Status(Tale(b)) \in (IF to = "acknowledged" THEN {"open"} ELSE {"open", "acknowledged"})
  BY <1>2, <1>4 DEF Possible
<1> HIDE DEF k, to, b, e
<1>9. Tale(book'[k]) = [Tale(b) EXCEPT !.timeline = Append(@, Untimed(e))]
  <2> DEFINE A == Tale(b)
  <2>1. Tale(book'[k]) = [evidence |-> b.signals, timeline |-> Append(A.timeline, Untimed(e))]
    BY <1>1, <1>7
  <2>2. A = [evidence |-> b.signals, timeline |-> A.timeline]
    BY <1>4
  <2> HIDE DEF A
  <2>3. [A EXCEPT !.timeline = Append(@, Untimed(e))] =
           [evidence |-> b.signals, timeline |-> Append(A.timeline, Untimed(e))]
    BY <2>2
  <2> QED  BY <2>1, <2>3 DEF A
<1>10. Story[k] = Tale(b)
  BY <1>1 DEF Story, b
<1>11. Story' = [Story EXCEPT ![k].timeline =
                    Append(@, History!Note(to, o, History!Status(Story[k]), to))]
  <2> DEFINE x == History!Note(to, o, History!Status(Story[k]), to)
  <2>1. x = Untimed(e)
    BY <1>4, <1>5, <1>10
  <2>2. Story' = [j \in Keys |-> Tale(book'[j])]
    BY DEF Story
  <2> HIDE DEF x
  <2>3. [Story EXCEPT ![k].timeline = Append(@, x)] =
           [j \in Keys |-> IF j = k THEN [Tale(b) EXCEPT !.timeline = Append(@, x)] ELSE Tale(book[j])]
    BY <1>1, <1>10 DEF Story
  <2>4. \A j \in Keys : Tale(book'[j]) =
           IF j = k THEN [Tale(b) EXCEPT !.timeline = Append(@, x)] ELSE Tale(book[j])
    BY <1>1, <1>9, <2>1
  <2> QED  BY <2>2, <2>3, <2>4 DEF x
<1>12. History!Decide(o, k, to)
  BY <1>8, <1>10, <1>11 DEF History!Decide
<1> QED  BY <1>1, <1>3, <1>12 DEF k, to

LEMMA StoryStep ==
    ASSUME HInv, [Next]_vars
    PROVE  [History!Next]_Story
<1>1. ASSUME NEW w \in Workers, Commit(w)
      PROVE  History!Next
  BY <1>1, CommitRecords DEF History!Next
<1>2. ASSUME NEW o \in Operators, Decide(o)
      PROVE  History!Next
  BY <1>2, DecideDecides DEF History!Next
<1>3. ASSUME book' = book
      PROVE  Story' = Story
  BY <1>3 DEF Story
<1>4. CASE UNCHANGED vars
  BY <1>3, <1>4 DEF vars
<1>5. ASSUME NEW w \in Workers,
             \/ \E c \in Calls : Begin(w, c)
             \/ Stamp(w) \/ Skip(w) \/ InsertSignal(w) \/ ShareIncident(w) \/ File(w)
             \/ Abort(w)
      PROVE  Story' = Story
  BY <1>3, <1>5 DEF Begin, Stamp, Skip, InsertSignal, ShareIncident, File, Abort
<1>6. ASSUME NEW o \in Operators,
             \/ Refresh(o) \/ Accept(o) \/ Refuse(o) \/ Drop(o)
             \/ \E k \in Keys, to \in {"acknowledged", "resolved"} : Request(o, k, to)
      PROVE  Story' = Story
  BY <1>3, <1>6 DEF Refresh, Accept, Refuse, Drop, Request
<1> QED  BY <1>1, <1>2, <1>4, <1>5, <1>6 DEF Next

(* On PostgreSQL record_incident_signals and transition_incident are        *)
(* serializable: whatever transactions overlap, wait, fail or are chosen as *)
(* deadlock victims, evidence and timeline of every incident are what whole *)
(* calls and single decisions make of them, in the order of the commits.   *)
THEOREM LedgerIsSerializable ==
    ASSUME RowLocks PROVE Spec => Serializable
<1>1. HInv /\ [Next]_vars => HInv'
  BY NextHInv
<1>2. HInv /\ [Next]_vars => [History!Next]_Story
  BY StoryStep
<1> QED  BY InitHInv, InitTold, <1>1, <1>2, PTL DEF Spec, Serializable, History!Spec
=============================================================================
