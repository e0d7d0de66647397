------------------------- MODULE MetricHistoryProofs -------------------------
(***************************************************************************)
(* Theorems about MetricHistory, for any samples, readers and runs.        *)
(***************************************************************************)
EXTENDS MetricHistory, FiniteSetTheorems, TLAPS

USE HistoryAssumption DEF HistoryAssumption

(* Rows come in one order. *)
LEMMA BeforeOrder ==
    /\ \A d, e \in Events : ~(Before(d, e) /\ Before(e, d))
    /\ \A d, e \in Events : d = e \/ Before(d, e) \/ Before(e, d)
    /\ \A c, d, e \in Events : Before(c, d) /\ Before(d, e) => Before(c, e)
BY SMT DEF Before

(* A part that is smaller than the limit is the whole. *)
LEMMA ShortIsWhole ==
    ASSUME NEW whole, IsFiniteSet(whole), NEW part \in SUBSET whole, NEW n \in Nat,
           Cardinality(part) = IF Cardinality(whole) < n THEN Cardinality(whole) ELSE n,
           Cardinality(part) < n
    PROVE  part = whole
<1>1. Cardinality(part) = Cardinality(whole)
  OBVIOUS
<1> QED BY <1>1, FS_Subset

LEMMA SamplesFinite == \A T \in SUBSET Samples : IsFiniteSet(T)
<1>1. IsFiniteSet(Samples)
  BY FS_Product DEF Samples
<1> QED BY <1>1, FS_Subset

-----------------------------------------------------------------------------
LEMMA InitTypeOK == Init => TypeOK
BY SMT DEF Init, TypeOK

LEMMA EndTypeOK ==
    ASSUME TypeOK, NEW p \in Runs, NEW how \in {"off", "done"}, End(p, how)
    PROVE  /\ pc' \in [Runs -> {"off", "select", "delete", "done"}]
           /\ cutoff' \in [Runs -> Cutoffs \cup {Null}]
           /\ keys' \in [Runs -> SUBSET Samples]
           /\ batches' \in [Runs -> 0 .. MaxBatches - 1]
           /\ alone' \in [Runs -> BOOLEAN]
           /\ fresh' \in [Runs -> SUBSET Samples]
BY DEF End, TypeOK

LEMMA NextTypeOK == TypeOK /\ [Next]_vars => TypeOK'
<1> SUFFICES ASSUME TypeOK, [Next]_vars PROVE TypeOK'
  OBVIOUS
<1> USE DEF TypeOK, reader, run
<1>1. ASSUME NEW e \in Events, Write(e) PROVE TypeOK'
  BY <1>1 DEF Write, Samples
<1>2. ASSUME NEW r \in Readers, Page(r) PROVE TypeOK'
  <2> DEFINE rows == {e \in InRange(ask[r], table) : Beyond(e, cursor[r])}
  <2>1. PICK fetched \in SUBSET rows : \E page \in SUBSET fetched :
           /\ answer' = [answer EXCEPT ![r] = page]
           /\ listed' = [listed EXCEPT ![r] = @ \cup page]
           /\ IF Cardinality(fetched) > Limit
              THEN /\ \E e \in page : cursor' = [cursor EXCEPT ![r] = e]
                   /\ UNCHANGED <<more, ask, present, seen>>
              ELSE /\ more' = [more EXCEPT ![r] = FALSE]
                   /\ ask' = [ask EXCEPT ![r] = Null]
                   /\ cursor' = [cursor EXCEPT ![r] = Null]
                   /\ present' = [present EXCEPT ![r] = {}]
                   /\ seen' = [seen EXCEPT ![r] = {}]
    BY <1>2 DEF Page
  <2>2. rows \subseteq Events
    BY DEF InRange
  <2>3. UNCHANGED <<table, run, fresh>>
    BY <1>2 DEF Page
  <2>4. answer' \in [Readers -> SUBSET Events] /\ listed' \in [Readers -> SUBSET Events]
    BY <2>1, <2>2
  <2>5. CASE Cardinality(fetched) > Limit
    <3>1. cursor' \in [Readers -> Events \cup {Null}]
      BY <2>1, <2>2, <2>5
    <3> QED BY <2>1, <2>3, <2>4, <2>5, <3>1
  <2>6. CASE ~(Cardinality(fetched) > Limit)
    <3>1. /\ more' = [more EXCEPT ![r] = FALSE]
          /\ ask' = [ask EXCEPT ![r] = Null]
          /\ cursor' = [cursor EXCEPT ![r] = Null]
          /\ present' = [present EXCEPT ![r] = {}]
          /\ seen' = [seen EXCEPT ![r] = {}]
      BY <2>1, <2>6
    <3> QED BY <2>3, <2>4, <3>1
  <2> QED BY <2>5, <2>6
<1>3. ASSUME NEW r \in Readers, NEW q \in Requests, Open(r, q) PROVE TypeOK'
  BY <1>3 DEF Open, InRange
<1>4. ASSUME NEW p \in Runs, Select(p) PROVE TypeOK'
  <2>1. CASE Old(p, table) = {}
    BY <1>4, <2>1, EndTypeOK DEF Select
  <2>2. CASE Old(p, table) # {}
    <3>1. PICK batch \in SUBSET Old(p, table) : keys' = [keys EXCEPT ![p] = batch]
      BY <1>4, <2>2 DEF Select
    <3>2. batch \subseteq Samples
      BY DEF Old
    <3>3. /\ pc' = [pc EXCEPT ![p] = "delete"]
          /\ fresh' = [fresh EXCEPT ![p] = {}]
          /\ UNCHANGED <<cutoff, batches, alone, table, reader>>
      BY <1>4, <2>2 DEF Select
    <3> QED BY <3>1, <3>2, <3>3
  <2> QED BY <2>1, <2>2
<1>5. ASSUME NEW p \in Runs, Delete(p) PROVE TypeOK'
  <2> DEFINE enough == Enough(Cardinality(keys[p] \cap table), batches[p] + 1)
  <2>1. /\ table' \subseteq Samples
        /\ present' \in [Readers -> SUBSET Events]
        /\ UNCHANGED <<ask, cursor, more, answer, listed, seen>>
    BY <1>5 DEF Delete
  <2>2. CASE enough
    BY <1>5, <2>1, <2>2, EndTypeOK DEF Delete
  <2>3. CASE ~enough
    <3>1. batches[p] + 1 # MaxBatches
      BY <2>3 DEF Enough
    <3>2. batches[p] \in 0 .. MaxBatches - 1 /\ MaxBatches \in Nat
      OBVIOUS
    <3>3. batches[p] + 1 \in 0 .. MaxBatches - 1
      BY ONLY <3>1, <3>2, SMT
    <3> QED BY <1>5, <2>1, <2>3, <3>3 DEF Delete
  <2> QED BY <2>2, <2>3
<1>6. ASSUME NEW p \in Runs, Fail(p) PROVE TypeOK'
  BY <1>6, EndTypeOK DEF Fail
<1>7. ASSUME NEW p \in Runs, NEW c \in Cutoffs, Start(p, c) PROVE TypeOK'
  BY <1>7 DEF Start
<1>8. CASE UNCHANGED vars
  BY <1>8 DEF vars
<1> QED BY <1>1, <1>2, <1>3, <1>4, <1>5, <1>6, <1>7, <1>8 DEF Next

(* In every reachable state the variables have their types; no run counts  *)
(* more batches than max_batches.                                          *)
THEOREM HistoryTypeCorrect == Spec => []TypeOK
<1> QED BY InitTypeOK, NextTypeOK, PTL DEF Spec

-----------------------------------------------------------------------------
(* What a reader has been given ends at its cursor, and up to there it has  *)
(* been given all that has been on record since its scan began.            *)
Given(r) ==
    /\ \A e \in listed[r] : cursor[r] # Null /\ ~Before(cursor[r], e)
    /\ \A e \in present[r] : cursor[r] # Null /\ ~Before(cursor[r], e) => e \in listed[r]

Watched(r) ==
    /\ present[r] \subseteq InRange(ask[r], table)
    /\ InRange(ask[r], table) \subseteq seen[r]
    /\ listed[r] \subseteq seen[r]

ScanInv ==
    \A r \in Readers :
        /\ more[r] => ask[r] \in Requests /\ Watched(r) /\ Given(r)
        /\ ~more[r] => present[r] = {}

LEMMA InitScan == Init => ScanInv
BY DEF Init, ScanInv

(* One page, in the order of (observed_at, event_id). *)
LEMMA PageRows ==
    ASSUME TypeOK, ScanInv, NEW r \in Readers, Page(r)
    PROVE  \E page \in SUBSET InRange(ask[r], table) :
              /\ \A e \in page : Beyond(e, cursor[r])
              /\ \A e \in page, d \in InRange(ask[r], table) \ page :
                    Beyond(d, cursor[r]) => Before(e, d)
              /\ answer' = [answer EXCEPT ![r] = page]
              /\ listed' = [listed EXCEPT ![r] = listed[r] \cup page]
              /\ \/ /\ \E e \in page : IsLast(e, page) /\ cursor' = [cursor EXCEPT ![r] = e]
                    /\ UNCHANGED <<more, ask, present, seen>>
                 \/ /\ \A e \in InRange(ask[r], table) : Beyond(e, cursor[r]) => e \in page
                    /\ more' = [more EXCEPT ![r] = FALSE]
                    /\ present' = [present EXCEPT ![r] = {}]
                    /\ \A o \in Readers \ {r} :
                          ask'[o] = ask[o] /\ cursor'[o] = cursor[o] /\ seen'[o] = seen[o]
<1> DEFINE all == InRange(ask[r], table)
           rows == {e \in all : Beyond(e, cursor[r])}
<1>1. PICK fetched \in SUBSET rows : \E page \in SUBSET fetched :
         /\ IsFirst(fetched, rows, Limit + 1) /\ IsFirst(page, fetched, Limit)
         /\ answer' = [answer EXCEPT ![r] = page]
         /\ listed' = [listed EXCEPT ![r] = @ \cup page]
         /\ IF Cardinality(fetched) > Limit
            THEN /\ \E e \in page : IsLast(e, page) /\ cursor' = [cursor EXCEPT ![r] = e]
                 /\ UNCHANGED <<more, ask, present, seen>>
            ELSE /\ more' = [more EXCEPT ![r] = FALSE]
                 /\ ask' = [ask EXCEPT ![r] = Null]
                 /\ cursor' = [cursor EXCEPT ![r] = Null]
                 /\ present' = [present EXCEPT ![r] = {}]
                 /\ seen' = [seen EXCEPT ![r] = {}]
  BY DEF Page
<1>0. PICK page \in SUBSET fetched :
         /\ IsFirst(fetched, rows, Limit + 1) /\ IsFirst(page, fetched, Limit)
         /\ answer' = [answer EXCEPT ![r] = page]
         /\ listed' = [listed EXCEPT ![r] = @ \cup page]
         /\ IF Cardinality(fetched) > Limit
            THEN /\ \E e \in page : IsLast(e, page) /\ cursor' = [cursor EXCEPT ![r] = e]
                 /\ UNCHANGED <<more, ask, present, seen>>
            ELSE /\ more' = [more EXCEPT ![r] = FALSE]
                 /\ ask' = [ask EXCEPT ![r] = Null]
                 /\ cursor' = [cursor EXCEPT ![r] = Null]
                 /\ present' = [present EXCEPT ![r] = {}]
                 /\ seen' = [seen EXCEPT ![r] = {}]
  BY <1>1
<1>2. rows \subseteq Events /\ IsFiniteSet(rows)
  <2>1. rows \subseteq Events
    BY DEF InRange
  <2> QED BY <2>1, FS_Subset
<1>3. \A e \in page : Beyond(e, cursor[r])
  OBVIOUS
<1>4. \A e \in page, d \in all \ page : Beyond(d, cursor[r]) => Before(e, d)
  <2> TAKE e \in page, d \in all \ page
  <2> HAVE Beyond(d, cursor[r])
  <2>1. d \in rows
    OBVIOUS
  <2> QED BY <1>0, <2>1 DEF IsFirst
<1>5. CASE Cardinality(fetched) > Limit
  BY <1>0, <1>3, <1>4, <1>5
<1>6. CASE ~(Cardinality(fetched) > Limit)
  <2>1. IsFiniteSet(fetched) /\ Cardinality(fetched) \in Nat /\ Cardinality(rows) \in Nat
    BY <1>2, FS_Subset, FS_CardinalityType
  <2>2. Cardinality(fetched) < Limit + 1
    BY <1>6, <2>1
  <2>3. fetched = rows
    <3>1. Cardinality(fetched) =
             IF Cardinality(rows) < Limit + 1 THEN Cardinality(rows) ELSE Limit + 1
      BY <1>0 DEF IsFirst
    <3> HIDE DEF rows
    <3> QED BY <1>0, <1>2, <2>2, <3>1, ShortIsWhole
  <2>4. page = fetched
    <3>1. Cardinality(page) =
             IF Cardinality(fetched) < Limit THEN Cardinality(fetched) ELSE Limit
      BY <1>0 DEF IsFirst
    <3>2. Cardinality(page) = Cardinality(fetched)
      BY <1>6, <2>1, <3>1
    <3> QED BY <2>1, <3>2, FS_Subset
  <2>5. \A e \in all : Beyond(e, cursor[r]) => e \in page
    BY <2>3, <2>4
  <2>6. \A o \in Readers \ {r} :
           ask'[o] = ask[o] /\ cursor'[o] = cursor[o] /\ seen'[o] = seen[o]
    BY <1>0, <1>6 DEF TypeOK
  <2> QED BY <1>0, <1>3, <1>4, <1>6, <2>5, <2>6
<1> QED BY <1>5, <1>6

(* A page that is not the last moves the cursor past what it lists. *)
LEMMA PageGiven ==
    ASSUME TypeOK, NEW r \in Readers, Watched(r), Given(r),
           NEW page \in SUBSET InRange(ask[r], table),
           \A e \in page : Beyond(e, cursor[r]),
           \A e \in page, d \in InRange(ask[r], table) \ page :
              Beyond(d, cursor[r]) => Before(e, d),
           NEW c \in page, IsLast(c, page)
    PROVE  /\ \A e \in listed[r] \cup page : ~Before(c, e)
           /\ \A e \in present[r] : ~Before(c, e) => e \in listed[r] \cup page
<1>0. /\ page \subseteq Events /\ c \in Events /\ cursor[r] \in Events \cup {Null}
      /\ listed[r] \subseteq Events /\ present[r] \subseteq Events
      /\ present[r] \subseteq InRange(ask[r], table)
  BY DEF InRange, TypeOK, Watched
<1>1. \A e \in listed[r] : ~Before(c, e)
  <2> TAKE e \in listed[r]
  <2>1. cursor[r] # Null /\ ~Before(cursor[r], e) /\ Before(cursor[r], c)
    BY DEF Given, Beyond
  <2> QED BY <1>0, <2>1, BeforeOrder
<1>2. \A e \in page : ~Before(c, e)
  BY <1>0, BeforeOrder DEF IsLast
<1>3. ASSUME NEW e \in present[r], ~Before(c, e), e \notin listed[r] PROVE e \in page
  <2>1. Beyond(e, cursor[r])
    BY <1>3 DEF Given, Beyond
  <2> QED BY <1>0, <1>3, <2>1
<1> QED BY <1>1, <1>2, <1>3

LEMMA NextScan == TypeOK /\ TypeOK' /\ ScanInv /\ [Next]_vars => ScanInv'
<1> SUFFICES ASSUME TypeOK, TypeOK', ScanInv, [Next]_vars, NEW r \in Readers
             PROVE  /\ more'[r] => ask'[r] \in Requests /\ Watched(r)' /\ Given(r)'
                    /\ ~more'[r] => present'[r] = {}
  BY DEF ScanInv
<1> DEFINE Goal == /\ more'[r] => ask'[r] \in Requests /\ Watched(r)' /\ Given(r)'
                   /\ ~more'[r] => present'[r] = {}
<1>0. /\ more[r] => ask[r] \in Requests /\ Watched(r) /\ Given(r)
      /\ ~more[r] => present[r] = {}
  BY DEF ScanInv
<1>a. ASSUME UNCHANGED <<table, reader>> PROVE Goal
  BY <1>0, <1>a DEF reader, Watched, Given, InRange, Matching
<1>1. ASSUME NEW e \in Events, Write(e) PROVE Goal
  <2>1. /\ UNCHANGED <<ask, cursor, more, listed, present>> /\ table \subseteq table'
        /\ \A d \in Events \ {e}, m \in Metrics : <<d, m>> \in table' => <<d, m>> \in table
        /\ seen'[r] = IF more[r] /\ Matching(ask[r], e, table') THEN seen[r] \cup {e} ELSE seen[r]
    BY <1>1 DEF Write
  <2>2. CASE more[r]
    <3>1. present'[r] \subseteq InRange(ask'[r], table')
      BY <1>0, <2>1, <2>2 DEF Watched, InRange, Matching
    <3>2. ASSUME NEW d \in InRange(ask'[r], table') PROVE d \in seen'[r]
      <4>1. d \in Events /\ Matching(ask[r], d, table')
        BY <2>1, <3>2 DEF InRange
      <4>2. CASE d = e
        BY <2>1, <2>2, <4>1, <4>2
      <4>3. CASE d # e
        <5>1. ask[r].metric \in Metrics
          BY <1>0, <2>2
        <5>2. d \in InRange(ask[r], table)
          BY <2>1, <4>1, <4>3, <5>1 DEF InRange, Matching
        <5> QED BY <1>0, <2>1, <2>2, <5>2 DEF Watched
      <4> QED BY <4>2, <4>3
    <3>3. listed'[r] \subseteq seen'[r]
      BY <1>0, <2>1, <2>2 DEF Watched
    <3> QED BY <1>0, <2>1, <2>2, <3>1, <3>2, <3>3 DEF Watched, Given
  <2> QED BY <1>0, <2>1, <2>2
<1>2. ASSUME NEW o \in Readers, Page(o) PROVE Goal
  <2>0. UNCHANGED table
    BY <1>2 DEF Page
  <2>1. PICK page \in SUBSET InRange(ask[o], table) :
          /\ \A e \in page : Beyond(e, cursor[o])
          /\ \A e \in page, d \in InRange(ask[o], table) \ page :
                Beyond(d, cursor[o]) => Before(e, d)
          /\ listed' = [listed EXCEPT ![o] = listed[o] \cup page]
          /\ \/ /\ \E e \in page : IsLast(e, page) /\ cursor' = [cursor EXCEPT ![o] = e]
                /\ UNCHANGED <<more, ask, present, seen>>
             \/ /\ more' = [more EXCEPT ![o] = FALSE]
                /\ present' = [present EXCEPT ![o] = {}]
                /\ \A u \in Readers \ {o} :
                      ask'[u] = ask[u] /\ cursor'[u] = cursor[u] /\ seen'[u] = seen[u]
    BY <1>2, PageRows
  <2>2. CASE o # r
    <3>1. /\ ask'[r] = ask[r] /\ cursor'[r] = cursor[r] /\ seen'[r] = seen[r]
          /\ more'[r] = more[r] /\ present'[r] = present[r] /\ listed'[r] = listed[r]
      BY <2>1, <2>2 DEF TypeOK
    <3> QED BY <1>0, <2>0, <3>1 DEF Watched, Given, InRange, Matching
  <2>3. CASE o = r
    <3>1. more[r] /\ Watched(r) /\ Given(r) /\ listed'[r] = listed[r] \cup page
      BY <1>0, <1>2, <2>1, <2>3 DEF Page, TypeOK
    <3>2. CASE more' = [more EXCEPT ![o] = FALSE] /\ present' = [present EXCEPT ![o] = {}]
      BY <2>3, <3>2 DEF TypeOK
    <3>3. ASSUME NEW c \in page, IsLast(c, page), cursor' = [cursor EXCEPT ![o] = c],
                 UNCHANGED <<more, ask, present, seen>>
          PROVE  Goal
      <4>1. cursor'[r] = c /\ c \in Events
        BY <2>3, <3>3 DEF InRange, TypeOK
      <4>2. /\ \A e \in listed'[r] : ~Before(c, e)
            /\ \A e \in present'[r] : ~Before(c, e) => e \in listed'[r]
        BY <2>1, <2>3, <3>1, <3>3, PageGiven
      <4>3. Given(r)'
        BY <4>1, <4>2 DEF Given
      <4>4. Watched(r)'
        BY <2>0, <2>3, <3>1, <3>3 DEF Watched, InRange, Matching
      <4> QED BY <1>0, <3>1, <3>3, <4>3, <4>4
    <3> QED BY <2>1, <3>2, <3>3
  <2> QED BY <2>2, <2>3
<1>3. ASSUME NEW o \in Readers, NEW q \in Requests, Open(o, q) PROVE Goal
  <2>1. CASE o = r
    <3>1. /\ ask'[r] = q /\ more'[r] = TRUE /\ listed'[r] = {} /\ cursor'[r] = Null
          /\ present'[r] = InRange(q, table) /\ seen'[r] = InRange(q, table) /\ table' = table
      BY <1>3, <2>1 DEF Open, TypeOK
    <3> QED BY <3>1 DEF Watched, Given, InRange, Matching
  <2>2. CASE o # r
    <3>1. /\ ask'[r] = ask[r] /\ cursor'[r] = cursor[r] /\ more'[r] = more[r]
      BY <1>3, <2>2 DEF Open, TypeOK
    <3>2. listed'[r] = listed[r] /\ table' = table
      BY <1>3, <2>2 DEF Open, TypeOK
    <3>3. /\ present' = [present EXCEPT ![o] = InRange(q, table)]
          /\ seen' = [seen EXCEPT ![o] = InRange(q, table)]
      BY <1>3 DEF Open
    <3>4. present'[r] = present[r] /\ seen'[r] = seen[r]
      BY <2>2, <3>3 DEF TypeOK
    <3> QED BY <1>0, <3>1, <3>2, <3>4 DEF Watched, Given, InRange, Matching
  <2> QED BY <2>1, <2>2
<1>4. ASSUME NEW p \in Runs, Select(p) PROVE Goal
  BY <1>4, <1>a DEF Select
<1>5. ASSUME NEW p \in Runs, Delete(p) PROVE Goal
  <2>1. /\ UNCHANGED <<ask, cursor, more, listed, seen>> /\ table' \subseteq table
        /\ present'[r] = {e \in present[r] : Matching(ask[r], e, table')}
    BY <1>5 DEF Delete
  <2>2. CASE more[r]
    <3>1. present'[r] \subseteq InRange(ask'[r], table')
      BY <2>1 DEF InRange, TypeOK
    <3>2. InRange(ask'[r], table') \subseteq seen'[r]
      BY <1>0, <2>1, <2>2 DEF Watched, InRange, Matching
    <3> QED BY <1>0, <2>1, <2>2, <3>1, <3>2 DEF Watched, Given
  <2> QED BY <1>0, <2>1, <2>2
<1>6. ASSUME NEW p \in Runs, Fail(p) PROVE Goal
  BY <1>6, <1>a DEF Fail
<1>7. ASSUME NEW p \in Runs, NEW c \in Cutoffs, Start(p, c) PROVE Goal
  BY <1>7, <1>a DEF Start
<1>8. CASE UNCHANGED vars
  BY <1>8, <1>a DEF vars
<1> QED BY <1>1, <1>2, <1>3, <1>4, <1>5, <1>6, <1>7, <1>8 DEF Next

LEMMA ScanInvariant == Spec => [](TypeOK /\ ScanInv)
<1> QED BY InitTypeOK, NextTypeOK, InitScan, NextScan, PTL DEF Spec

(* A page lists only rows after those listed before it. *)
THEOREM PagesNeverRepeat == Spec => PagesInOrder
<1>1. ASSUME TypeOK, ScanInv, [Next]_vars, NEW r \in Readers, Page(r)
      PROVE  \A d \in listed[r], e \in answer'[r] : Before(d, e)
  <2>1. PICK page \in SUBSET InRange(ask[r], table) :
          (\A e \in page : Beyond(e, cursor[r])) /\ answer' = [answer EXCEPT ![r] = page]
    BY <1>1, PageRows
  <2>2. answer'[r] = page /\ page \subseteq Events
    BY <1>1, <2>1 DEF TypeOK, InRange
  <2>3. more[r] /\ Given(r)
    BY <1>1 DEF Page, ScanInv
  <2> TAKE d \in listed[r], e \in answer'[r]
  <2>4. cursor[r] # Null /\ ~Before(cursor[r], d) /\ Before(cursor[r], e)
    BY <2>1, <2>2, <2>3 DEF Given, Beyond
  <2>5. cursor[r] \in Events /\ d \in Events /\ e \in Events
    BY <1>1, <2>2, <2>4 DEF TypeOK
  <2> QED BY <2>4, <2>5, BeforeOrder
<1>2. TypeOK /\ ScanInv /\ [Next]_vars =>
         [\A r \in Readers : Page(r) => \A d \in listed[r], e \in answer'[r] : Before(d, e)]_vars
  BY <1>1
<1> QED BY <1>2, ScanInvariant, PTL DEF Spec, PagesInOrder

(* A scan lists all that was on record throughout, whatever is written or  *)
(* pruned meanwhile, and nothing that was not.                             *)
THEOREM ScansAreComplete == Spec => ScanComplete
<1>1. ASSUME TypeOK, ScanInv, [Next]_vars, NEW r \in Readers, more[r], ~more'[r]
      PROVE  present[r] \subseteq listed'[r] /\ listed'[r] \subseteq seen[r]
  <2>1. Watched(r) /\ Given(r)
    BY <1>1 DEF ScanInv
  <2>2. Page(r)
    <3>1. ASSUME NEW o \in Readers, Page(o) PROVE o = r
      <4>1. more' = more \/ more' = [more EXCEPT ![o] = FALSE]
        BY <3>1 DEF Page
      <4> QED BY <1>1, <4>1 DEF TypeOK
    <3>2. ASSUME NEW o \in Readers, NEW q \in Requests, Open(o, q) PROVE FALSE
      BY <1>1, <3>2 DEF Open, TypeOK
    <3>3. ASSUME NEW e \in Events, Write(e) PROVE FALSE
      BY <1>1, <3>3 DEF Write
    <3>4. ASSUME NEW p \in Runs, Select(p) \/ Delete(p) \/ Fail(p) PROVE FALSE
      BY <1>1, <3>4 DEF Select, Delete, Fail, reader
    <3>5. ASSUME NEW p \in Runs, NEW c \in Cutoffs, Start(p, c) PROVE FALSE
      BY <1>1, <3>5 DEF Start, reader
    <3>6. CASE UNCHANGED vars
      BY <1>1, <3>6 DEF vars, reader
    <3> QED BY <3>1, <3>2, <3>3, <3>4, <3>5, <3>6, <1>1 DEF Next
  <2>3. PICK page \in SUBSET InRange(ask[r], table) :
          /\ listed' = [listed EXCEPT ![r] = listed[r] \cup page]
          /\ more' = more \/ \A e \in InRange(ask[r], table) : Beyond(e, cursor[r]) => e \in page
    BY <1>1, <2>2, PageRows
  <2>4. listed'[r] = listed[r] \cup page
    BY <1>1, <2>3 DEF TypeOK
  <2>5. ASSUME NEW e \in present[r], e \notin listed[r] PROVE e \in page
    <3>1. Beyond(e, cursor[r]) /\ e \in InRange(ask[r], table)
      BY <2>1, <2>5 DEF Given, Beyond, Watched
    <3> QED BY <1>1, <2>3, <3>1
  <2> QED BY <2>1, <2>3, <2>4, <2>5 DEF Watched
<1>2. TypeOK /\ ScanInv /\ [Next]_vars =>
         [\A r \in Readers : more[r] /\ ~more'[r] =>
             present[r] \subseteq listed'[r] /\ listed'[r] \subseteq seen[r]]_vars
  BY <1>1
<1> QED BY <1>2, ScanInvariant, PTL DEF Spec, ScanComplete

-----------------------------------------------------------------------------
(* What a run of retention has in hand: a batch of the oldest samples, all *)
(* of the old ones if it is short, and all of it still there if no other   *)
(* run is at work.                                                         *)
BatchOf(p) ==
    /\ \A s \in keys[p], t \in table \ keys[p] : At[s[1]] <= At[t[1]] \/ t \in fresh[p]
    /\ Cardinality(keys[p]) < BatchSize => Old(p, table) \subseteq keys[p] \cup fresh[p]
    /\ alone[p] => keys[p] \subseteq table

Alone(p) == Running(p) /\ \A o \in Runs \ {p} : ~Running(o)

RunInv ==
    \A p \in Runs : /\ Running(p) => cutoff[p] \in Cutoffs
                    /\ pc[p] = "delete" => BatchOf(p)
                    /\ alone[p] => Alone(p)

LEMMA InitRun == Init => RunInv
BY DEF Init, RunInv, Running

(* A run's first step: the batch a SELECT returns. *)
LEMMA SelectBatch ==
    ASSUME TypeOK, NEW p \in Runs, cutoff[p] \in Cutoffs, NEW batch \in SUBSET Old(p, table),
           IsBatch(batch, Old(p, table))
    PROVE  /\ \A s \in batch, t \in table \ batch : At[s[1]] <= At[t[1]]
           /\ Cardinality(batch) < BatchSize => Old(p, table) \subseteq batch
           /\ batch \subseteq table
<1>1. Old(p, table) \subseteq table /\ table \subseteq Samples
  BY DEF Old, TypeOK
<1>2. \A s \in Samples : At[s[1]] \in Nat
  BY DEF Samples
<1>3. ASSUME NEW s \in batch, NEW t \in table \ batch PROVE At[s[1]] <= At[t[1]]
  <2>1. CASE t \in Old(p, table)
    BY <1>3, <2>1 DEF IsBatch
  <2>2. CASE t \notin Old(p, table)
    <3>1. At[s[1]] < cutoff[p] /\ ~(At[t[1]] < cutoff[p])
      BY <2>2 DEF Old
    <3>2. At[s[1]] \in Nat /\ At[t[1]] \in Nat /\ cutoff[p] \in Nat
      BY <1>1, <1>2
    <3> QED BY <3>1, <3>2
  <2> QED BY <2>1, <2>2
<1>4. ASSUME Cardinality(batch) < BatchSize PROVE Old(p, table) \subseteq batch
  <2>1. IsFiniteSet(Old(p, table))
    BY <1>1, SamplesFinite
  <2>2. Cardinality(batch) =
           IF Cardinality(Old(p, table)) < BatchSize THEN Cardinality(Old(p, table)) ELSE BatchSize
    BY DEF IsBatch
  <2> QED BY <1>4, <2>1, <2>2, ShortIsWhole
<1> QED BY <1>1, <1>3, <1>4

LEMMA NextRun == TypeOK /\ TypeOK' /\ RunInv /\ [Next]_vars => RunInv'
<1> SUFFICES ASSUME TypeOK, TypeOK', RunInv, [Next]_vars, NEW p \in Runs
             PROVE  /\ Running(p)' => cutoff'[p] \in Cutoffs
                    /\ pc'[p] = "delete" => BatchOf(p)'
                    /\ alone'[p] => Alone(p)'
  BY DEF RunInv
<1> DEFINE Goal == /\ Running(p)' => cutoff'[p] \in Cutoffs
                   /\ pc'[p] = "delete" => BatchOf(p)'
                   /\ alone'[p] => Alone(p)'
<1>0. /\ Running(p) => cutoff[p] \in Cutoffs
      /\ pc[p] = "delete" => BatchOf(p)
      /\ alone[p] => Alone(p)
  BY DEF RunInv
<1>a. ASSUME UNCHANGED <<run, fresh, table>> PROVE Goal
  BY <1>0, <1>a DEF run, Running, BatchOf, Alone, Old
(* Another run's step, of which p sees at most that samples are gone. *)
<1>b. ASSUME NEW o \in Runs \ {p}, Running(o), table' \subseteq table,
             pc'[p] = pc[p], cutoff'[p] = cutoff[p], keys'[p] = keys[p],
             alone'[p] = alone[p], fresh'[p] = fresh[p]
      PROVE  Goal
  <2>1. ~alone[p]
    BY <1>0, <1>b DEF Alone
  <2>2. Old(p, table)' \subseteq Old(p, table)
    BY <1>b DEF Old
  <2>3. pc[p] = "delete" => BatchOf(p)'
    BY <1>0, <1>b, <2>1, <2>2 DEF BatchOf
  <2> QED BY <1>0, <1>b, <2>1, <2>3 DEF Running
(* The end of a run. *)
<1>c. ASSUME NEW o \in Runs, NEW how \in {"off", "done"}, Running(o), End(o, how),
             table' \subseteq table
      PROVE  Goal
  <2>1. CASE o = p
    <3>1. pc'[p] = how /\ alone'[p] = FALSE
      BY <1>c, <2>1 DEF End, TypeOK
    <3> QED BY <3>1 DEF Running
  <2>2. CASE o # p
    <3>1. /\ pc'[p] = pc[p] /\ cutoff'[p] = cutoff[p] /\ keys'[p] = keys[p]
          /\ alone'[p] = alone[p] /\ fresh'[p] = fresh[p]
      BY <1>c, <2>2 DEF End, TypeOK
    <3> QED BY <1>b, <1>c, <2>2, <3>1
  <2> QED BY <2>1, <2>2
<1>1. ASSUME NEW e \in Events, Write(e) PROVE Goal
  <2> DEFINE new == ({e} \X Metrics) \ table
  <2>1. /\ table' = table \cup new /\ UNCHANGED run
        /\ pc[p] = "delete" => fresh'[p] = fresh[p] \cup new
    BY <1>1 DEF Write
  <2>2. /\ pc'[p] = pc[p] /\ cutoff'[p] = cutoff[p] /\ keys'[p] = keys[p] /\ alone'[p] = alone[p]
        /\ pc' = pc
    BY <2>1 DEF run
  <2>3. pc[p] = "delete" => BatchOf(p)'
    <3> SUFFICES ASSUME pc[p] = "delete" PROVE BatchOf(p)'
      OBVIOUS
    <3> HIDE DEF new
    <3>1. BatchOf(p) /\ fresh'[p] = fresh[p] \cup new
      BY <1>0, <2>1
    <3>2. Old(p, table)' \subseteq Old(p, table) \cup new
      BY <2>1, <2>2 DEF Old
    <3> QED BY <2>1, <2>2, <3>1, <3>2 DEF BatchOf
  <2> QED BY <1>0, <2>2, <2>3 DEF Running, Alone
<1>2. ASSUME NEW r \in Readers, Page(r) PROVE Goal
  BY <1>2, <1>a DEF Page
<1>3. ASSUME NEW r \in Readers, NEW q \in Requests, Open(r, q) PROVE Goal
  BY <1>3, <1>a DEF Open
<1>4. ASSUME NEW o \in Runs, Select(o) PROVE Goal
  <2>1. Running(o) /\ table' = table
    BY <1>4 DEF Select, Running
  <2>2. CASE End(o, "done")
    BY <1>c, <2>1, <2>2
  <2>3. ASSUME NEW batch \in SUBSET Old(o, table), IsBatch(batch, Old(o, table)),
               keys' = [keys EXCEPT ![o] = batch], pc' = [pc EXCEPT ![o] = "delete"],
               fresh' = [fresh EXCEPT ![o] = {}], UNCHANGED <<cutoff, batches, alone>>
        PROVE  Goal
    <3>1. CASE o = p
      <4>1. /\ keys'[p] = batch /\ cutoff' = cutoff /\ alone' = alone /\ pc'[p] = "delete"
            /\ \A v \in Runs \ {p} : pc'[v] = pc[v]
        BY <2>3, <3>1 DEF TypeOK
      <4>2. cutoff[p] \in Cutoffs
        BY <1>0, <2>1, <3>1
      <4>3. /\ \A s \in batch, t \in table \ batch : At[s[1]] <= At[t[1]]
            /\ Cardinality(batch) < BatchSize => Old(p, table) \subseteq batch
            /\ batch \subseteq table
        BY <2>3, <3>1, <4>2, SelectBatch
      <4>4. BatchOf(p)'
        BY <2>1, <4>1, <4>3 DEF BatchOf, Old
      <4>5. alone'[p] => Alone(p)'
        BY <1>0, <4>1 DEF Alone, Running
      <4> QED BY <4>1, <4>2, <4>4, <4>5
    <3>2. CASE o # p
      <4>1. /\ pc'[p] = pc[p] /\ cutoff'[p] = cutoff[p] /\ keys'[p] = keys[p]
            /\ alone'[p] = alone[p] /\ fresh'[p] = fresh[p]
        BY <2>3, <3>2 DEF TypeOK
      <4> QED BY <1>b, <2>1, <3>2, <4>1
    <3> QED BY <3>1, <3>2
  <2> QED BY <1>4, <2>2, <2>3 DEF Select
<1>5. ASSUME NEW o \in Runs, Delete(o) PROVE Goal
  <2>1. Running(o) /\ table' \subseteq table
    BY <1>5 DEF Delete, Running
  <2>2. CASE End(o, "done")
    BY <1>c, <2>1, <2>2
  <2>3. ASSUME pc' = [pc EXCEPT ![o] = "select"], keys' = [keys EXCEPT ![o] = {}],
               fresh' = [fresh EXCEPT ![o] = {}], UNCHANGED <<cutoff, alone>>
        PROVE  Goal
    <3>1. CASE o = p
      <4>1. pc'[p] = "select" /\ cutoff' = cutoff /\ alone' = alone
            /\ \A v \in Runs \ {p} : pc'[v] = pc[v]
        BY <2>3, <3>1 DEF TypeOK
      <4> QED BY <1>0, <2>1, <3>1, <4>1 DEF Alone, Running
    <3>2. CASE o # p
      <4>1. /\ pc'[p] = pc[p] /\ cutoff'[p] = cutoff[p] /\ keys'[p] = keys[p]
            /\ alone'[p] = alone[p] /\ fresh'[p] = fresh[p]
        BY <2>3, <3>2 DEF TypeOK
      <4> QED BY <1>b, <2>1, <3>2, <4>1
    <3> QED BY <3>1, <3>2
  <2> QED BY <1>5, <2>2, <2>3 DEF Delete
<1>6. ASSUME NEW o \in Runs, Fail(o) PROVE Goal
  BY <1>6, <1>c DEF Fail, reader
<1>7. ASSUME NEW o \in Runs, NEW c \in Cutoffs, Start(o, c) PROVE Goal
  <2>1. /\ pc' = [pc EXCEPT ![o] = "select"] /\ cutoff' = [cutoff EXCEPT ![o] = c]
        /\ alone'[p] <=> (p = o /\ \A v \in Runs : ~Running(v))
        /\ UNCHANGED <<table, keys, fresh>>
    BY <1>7 DEF Start
  <2>2. CASE o = p
    <3>1. pc'[p] = "select" /\ cutoff'[p] = c /\ \A v \in Runs \ {p} : pc'[v] = pc[v]
      BY <2>1, <2>2 DEF TypeOK
    <3> QED BY <2>1, <3>1 DEF Alone, Running
  <2>3. CASE o # p
    <3>1. pc'[p] = pc[p] /\ cutoff'[p] = cutoff[p] /\ ~alone'[p]
      BY <2>1, <2>3 DEF TypeOK
    <3>2. pc[p] = "delete" => BatchOf(p)'
      BY <1>0, <2>1, <3>1 DEF BatchOf, Old
    <3> QED BY <1>0, <3>1, <3>2 DEF Running
  <2> QED BY <2>2, <2>3
<1>8. CASE UNCHANGED vars
  BY <1>8, <1>a DEF vars
<1> QED BY <1>1, <1>2, <1>3, <1>4, <1>5, <1>6, <1>7, <1>8 DEF Next

LEMMA RunInvariant == Spec => [](TypeOK /\ RunInv)
<1> QED BY InitTypeOK, NextTypeOK, InitRun, NextRun, PTL DEF Spec

(* A run of retention that was alone and did not spend its last batch has  *)
(* left no old sample but those stored since it looked.                    *)
THEOREM RunsSweep == Spec => NothingOldLeft
<1>1. ASSUME TypeOK, RunInv, [Next]_vars, NEW p \in Runs, Running(p), pc'[p] = "done",
             alone[p], batches[p] + 1 < MaxBatches
      PROVE  Old(p, table') \subseteq fresh[p]
  <2>0. pc[p] \in {"select", "delete"} /\ batches[p] \in Nat
    BY <1>1 DEF Running, TypeOK
  <2>1. Select(p) \/ Delete(p)
    <3>1. ASSUME NEW o \in Runs, Select(o) \/ Delete(o) PROVE o = p
      <4>1. \E to \in {"done", "select", "delete"} : pc' = [pc EXCEPT ![o] = to]
        BY <3>1 DEF Select, Delete, End
      <4> QED BY <1>1, <2>0, <4>1 DEF TypeOK
    <3>2. ASSUME NEW o \in Runs, Fail(o) PROVE FALSE
      BY <1>1, <2>0, <3>2 DEF Fail, End, TypeOK
    <3>3. ASSUME NEW o \in Runs, NEW c \in Cutoffs, Start(o, c) PROVE FALSE
      BY <1>1, <2>0, <3>3 DEF Start, TypeOK
    <3>4. ASSUME NEW e \in Events, Write(e) PROVE FALSE
      BY <1>1, <2>0, <3>4 DEF Write, run
    <3>5. ASSUME NEW r \in Readers, Page(r) \/ \E q \in Requests : Open(r, q) PROVE FALSE
      BY <1>1, <2>0, <3>5 DEF Page, Open, run
    <3>6. CASE UNCHANGED vars
      BY <1>1, <2>0, <3>6 DEF vars, run
    <3> QED BY <1>1, <3>1, <3>2, <3>3, <3>4, <3>5, <3>6 DEF Next
  <2>2. CASE Select(p)
    <3>1. Old(p, table) = {}
      BY <1>1, <2>2 DEF Select, TypeOK
    <3> QED BY <2>2, <3>1 DEF Select
  <2>3. CASE Delete(p)
    <3>1. /\ pc[p] = "delete" /\ table' = table \ keys[p]
          /\ Enough(Cardinality(keys[p] \cap table), batches[p] + 1)
      BY <1>1, <2>3 DEF Delete, TypeOK
    <3>2. BatchOf(p)
      BY <1>1, <3>1 DEF RunInv
    <3>3. keys[p] \cap table = keys[p]
      BY <1>1, <3>2 DEF BatchOf
    <3>4. Cardinality(keys[p]) < BatchSize
      <4>1. batches[p] + 1 # MaxBatches
        BY <1>1, <2>0
      <4>2. Enough(Cardinality(keys[p]), batches[p] + 1)
        BY <3>1, <3>3
      <4> QED BY <4>1, <4>2 DEF Enough
    <3>5. Old(p, table) \subseteq keys[p] \cup fresh[p]
      BY <3>2, <3>4 DEF BatchOf
    <3> QED BY <3>1, <3>5 DEF Old
  <2> QED BY <2>1, <2>2, <2>3
<1>2. TypeOK /\ RunInv /\ [Next]_vars =>
         [\A p \in Runs : (Running(p) /\ pc'[p] = "done" /\ alone[p] /\ batches[p] + 1 < MaxBatches) =>
             Old(p, table') \subseteq fresh[p]]_vars
  BY <1>1
<1> QED BY <1>2, RunInvariant, PTL DEF Spec, NothingOldLeft

(* What a batch deletes is no newer than what it leaves, whatever other    *)
(* runs and the writers have done since it was selected.                   *)
THEOREM PrunesOldest == Spec => OldestGoFirst
<1>1. ASSUME TypeOK, RunInv, NEW p \in Runs, pc[p] = "delete", table' = table \ keys[p]
      PROVE  \A s \in table \ table', t \in table' : At[s[1]] <= At[t[1]] \/ t \in fresh[p]
  <2>1. BatchOf(p)
    BY <1>1 DEF RunInv
  <2> QED BY <1>1, <2>1 DEF BatchOf
<1>2. TypeOK /\ RunInv /\ [Next]_vars =>
         [\A p \in Runs : pc[p] = "delete" /\ table' = table \ keys[p] =>
             \A s \in table \ table', t \in table' : At[s[1]] <= At[t[1]] \/ t \in fresh[p]]_vars
  BY <1>1
<1> QED BY <1>2, RunInvariant, PTL DEF Spec, OldestGoFirst
=============================================================================
