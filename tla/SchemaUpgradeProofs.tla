------------------------- MODULE SchemaUpgradeProofs -------------------------
(***************************************************************************)
(* Theorems about SchemaUpgrade, for both dialects and any number of       *)
(* upgrades, events and crashes.                                           *)
(***************************************************************************)
EXTENDS SchemaUpgrade, TLAPS

Creates(m, s) ==
    m \in 1..Latest /\ s \in 1..Len(Migration[m]) /\ Migration[m][s].op = "create"
Table(m, s) == Migration[m][s].table

(* What the proofs need to know of the six scripts: how long they are, that *)
(* they begin by creating a table, and that no table is created twice.     *)
LEMMA Lengths ==
    /\ Latest = 6 /\ DOMAIN Migration = 1..6
    /\ Len(Migration[1]) = 1 /\ Len(Migration[2]) = 2 /\ Len(Migration[3]) = 2
    /\ Len(Migration[4]) = 1 /\ Len(Migration[5]) = 1 /\ Len(Migration[6]) = 3
  BY DEF Latest, Migration, M0001, M0002, M0003, M0004, M0005, M0006

LEMMA Statements ==
    /\ Migration[1][1] = Create("telemetry_events")
    /\ Migration[2][1] = Create("telemetry_pipeline_queue")
    /\ Migration[2][2] = Enqueue
    /\ Migration[3][1] = Create("metric_samples")
    /\ Migration[3][2] = Requeue
    /\ Migration[4][1] = Create("anomalies")
    /\ Migration[5][1] = Create("forecasts")
    /\ Migration[6][1] = Create("incidents")
    /\ Migration[6][2] = Create("incident_signals")
    /\ Migration[6][3] = Create("incident_timeline")
  BY DEF Migration, M0001, M0002, M0003, M0004, M0005, M0006

LEMMA ScriptLength ==
  ASSUME NEW m \in 1..Latest
  PROVE  /\ Len(Migration[m]) \in 1..3 /\ Creates(m, 1)
         /\ DOMAIN Migration[m] = 1..Len(Migration[m])
  BY Lengths, Statements
     DEF Creates, Create, Latest, Migration, M0001, M0002, M0003, M0004, M0005, M0006

LEMMA CreatesCases ==
  ASSUME NEW m, NEW s, Creates(m, s)
  PROVE  \/ m = 1 /\ s = 1 /\ Table(m, s) = "telemetry_events"
         \/ m = 2 /\ s = 1 /\ Table(m, s) = "telemetry_pipeline_queue"
         \/ m = 3 /\ s = 1 /\ Table(m, s) = "metric_samples"
         \/ m = 4 /\ s = 1 /\ Table(m, s) = "anomalies"
         \/ m = 5 /\ s = 1 /\ Table(m, s) = "forecasts"
         \/ m = 6 /\ s = 1 /\ Table(m, s) = "incidents"
         \/ m = 6 /\ s = 2 /\ Table(m, s) = "incident_signals"
         \/ m = 6 /\ s = 3 /\ Table(m, s) = "incident_timeline"
  BY Lengths, Statements DEF Creates, Create, Table, Enqueue, Requeue

LEMMA CreatedOnce ==
  ASSUME NEW m, NEW s, NEW n, NEW r, Creates(m, s), Creates(n, r), Table(m, s) = Table(n, r)
  PROVE  m = n /\ s = r
  BY CreatesCases

LEMMA TablesOf ==
  ASSUME NEW v \in 0..Latest, NEW t
  PROVE  t \in TablesAt(v) <=> \E m \in 1..v : \E s \in 1..3 : Creates(m, s) /\ t = Table(m, s)
  <1>1. \A m \in 1..Latest : t \in CreatedBy(m) <=> \E s \in 1..3 : Creates(m, s) /\ t = Table(m, s)
    <2>. TAKE m \in 1..Latest
    <2>1. Len(Migration[m]) \in 1..3 /\ DOMAIN Migration[m] = 1..Len(Migration[m])
      BY ScriptLength
    <2>2. t \in CreatedBy(m) <=>
             \E s \in DOMAIN Migration[m] : Migration[m][s].op = "create" /\ t = Migration[m][s].table
      BY DEF CreatedBy
    <2>3. \A s \in 1..Len(Migration[m]) : s \in 1..3
      <3>. DEFINE n == Len(Migration[m])
      <3>1. n \in 1..3
        BY <2>1
      <3>. HIDE DEF n
      <3>2. \A s \in 1..n : s \in 1..3
        BY <3>1
      <3>. QED  BY <3>2 DEF n
    <2>. QED  BY <2>1, <2>2, <2>3 DEF Creates, Table
  <1>. QED  BY <1>1, Lengths DEF TablesAt

LEMMA Backfills ==
  ASSUME NEW m \in 1..Latest, NEW s \in 1..Len(Migration[m])
  PROVE  /\ Migration[m][s].op = "enqueue" <=> m = 2 /\ s = 2
         /\ Migration[m][s].op = "requeue" <=> m = 3 /\ s = 2
         /\ Migration[m][s].op \in {"create", "enqueue", "requeue"}
         /\ Migration[m][s].op = "create" <=> Creates(m, s)
  <1>1. m \in {1, 2, 3, 4, 5, 6}
    BY Lengths
  <1>2. CASE m \in {1, 4, 5}
    BY <1>2, Lengths, Statements DEF Creates, Create
  <1>3. CASE m \in {2, 3}
    <2>1. s \in {1, 2}
      BY <1>3, Lengths
    <2>. QED  BY <1>3, <2>1, Lengths, Statements DEF Creates, Create, Enqueue, Requeue
  <1>4. CASE m = 6
    <2>1. s \in {1, 2, 3}
      BY <1>4, Lengths
    <2>. QED  BY <1>4, <2>1, Lengths, Statements DEF Creates, Create
  <1>. QED  BY <1>1, <1>2, <1>3, <1>4

-----------------------------------------------------------------------------
(* Where an upgrade can be.                                                *)
Placed ==
    \A u \in Upgraders : Busy(u) =>
        /\ upgrade[u].stmt <= Len(Script(u)) + 1
        /\ upgrade[u].from < upgrade[u].next /\ upgrade[u].from <= version
        /\ upgrade[u].next <= upgrade[u].to
        /\ ~transactional => upgrade[u].from + 1 = upgrade[u].next /\ upgrade[u].tables = {}

(* What it has created: in its transaction, or for all to see.             *)
Uncommitted(u, t) ==
    \E m \in 1..Latest, s \in 1..3 :
        Creates(m, s) /\ t = Table(m, s) /\ m > upgrade[u].from /\ Past(u, m, s)

HasCreated ==
    \A u \in Upgraders : Busy(u) =>
        IF transactional
        THEN \A t : t \in upgrade[u].tables <=> Uncommitted(u, t)
        ELSE \A s \in 1..3 :
                Creates(upgrade[u].next, s) /\ upgrade[u].stmt > s
                => Table(upgrade[u].next, s) \in tables

(* Nobody has committed since an upgrade has begun to change things.       *)
FromCurrent == \A u \in Upgraders : Began(u) => version = upgrade[u].from

IInv ==
    /\ TypeOK /\ Placed /\ HasCreated /\ FromCurrent
    /\ UpgradesApart /\ TablesMatchVersion

LEMMA Stage ==
  ASSUME IInv, NEW u \in Upgraders, Busy(u)
  PROVE  /\ upgrade[u] \in Upgrade /\ version \in 0..Latest
         /\ upgrade[u].next \in 1..Latest /\ upgrade[u].from \in 0..Latest /\ upgrade[u].stmt \in 1..4
         /\ upgrade[u].to \in 1..Latest /\ upgrade[u].next <= upgrade[u].to
         /\ Script(u) = Migration[upgrade[u].next]
         /\ Len(Script(u)) \in 1..3
         /\ upgrade[u].stmt \in 1..(Len(Script(u)) + 1)
         /\ upgrade[u].from < upgrade[u].next /\ upgrade[u].from <= version
         /\ version # upgrade[u].from => ~Began(u)
  BY ScriptLength, Lengths DEF IInv, TypeOK, Upgrade, Busy, Placed, Script, FromCurrent

(* It holds of a database no migration has touched.                        *)
THEOREM InitIInv == Init => IInv
  <1>. SUFFICES ASSUME Init PROVE IInv
    OBVIOUS
  <1>1. TypeOK
    BY Lengths DEF Init, TypeOK, Upgrade, Statuses
  <1>2. Placed /\ HasCreated /\ FromCurrent /\ UpgradesApart
    BY DEF Init, Placed, HasCreated, FromCurrent, UpgradesApart, Busy, Began
  <1>3. TablesAt(0) = {}
    BY TablesOf, Lengths
  <1>4. TablesMatchVersion
    BY <1>3, Lengths DEF Init, TablesMatchVersion
  <1>. QED  BY <1>1, <1>2, <1>4 DEF IInv

(* A step that leaves the schema and the other upgrades alone, and ends    *)
(* this one.                                                               *)
LEMMA LeaveKeeps ==
  ASSUME IInv, NEW u \in Upgraders, Leave(u), UNCHANGED <<transactional, version, tables>>, TypeOK'
  PROVE  IInv'
  <1>. USE DEF Leave
  <1>1. \A v \in Upgraders : Busy(v)' => v # u /\ Busy(v) /\ upgrade'[v] = upgrade[v]
    BY DEF IInv, TypeOK, Busy
  <1>2. Placed'
    BY <1>1 DEF IInv, Placed, Script
  <1>3. HasCreated'
    BY <1>1 DEF IInv, HasCreated, Uncommitted, Past
  <1>4. FromCurrent' /\ UpgradesApart'
    BY <1>1 DEF IInv, FromCurrent, UpgradesApart, Began
  <1>5. TablesMatchVersion'
    BY DEF IInv, TablesMatchVersion
  <1>. QED  BY <1>2, <1>3, <1>4, <1>5 DEF IInv

(* A step of one upgrade, u, that goes on: what is left to show of it.     *)
LEMMA OthersKeep ==
  ASSUME IInv, NEW u \in Upgraders, NEW mine, upgrade' = [upgrade EXCEPT ![u] = mine]
  PROVE  /\ upgrade'[u] = mine
         /\ \A v \in Upgraders \ {u} : upgrade'[v] = upgrade[v]
  BY DEF IInv, TypeOK

LEMMA BeginKeeps ==
  ASSUME IInv, NEW u \in Upgraders, NEW h \in Heads, Begin(u, h), TypeOK'
  PROVE  IInv'
  <1>. DEFINE mine == [from |-> version, to |-> h, next |-> version + 1, stmt |-> 1,
                       tables |-> {}, rows |-> {}]
  <1>1. /\ upgrade'[u] = mine /\ UNCHANGED <<transactional, version, tables>>
        /\ \A v \in Upgraders \ {u} : upgrade'[v] = upgrade[v]
    BY OthersKeep DEF Begin, schema
  <1>2. /\ version \in 0..Latest /\ version < Latest /\ version + 1 \in 1..Latest
        /\ version + 1 <= h
    BY Lengths, HeadsAssumption DEF IInv, TypeOK, Begin
  <1>3. Placed'
    <2>. SUFFICES ASSUME NEW v \in Upgraders, Busy(v)'
                  PROVE  (/\ upgrade[v].stmt <= Len(Script(v)) + 1
                          /\ upgrade[v].from < upgrade[v].next /\ upgrade[v].from <= version
                          /\ upgrade[v].next <= upgrade[v].to
                          /\ ~transactional => upgrade[v].from + 1 = upgrade[v].next /\ upgrade[v].tables = {})'
      BY DEF Placed
    <2>1. CASE v = u
      BY <1>1, <1>2, <2>1, ScriptLength DEF Script
    <2>2. CASE v # u
      BY <1>1, <2>2 DEF IInv, Placed, Busy, Script
    <2>. QED  BY <2>1, <2>2
  <1>4. ~Began(u)'
    BY <1>1, <1>2 DEF Began
  <1>5. \A v \in Upgraders \ {u} : Began(v)' <=> Began(v)
    BY <1>1 DEF Began, Busy
  <1>6. FromCurrent' /\ UpgradesApart'
    BY <1>1, <1>4, <1>5 DEF IInv, FromCurrent, UpgradesApart
  <1>7. \A t : ~Uncommitted(u, t)'
    BY <1>1, <1>2, Lengths DEF Uncommitted, Past, Creates
  <1>8. HasCreated'
    <2>. SUFFICES ASSUME NEW v \in Upgraders, Busy(v)'
                  PROVE  (IF transactional
                          THEN \A t : t \in upgrade[v].tables <=> Uncommitted(v, t)
                          ELSE \A s \in 1..3 :
                                  Creates(upgrade[v].next, s) /\ upgrade[v].stmt > s
                                  => Table(upgrade[v].next, s) \in tables)'
      BY DEF HasCreated
    <2>1. CASE v = u
      BY <1>1, <1>7, <2>1
    <2>2. CASE v # u
      BY <1>1, <2>2 DEF IInv, HasCreated, Busy, Uncommitted, Past
    <2>. QED  BY <2>1, <2>2
  <1>9. TablesMatchVersion'
    BY <1>1 DEF IInv, TablesMatchVersion
  <1>. QED  BY <1>3, <1>6, <1>8, <1>9 DEF IInv

LEMMA BackfillKeeps ==
  ASSUME IInv, NEW u \in Upgraders, Backfill(u), TypeOK'
  PROVE  IInv'
  <1>. DEFINE these == {e \in Events : row[e] = IF At(u, "enqueue") THEN "bare" ELSE "processed"}
  <1>1. /\ Busy(u) /\ UNCHANGED <<transactional, version, tables>>
        /\ upgrade[u].stmt <= Len(Script(u)) /\ Script(u)[upgrade[u].stmt].op \in {"enqueue", "requeue"}
    BY DEF Backfill, At, schema
  <1>2. /\ upgrade[u] \in Upgrade
        /\ upgrade[u].next \in 2..3 /\ upgrade[u].stmt = 2 /\ ~Creates(upgrade[u].next, 2)
        /\ Len(Script(u)) = 2 /\ Script(u) = Migration[upgrade[u].next]
    <2>1. /\ upgrade[u] \in Upgrade /\ upgrade[u].next \in 1..Latest
          /\ Script(u) = Migration[upgrade[u].next]
          /\ upgrade[u].stmt \in 1..(Len(Script(u)) + 1) /\ Len(Script(u)) \in 1..3
      BY <1>1, Stage
    <2>2. upgrade[u].stmt \in 1..Len(Migration[upgrade[u].next])
      BY <1>1, <2>1
    <2>3. upgrade[u].next \in {2, 3} /\ upgrade[u].stmt = 2
      BY <1>1, <2>1, <2>2, Backfills
    <2>4. ~Creates(upgrade[u].next, 2)
      BY <1>1, <2>1, <2>3 DEF Creates
    <2>5. Len(Migration[upgrade[u].next]) = 2
      BY <2>3, Lengths
    <2>. QED  BY <2>1, <2>3, <2>4, <2>5
  <1>3. upgrade' = [upgrade EXCEPT ![u] =
             [upgrade[u] EXCEPT !.stmt = @ + 1, !.rows = @ \cup these]]
    BY DEF Backfill
  <1>4. /\ upgrade'[u].from = upgrade[u].from /\ upgrade'[u].next = upgrade[u].next
        /\ upgrade'[u].to = upgrade[u].to
        /\ upgrade'[u].tables = upgrade[u].tables /\ upgrade'[u].stmt = 3
        /\ \A v \in Upgraders \ {u} : upgrade'[v] = upgrade[v]
    <2>. DEFINE mine == upgrade[u]
                now == [mine EXCEPT !.stmt = @ + 1, !.rows = @ \cup these]
    <2>1. /\ upgrade'[u] = now
          /\ \A v \in Upgraders \ {u} : upgrade'[v] = upgrade[v]
      BY <1>3, OthersKeep
    <2>2. /\ now.from = mine.from /\ now.next = mine.next /\ now.tables = mine.tables
          /\ now.to = mine.to
          /\ now.stmt = mine.stmt + 1
      BY <1>2 DEF Upgrade
    <2>. QED  BY <2>1, <2>2, <1>2
  <1>5. /\ Busy(u)' => Began(u) /\ Began(u)'
        /\ \A v \in Upgraders \ {u} : Began(v)' <=> Began(v)
    BY <1>1, <1>2, <1>4 DEF Began, Busy
  <1>6. FromCurrent' /\ UpgradesApart'
    BY <1>1, <1>2, <1>4, <1>5 DEF IInv, FromCurrent, UpgradesApart, Began
  <1>7. Placed'
    <2>. SUFFICES ASSUME NEW v \in Upgraders, Busy(v)'
                  PROVE  (/\ upgrade[v].stmt <= Len(Script(v)) + 1
                          /\ upgrade[v].from < upgrade[v].next /\ upgrade[v].from <= version
                          /\ upgrade[v].next <= upgrade[v].to
                          /\ ~transactional => upgrade[v].from + 1 = upgrade[v].next /\ upgrade[v].tables = {})'
      BY DEF Placed
    <2>1. CASE v = u
      BY <1>1, <1>2, <1>4, <2>1 DEF IInv, Placed, Script
    <2>2. CASE v # u
      BY <1>1, <1>4, <2>2 DEF IInv, Placed, Busy, Script
    <2>. QED  BY <2>1, <2>2
  <1>8. \A t : Uncommitted(u, t)' <=> Uncommitted(u, t)
    <2>. TAKE t
    <2>1. \A m \in 1..Latest, s \in 1..3 : Creates(m, s) => (Past(u, m, s)' <=> Past(u, m, s))
      BY <1>2, <1>4 DEF Past
    <2>. QED  BY <2>1, <1>4 DEF Uncommitted
  <1>9. HasCreated'
    <2>. SUFFICES ASSUME NEW v \in Upgraders, Busy(v)'
                  PROVE  (IF transactional
                          THEN \A t : t \in upgrade[v].tables <=> Uncommitted(v, t)
                          ELSE \A s \in 1..3 :
                                  Creates(upgrade[v].next, s) /\ upgrade[v].stmt > s
                                  => Table(upgrade[v].next, s) \in tables)'
      BY DEF HasCreated
    <2>1. CASE v = u
      BY <1>1, <1>2, <1>4, <1>8, <2>1 DEF IInv, HasCreated
    <2>2. CASE v # u
      BY <1>1, <1>4, <2>2 DEF IInv, HasCreated, Busy, Uncommitted, Past
    <2>. QED  BY <2>1, <2>2
  <1>10. TablesMatchVersion'
    BY <1>1 DEF IInv, TablesMatchVersion
  <1>. QED  BY <1>6, <1>7, <1>9, <1>10 DEF IInv

(* A table the upgrade does not find has not been created by any other, so *)
(* that it is at the migration that is next.                               *)
LEMMA TableIsNext ==
  ASSUME IInv, NEW u \in Upgraders, At(u, "create"),
         Table(upgrade[u].next, upgrade[u].stmt) \notin tables
  PROVE  /\ Creates(upgrade[u].next, upgrade[u].stmt)
         /\ version = upgrade[u].from
  <1>1. Busy(u) /\ upgrade[u].stmt <= Len(Script(u)) /\ Script(u)[upgrade[u].stmt].op = "create"
    BY DEF At
  <1>2. Creates(upgrade[u].next, upgrade[u].stmt)
    BY <1>1, Stage DEF Creates
  <1>3. CASE Began(u)
    BY <1>2, <1>3 DEF IInv, FromCurrent
  <1>4. CASE ~Began(u)
    <2>1. upgrade[u].next = upgrade[u].from + 1 /\ upgrade[u].stmt = 1
      BY <1>1, <1>4, Stage DEF Began
    <2>2. Table(upgrade[u].next, 1) \notin TablesAt(version)
      BY <2>1 DEF IInv, TablesMatchVersion
    <2>3. ~(upgrade[u].next <= version)
      BY <1>1, <1>2, <2>1, <2>2, Stage, TablesOf
    <2>. QED  BY <1>1, <1>2, <2>1, <2>3, Stage
  <1>. QED  BY <1>2, <1>3, <1>4

(* Where the next migration's first table is missing, nobody is at work.   *)
LEMMA FirstInTheWay ==
  ASSUME IInv, NEW u \in Upgraders, NEW v \in Upgraders, u # v,
         Busy(u), upgrade[u].next = upgrade[u].from + 1, upgrade[u].stmt = 1, version = upgrade[u].from,
         Table(upgrade[u].next, 1) \notin tables,
         Busy(v) => Table(upgrade[u].next, 1) \notin upgrade[v].tables
  PROVE  ~Began(v)
  <1>. SUFFICES ASSUME Began(v) PROVE FALSE
    OBVIOUS
  <1>1. Busy(v) /\ version = upgrade[v].from /\ upgrade[v].from = upgrade[u].from
    BY DEF Began, IInv, FromCurrent
  <1>2. Creates(upgrade[u].next, 1) /\ upgrade[u].next \in 1..Latest /\ upgrade[u].next = version + 1
    BY ScriptLength, Stage
  <1>3. Past(v, upgrade[u].next, 1)
    <2>1. /\ upgrade[v].next \in 1..Latest /\ upgrade[v].from \in 0..Latest
          /\ upgrade[v].stmt \in 1..4 /\ upgrade[v].from < upgrade[v].next /\ Latest = 6
      BY <1>1, Stage, Lengths
    <2>2. upgrade[v].next > upgrade[v].from + 1 \/ upgrade[v].stmt > 1
      BY DEF Began
    <2>. QED  BY <1>1, <1>2, <2>1, <2>2 DEF Past
  <1>4. CASE transactional
    <2>1. Uncommitted(v, Table(upgrade[u].next, 1))
      <3>1. upgrade[v].from < upgrade[u].next
        BY <1>1, <1>2, Stage, Lengths
      <3>. QED  BY <1>2, <1>3, <3>1 DEF Uncommitted
    <2>. QED  BY <1>1, <1>4, <2>1 DEF IInv, HasCreated
  <1>5. CASE ~transactional
    <2>1. upgrade[v].next = upgrade[u].next
      BY <1>1, <1>5, <1>2, Stage DEF IInv, Placed
    <2>2. upgrade[v].stmt > 1
      BY <1>1, <1>3, <2>1, Stage DEF Past
    <2>. QED  BY <1>1, <1>2, <1>5, <2>1, <2>2 DEF IInv, HasCreated
  <1>. QED  BY <1>4, <1>5

LEMMA CreateKeeps ==
  ASSUME IInv, NEW u \in Upgraders, CreateTable(u), TypeOK'
  PROVE  IInv'
  <1>. DEFINE mine == upgrade[u]
              t == Table(mine.next, mine.stmt)
              made == [mine EXCEPT !.stmt = @ + 1]
              held == [made EXCEPT !.tables = @ \cup {t}]
  <1>1. /\ Busy(u) /\ UNCHANGED <<transactional, version>>
        /\ At(u, "create") /\ t = Script(u)[mine.stmt].table
        /\ mine.stmt <= Len(Script(u))
    BY Stage DEF CreateTable, At, schema, Table, Script
  <1>2. CASE t \in tables
    BY <1>1, <1>2, LeaveKeeps DEF CreateTable, Exists
  <1>3. CASE t \notin tables
    <2>1. Creates(mine.next, mine.stmt) /\ version = mine.from
      BY <1>1, <1>3, TableIsNext
    <2>2. /\ upgrade' = [upgrade EXCEPT ![u] = IF transactional THEN held ELSE made]
          /\ tables' = IF transactional THEN tables ELSE tables \cup {t}
      BY <1>1, <1>3 DEF CreateTable, Exists, DDLInTransaction
    <2>3. /\ made.from = mine.from /\ made.next = mine.next /\ made.tables = mine.tables
          /\ made.to = mine.to
          /\ made.stmt = mine.stmt + 1
      BY <1>1, Stage DEF Upgrade
    <2>4. /\ held.from = mine.from /\ held.next = mine.next /\ held.to = mine.to
          /\ held.tables = mine.tables \cup {t} /\ held.stmt = mine.stmt + 1
      BY <1>1, Stage DEF Upgrade
    <2>5. /\ upgrade'[u].from = mine.from /\ upgrade'[u].next = mine.next
          /\ upgrade'[u].to = mine.to
          /\ upgrade'[u].stmt = mine.stmt + 1
          /\ upgrade'[u].tables = IF transactional THEN mine.tables \cup {t} ELSE mine.tables
          /\ \A v \in Upgraders \ {u} : upgrade'[v] = upgrade[v]
      BY <2>2, <2>3, <2>4, OthersKeep
    <2>6. \A v \in Upgraders \ {u} : Began(v)' <=> Began(v)
      BY <2>5 DEF Began, Busy
    <2>7. FromCurrent'
      BY <1>1, <2>1, <2>5, <2>6 DEF IInv, FromCurrent, Began
    <2>8. \A v \in Upgraders \ {u} : ~Began(v)
      <3>. TAKE v \in Upgraders \ {u}
      <3>1. CASE Began(u)
        BY <3>1 DEF IInv, UpgradesApart
      <3>2. CASE ~Began(u)
        <4>1. mine.next = mine.from + 1 /\ mine.stmt = 1
          BY <1>1, <3>2, Stage DEF Began
        <4>2. Busy(v) => t \notin upgrade[v].tables
          BY <1>1 DEF CreateTable
        <4>. QED  BY <1>1, <1>3, <2>1, <4>1, <4>2, FirstInTheWay
      <3>. QED  BY <3>1, <3>2
    <2>9. UpgradesApart'
      BY <2>6, <2>8 DEF UpgradesApart
    <2>10. Placed'
      <3>. SUFFICES ASSUME NEW v \in Upgraders, Busy(v)'
                    PROVE  (/\ upgrade[v].stmt <= Len(Script(v)) + 1
                            /\ upgrade[v].from < upgrade[v].next /\ upgrade[v].from <= version
                            /\ upgrade[v].next <= upgrade[v].to
                            /\ ~transactional => upgrade[v].from + 1 = upgrade[v].next /\ upgrade[v].tables = {})'
        BY DEF Placed
      <3>1. CASE v = u
        <4>1. /\ mine.from < mine.next /\ mine.from <= version /\ mine.stmt \in 1..4
              /\ mine.next <= mine.to
              /\ Len(Script(u)) \in 1..3
          BY <1>1, Stage
        <4>2. Script(u)' = Script(u)
          BY <2>5 DEF Script
        <4>3. mine.stmt + 1 <= Len(Script(u)) + 1
          BY <1>1, <4>1
        <4>4. ~transactional => mine.from + 1 = mine.next /\ mine.tables = {}
          BY <1>1 DEF IInv, Placed
        <4>. QED  BY <1>1, <2>5, <3>1, <4>1, <4>2, <4>3, <4>4
      <3>2. CASE v # u
        BY <1>1, <2>5, <3>2 DEF IInv, Placed, Busy, Script
      <3>. QED  BY <3>1, <3>2
    <2>11. HasCreated'
      <3>. SUFFICES ASSUME NEW v \in Upgraders, Busy(v)'
                    PROVE  (IF transactional
                            THEN \A x : x \in upgrade[v].tables <=> Uncommitted(v, x)
                            ELSE \A s \in 1..3 :
                                    Creates(upgrade[v].next, s) /\ upgrade[v].stmt > s
                                    => Table(upgrade[v].next, s) \in tables)'
        BY DEF HasCreated
      <3>1. CASE v # u
        <4>1. upgrade'[v] = upgrade[v] /\ Busy(v) /\ transactional' = transactional /\ tables \subseteq tables'
          BY <1>1, <2>2, <2>5, <3>1 DEF Busy
        <4>2. \A x : Uncommitted(v, x)' <=> Uncommitted(v, x)
          BY <4>1 DEF Uncommitted, Past
        <4>. QED  BY <4>1, <4>2 DEF IInv, HasCreated
      <3>2. CASE v = u /\ transactional
        <4>1. \A m \in 1..Latest, s \in 1..3 :
                 Past(u, m, s)' <=> Past(u, m, s) \/ (m = mine.next /\ s = mine.stmt)
          <5>1. mine.next \in Nat /\ mine.stmt \in Nat
            <6>1. mine.next \in 1..Latest /\ mine.stmt \in 1..4
              BY <1>1, Stage
            <6>. QED  BY <6>1, Lengths
          <5>2. upgrade'[u].next = mine.next /\ upgrade'[u].stmt = mine.stmt + 1
            BY <2>5
          <5>. HIDE DEF mine
          <5>3. \A m \in Nat, s \in Nat :
                   mine.next > m \/ (mine.next = m /\ mine.stmt + 1 > s)
                   <=> mine.next > m \/ (mine.next = m /\ mine.stmt > s) \/ (m = mine.next /\ s = mine.stmt)
            BY <5>1
          <5>4. 1..Latest \subseteq Nat /\ 1..3 \subseteq Nat
            BY Lengths
          <5>. QED  BY <5>2, <5>3, <5>4 DEF mine, Past
        <4>2. mine.next \in 1..Latest /\ mine.stmt \in 1..3 /\ mine.next > mine.from
          BY <1>1, <2>1, Stage
        <4>3. \A x : Uncommitted(u, x)' <=> Uncommitted(u, x) \/ x = t
          <5>. TAKE x
          <5>1. Uncommitted(u, x)' => Uncommitted(u, x) \/ x = t
            BY <4>1, <2>5 DEF Uncommitted
          <5>2. Uncommitted(u, x) => Uncommitted(u, x)'
            BY <4>1, <2>5 DEF Uncommitted
          <5>3. x = t => Uncommitted(u, x)'
            BY <4>1, <4>2, <2>1, <2>5 DEF Uncommitted
          <5>. QED  BY <5>1, <5>2, <5>3
        <4>. QED  BY <1>1, <2>5, <3>2, <4>3 DEF IInv, HasCreated
      <3>3. CASE v = u /\ ~transactional
        <4>1. \A s \in 1..3 : Creates(mine.next, s) /\ mine.stmt > s => Table(mine.next, s) \in tables
          BY <1>1, <3>3 DEF IInv, HasCreated
        <4>2. tables' = tables \cup {t}
          BY <2>2, <3>3
        <4>3. mine.stmt \in Nat
          BY <1>1, Stage
        <4>4. \A s \in 1..3 : Creates(mine.next, s) /\ mine.stmt + 1 > s => Table(mine.next, s) \in tables'
          <5>. TAKE s \in 1..3
          <5>1. CASE mine.stmt > s
            BY <4>1, <4>2, <5>1
          <5>2. CASE s = mine.stmt
            BY <4>2, <5>2
          <5>. QED  BY <4>3, <5>1, <5>2
        <4>5. \A s \in 1..3 : Creates(upgrade'[u].next, s) /\ upgrade'[u].stmt > s
                                => Table(upgrade'[u].next, s) \in tables'
          <5>. HIDE DEF t
          <5>. QED  BY <2>5, <4>4
        <4>6. ~transactional' /\ v = u
          BY <1>1, <3>3
        <4>. HIDE DEF mine, t
        <4>. QED  BY <4>5, <4>6
      <3>. QED  BY <3>1, <3>2, <3>3
    <2>12. TablesMatchVersion'
      <3>1. CASE transactional
        BY <1>1, <2>2, <3>1 DEF IInv, TablesMatchVersion
      <3>2. CASE ~transactional
        <4>1. mine.next = version + 1 /\ version + 1 \in 1..Latest /\ version \in 0..Latest /\ version # Latest
          <5>1. mine.from + 1 = mine.next
            BY <1>1, <3>2 DEF IInv, Placed
          <5>2. mine.next \in 1..Latest /\ version \in 0..Latest /\ Latest = 6
            BY <1>1, Stage, Lengths
          <5>. QED  BY <2>1, <5>1, <5>2
        <4>2. t \in TablesAt(version + 1)
          <5>1. mine.stmt \in 1..3 /\ mine.next \in 1..(version + 1) /\ version + 1 \in 0..Latest
            BY <1>1, <4>1, Stage, Lengths
          <5>. QED  BY <2>1, <5>1, TablesOf
        <4>. QED  BY <1>1, <2>2, <3>2, <4>1, <4>2 DEF IInv, TablesMatchVersion
      <3>. QED  BY <3>1, <3>2
    <2>. QED  BY <2>7, <2>9, <2>10, <2>11, <2>12 DEF IInv
  <1>. QED  BY <1>2, <1>3

(* The scripts of the migrations the upgrade has come through make the     *)
(* tables up to the one it stamps.                                         *)
LEMMA StampedTables ==
  ASSUME IInv, NEW u \in Upgraders, Busy(u), upgrade[u].stmt > Len(Script(u)),
         version = upgrade[u].from
  PROVE  /\ Began(u)
         /\ transactional => tables \cup upgrade[u].tables = TablesAt(upgrade[u].next)
         /\ ~transactional => TablesAt(upgrade[u].next) \subseteq tables
  <1>. DEFINE mine == upgrade[u]
  <1>1. /\ mine.next \in 1..Latest /\ mine.from \in 0..Latest /\ mine.from < mine.next
        /\ mine.stmt = Len(Migration[mine.next]) + 1 /\ Len(Migration[mine.next]) \in 1..3
        /\ mine.stmt \in 2..4
    <2>1. /\ mine.next \in 1..Latest /\ mine.from \in 0..Latest /\ mine.from < mine.next
          /\ Script(u) = Migration[mine.next] /\ Len(Script(u)) \in 1..3
          /\ mine.stmt \in 1..(Len(Script(u)) + 1)
      BY Stage
    <2>. DEFINE n == Len(Script(u))
    <2>2. n \in 1..3 /\ mine.stmt \in 1..(n + 1) /\ mine.stmt > n
      BY <2>1
    <2>. HIDE DEF n
    <2>3. mine.stmt = n + 1 /\ mine.stmt \in 2..4
      BY <2>2
    <2>. QED  BY <2>1, <2>3 DEF n
  <1>2. Began(u)
    BY <1>1 DEF Began
  <1>3. \A m \in 1..Latest, s \in 1..3 : Creates(m, s) => (Past(u, m, s) <=> m <= mine.next)
    <2>. TAKE m \in 1..Latest, s \in 1..3
    <2>. HAVE Creates(m, s)
    <2>1. s <= Len(Migration[m])
      BY DEF Creates
    <2>2. m = mine.next => mine.stmt > s
      BY <1>1, <2>1
    <2>. QED  BY <1>1, <2>2, Lengths DEF Past
  <1>4. ASSUME transactional PROVE tables \cup mine.tables = TablesAt(mine.next)
    <2>1. tables = TablesAt(mine.from)
      BY <1>4 DEF IInv, TablesMatchVersion
    <2>2. \A t : t \in mine.tables <=> Uncommitted(u, t)
      BY <1>4 DEF IInv, HasCreated
    <2>3. \A t : t \in TablesAt(mine.from) \/ Uncommitted(u, t) <=> t \in TablesAt(mine.next)
      <3>. TAKE t
      <3>1. mine.next \in 0..Latest /\ \A m \in 1..mine.next : m \in 1..Latest
        BY <1>1, Lengths
      <3>2. t \in TablesAt(mine.from) => t \in TablesAt(mine.next)
        <4>1. mine.from \in 0..Latest /\ 1..mine.from \subseteq 1..mine.next
          BY <1>1, <3>1, Lengths
        <4>. QED  BY <3>1, <4>1, TablesOf
      <3>3. Uncommitted(u, t) => t \in TablesAt(mine.next)
        <4>. SUFFICES ASSUME NEW m \in 1..Latest, NEW s \in 1..3, Creates(m, s), t = Table(m, s), Past(u, m, s)
                      PROVE  t \in TablesAt(mine.next)
          BY DEF Uncommitted
        <4>1. m \in 1..mine.next
          BY <1>1, <1>3
        <4>. QED  BY <3>1, <4>1, TablesOf
      <3>4. t \in TablesAt(mine.next) => t \in TablesAt(mine.from) \/ Uncommitted(u, t)
        <4>. SUFFICES ASSUME NEW m \in 1..mine.next, NEW s \in 1..3, Creates(m, s), t = Table(m, s)
                      PROVE  t \in TablesAt(mine.from) \/ Uncommitted(u, t)
          BY <3>1, TablesOf
        <4>1. CASE m <= mine.from
          <5>1. m \in 1..mine.from /\ mine.from \in 0..Latest
            BY <1>1, <4>1
          <5>. QED  BY <5>1, TablesOf
        <4>2. CASE ~(m <= mine.from)
          <5>1. m > mine.from /\ m <= mine.next /\ m \in 1..Latest
            BY <1>1, <3>1, <4>2
          <5>. QED  BY <1>3, <5>1 DEF Uncommitted
        <4>. QED  BY <4>1, <4>2
      <3>. QED  BY <3>2, <3>3, <3>4
    <2>. QED  BY <2>1, <2>2, <2>3
  <1>5. ASSUME ~transactional PROVE TablesAt(mine.next) \subseteq tables
    <2>1. mine.from + 1 = mine.next
      BY <1>5 DEF IInv, Placed
    <2>2. TablesAt(mine.from) \subseteq tables
      BY DEF IInv, TablesMatchVersion
    <2>3. \A s \in 1..3 : Creates(mine.next, s) => Table(mine.next, s) \in tables
      <3>1. \A s \in 1..3 : Creates(mine.next, s) /\ mine.stmt > s => Table(mine.next, s) \in tables
        BY <1>5 DEF IInv, HasCreated
      <3>2. \A s \in 1..3 : Creates(mine.next, s) => mine.stmt > s
        BY <1>1 DEF Creates
      <3>. QED  BY <3>1, <3>2
    <2>. SUFFICES ASSUME NEW t \in TablesAt(mine.next) PROVE t \in tables
      OBVIOUS
    <2>4. mine.next \in 0..Latest
      BY <1>1, Lengths
    <2>5. PICK m \in 1..mine.next, s \in 1..3 : Creates(m, s) /\ t = Table(m, s)
      BY <2>4, TablesOf
    <2>6. CASE m = mine.next
      BY <2>3, <2>5, <2>6
    <2>7. CASE m # mine.next
      <3>1. m \in 1..mine.from
        BY <1>1, <2>1, <2>7
      <3>. QED  BY <2>2, <2>5, <3>1, <1>1, TablesOf
    <2>. QED  BY <2>6, <2>7
  <1>. QED  BY <1>2, <1>4, <1>5

(* A stamp that goes through: u was at work, so nobody else was; the next  *)
(* migration, where there is one, is not begun.                            *)
LEMMA StampKeeps ==
  ASSUME IInv, NEW u \in Upgraders, Stamp(u), TypeOK'
  PROVE  IInv'
  <1>. DEFINE mine == upgrade[u]
  <1>1. Busy(u) /\ mine.stmt > Len(Script(u)) /\ UNCHANGED transactional
    BY DEF Stamp
  <1>2. CASE version # mine.from
    BY <1>1, <1>2, LeaveKeeps DEF Stamp
  <1>3. CASE version = mine.from
    <2>1. /\ mine.next \in 1..Latest /\ mine.from \in 0..Latest /\ mine.from < mine.next
          /\ mine \in Upgrade /\ Latest = 6
          /\ mine.to \in 1..Latest /\ mine.next <= mine.to
      BY <1>1, Stage, Lengths
    <2>2. /\ Began(u) /\ \A v \in Upgraders \ {u} : ~Began(v)
          /\ transactional => tables \cup mine.tables = TablesAt(mine.next)
          /\ ~transactional => TablesAt(mine.next) \subseteq tables
      BY <1>1, <1>3, StampedTables DEF IInv, UpgradesApart
    <2>3. /\ mine.next = mine.to => upgrade' = [upgrade EXCEPT ![u] = Null]
          /\ mine.next # mine.to => upgrade' = [upgrade EXCEPT ![u] = NextMigration(u)]
      BY <1>3 DEF Stamp, Leave
    <2>4. \A v \in Upgraders \ {u} : upgrade'[v] = upgrade[v]
      BY <2>3 DEF IInv, TypeOK
    <2>5. /\ mine.next = mine.to => ~Busy(u)'
          /\ mine.next # mine.to => upgrade'[u] = NextMigration(u)
      BY <2>3 DEF IInv, TypeOK, Busy
    <2>6. /\ NextMigration(u).next = mine.next + 1 /\ NextMigration(u).stmt = 1
          /\ NextMigration(u).tables = mine.tables /\ NextMigration(u).to = mine.to
          /\ NextMigration(u).from = IF transactional THEN mine.from ELSE mine.next
      BY <2>1 DEF NextMigration, Upgrade
    <2>7. \A v \in Upgraders \ {u} : ~Began(v)'
      BY <2>2, <2>4 DEF Began, Busy
    <2>8. UpgradesApart'
      BY <2>7 DEF UpgradesApart
    <2>9. IF transactional /\ mine.next # mine.to
          THEN version' = version /\ tables' = tables
          ELSE version' = mine.next /\ tables' = tables \cup mine.tables
      BY <1>3 DEF Stamp, Commit
    <2>10. FromCurrent'
      <3>. SUFFICES ASSUME Began(u)' PROVE version' = upgrade'[u].from
        BY <2>7 DEF FromCurrent
      <3>1. mine.next # mine.to
        BY <2>5 DEF Began
      <3>. QED  BY <1>3, <2>5, <2>6, <2>9, <3>1
    <2>11. Placed'
      <3>. SUFFICES ASSUME NEW v \in Upgraders, Busy(v)'
                    PROVE  (/\ upgrade[v].stmt <= Len(Script(v)) + 1
                            /\ upgrade[v].from < upgrade[v].next /\ upgrade[v].from <= version
                            /\ upgrade[v].next <= upgrade[v].to
                            /\ ~transactional => upgrade[v].from + 1 = upgrade[v].next /\ upgrade[v].tables = {})'
        BY DEF Placed
      <3>1. CASE v = u
        <4>1. /\ mine.next # mine.to /\ mine.next + 1 \in 1..Latest
              /\ mine.next + 1 <= mine.to
          BY <2>1, <2>5, <3>1
        <4>2. Len(Script(u)') \in 1..3
          BY <2>5, <2>6, <4>1, ScriptLength DEF Script
        <4>3. ~transactional => mine.tables = {}
          BY <1>1 DEF IInv, Placed
        <4>. QED  BY <1>1, <1>3, <2>1, <2>5, <2>6, <2>9, <3>1, <4>1, <4>2, <4>3
      <3>2. CASE v # u
        <4>1. upgrade[v].from <= version'
          BY <1>3, <2>1, <2>4, <2>9, <3>2, Stage DEF Busy
        <4>. QED  BY <1>1, <2>4, <3>2, <4>1 DEF IInv, Placed, Busy, Script
      <3>. QED  BY <3>1, <3>2
    <2>12. HasCreated'
      <3>. SUFFICES ASSUME NEW v \in Upgraders, Busy(v)'
                    PROVE  (IF transactional
                            THEN \A x : x \in upgrade[v].tables <=> Uncommitted(v, x)
                            ELSE \A s \in 1..3 :
                                    Creates(upgrade[v].next, s) /\ upgrade[v].stmt > s
                                    => Table(upgrade[v].next, s) \in tables)'
        BY DEF HasCreated
      <3>1. CASE v # u
        BY <1>1, <2>4, <2>9, <3>1 DEF IInv, HasCreated, Busy, Uncommitted, Past
      <3>2. CASE v = u /\ transactional
        <4>1. mine.next # mine.to
          BY <2>5, <3>2
        <4>2. \A m \in 1..Latest, s \in 1..3 : Creates(m, s) => (Past(u, m, s)' <=> Past(u, m, s))
          <5>. SUFFICES ASSUME NEW m \in 1..Latest, NEW s \in 1..3, Creates(m, s)
                        PROVE  Past(u, m, s)' <=> Past(u, m, s)
            OBVIOUS
          <5>1. m = mine.next => mine.stmt > s
            BY <1>1, Stage DEF Creates
          <5>. QED  BY <2>1, <2>5, <2>6, <4>1, <5>1 DEF Past
        <4>3. \A x : Uncommitted(u, x)' <=> Uncommitted(u, x)
          BY <2>5, <2>6, <3>2, <4>1, <4>2 DEF Uncommitted
        <4>. QED  BY <1>1, <2>5, <2>6, <3>2, <4>1, <4>3 DEF IInv, HasCreated
      <3>3. CASE v = u /\ ~transactional
        BY <1>1, <2>5, <2>6, <3>3
      <3>. QED  BY <3>1, <3>2, <3>3
    <2>13. TablesMatchVersion'
      <3>1. CASE transactional /\ mine.next # mine.to
        BY <1>1, <2>9, <3>1 DEF IInv, TablesMatchVersion
      <3>2. CASE transactional /\ mine.next = mine.to
        BY <1>1, <2>2, <2>9, <3>2 DEF TablesMatchVersion
      <3>3. CASE ~transactional
        <4>1. mine.tables = {} /\ mine.next = version + 1 /\ version # Latest /\ version \in 0..Latest
          BY <1>1, <1>3, <2>1, <3>3 DEF IInv, Placed
        <4>2. tables \subseteq TablesAt(mine.next)
          BY <3>3, <4>1 DEF IInv, TablesMatchVersion
        <4>3. mine.next # Latest => TablesAt(mine.next) \subseteq TablesAt(mine.next + 1)
          <5>. SUFFICES ASSUME mine.next # Latest, NEW t \in TablesAt(mine.next)
                        PROVE  t \in TablesAt(mine.next + 1)
            OBVIOUS
          <5>1. mine.next \in 0..Latest /\ mine.next + 1 \in 0..Latest
            BY <2>1
          <5>2. PICK m \in 1..mine.next, s \in 1..3 : Creates(m, s) /\ t = Table(m, s)
            BY <5>1, TablesOf
          <5>3. m \in 1..(mine.next + 1)
            BY <5>1
          <5>. QED  BY <5>1, <5>2, <5>3, TablesOf
        <4>. QED  BY <1>1, <2>2, <2>9, <3>3, <4>1, <4>2, <4>3 DEF TablesMatchVersion
      <3>. QED  BY <3>1, <3>2, <3>3
    <2>. QED  BY <2>8, <2>10, <2>11, <2>12, <2>13 DEF IInv
  <1>. QED  BY <1>2, <1>3

(* What the programs do leaves the schema and the upgrades alone.          *)
LEMMA ProgramKeeps ==
  ASSUME IInv, UNCHANGED <<schema, upgrade>>, TypeOK'
  PROVE  IInv'
  <1>1. Placed' /\ FromCurrent' /\ UpgradesApart'
    BY DEF IInv, Placed, FromCurrent, UpgradesApart, Began, Busy, Script, schema
  <1>2. HasCreated' /\ TablesMatchVersion'
    BY DEF IInv, HasCreated, TablesMatchVersion, Uncommitted, Past, Busy, schema
  <1>. QED  BY <1>1, <1>2 DEF IInv

-----------------------------------------------------------------------------
LEMMA BeginTyped ==
  ASSUME IInv, NEW u \in Upgraders, NEW h \in Heads, Begin(u, h)
  PROVE  TypeOK'
  <1>1. [from |-> version, to |-> h, next |-> version + 1, stmt |-> 1,
         tables |-> {}, rows |-> {}] \in Upgrade
    BY Lengths, HeadsAssumption DEF Begin, IInv, TypeOK, Upgrade
  <1>. QED  BY <1>1 DEF Begin, IInv, TypeOK, schema, queue, history

LEMMA LeaveTyped ==
  ASSUME IInv, NEW u \in Upgraders, Leave(u), UNCHANGED <<schema, running, queue, history>>
  PROVE  TypeOK'
  BY DEF Leave, IInv, TypeOK, schema, queue, history

LEMMA Fields ==
  ASSUME NEW mine \in Upgrade
  PROVE  /\ mine.from \in 0..Latest /\ mine.next \in 1..Latest /\ mine.stmt \in 1..4
         /\ mine.to \in 1..Latest
         /\ mine.tables \subseteq TablesAt(Latest) /\ mine.rows \subseteq Events
         /\ mine = [from |-> mine.from, to |-> mine.to, next |-> mine.next, stmt |-> mine.stmt,
                    tables |-> mine.tables, rows |-> mine.rows]
  BY DEF Upgrade

LEMMA CreateTyped ==
  ASSUME IInv, NEW u \in Upgraders, CreateTable(u)
  PROVE  TypeOK'
  <1>. DEFINE mine == upgrade[u]
              t == Table(mine.next, mine.stmt)
              made == [mine EXCEPT !.stmt = @ + 1]
  <1>1. /\ Busy(u) /\ At(u, "create") /\ t = Script(u)[mine.stmt].table
        /\ mine.stmt <= Len(Script(u)) /\ Script(u)[mine.stmt].op = "create"
        /\ UNCHANGED <<transactional, version, running, queue, history>>
    BY Stage DEF CreateTable, At, Table, Script
  <1>2. /\ mine \in Upgrade /\ Creates(mine.next, mine.stmt)
        /\ mine.next \in 1..Latest /\ mine.stmt \in 1..3
    <2>. DEFINE n == Len(Script(u))
    <2>1. /\ mine \in Upgrade /\ mine.next \in 1..Latest /\ mine.stmt \in 1..4
          /\ n \in 1..3 /\ mine.stmt <= n /\ Script(u) = Migration[mine.next]
      BY <1>1, Stage
    <2>2. Creates(mine.next, mine.stmt)
      BY <1>1, <2>1 DEF Creates
    <2>. HIDE DEF n
    <2>. QED  BY <2>1, <2>2
  <1>3. t \in TablesAt(Latest)
    BY <1>2, TablesOf, Lengths
  <1>4. made \in Upgrade /\ [made EXCEPT !.tables = @ \cup {t}] \in Upgrade
    <2>1. made = [from |-> mine.from, to |-> mine.to, next |-> mine.next, stmt |-> mine.stmt + 1,
                  tables |-> mine.tables, rows |-> mine.rows]
      BY <1>2, Fields
    <2>2. made \in Upgrade
      BY <1>2, <2>1, Fields DEF Upgrade
    <2>. HIDE DEF made, t
    <2>3. made.tables \cup {t} \in SUBSET TablesAt(Latest)
      BY <1>3, <2>2, Fields
    <2>4. \A ts \in SUBSET TablesAt(Latest) : [made EXCEPT !.tables = ts] \in Upgrade
      BY <2>2 DEF Upgrade
    <2>. QED  BY <2>2, <2>3, <2>4
  <1>5. upgrade' \in [Upgraders -> Upgrade \cup {Null}] /\ tables' \subseteq TablesAt(Latest)
    BY <1>1, <1>3, <1>4 DEF CreateTable, Leave, IInv, TypeOK
  <1>. QED  BY <1>1, <1>5 DEF IInv, TypeOK, queue, history

LEMMA BackfillTyped ==
  ASSUME IInv, NEW u \in Upgraders, Backfill(u)
  PROVE  TypeOK'
  <1>. DEFINE these == {e \in Events : row[e] = IF At(u, "enqueue") THEN "bare" ELSE "processed"}
              now == [upgrade[u] EXCEPT !.stmt = @ + 1,
                                        !.rows = @ \cup these]
  <1>1. /\ Busy(u) /\ upgrade[u].stmt <= Len(Script(u))
        /\ UNCHANGED <<schema, running, queue, late>> /\ missed' = missed \ these
        /\ upgrade' = [upgrade EXCEPT ![u] = now]
    BY DEF Backfill, At
  <1>2. upgrade[u] \in Upgrade /\ upgrade[u].stmt \in 1..3
    <2>. DEFINE n == Len(Script(u))
    <2>1. /\ upgrade[u] \in Upgrade /\ upgrade[u].stmt \in 1..4
          /\ n \in 1..3 /\ upgrade[u].stmt <= n
      BY <1>1, Stage
    <2>. HIDE DEF n
    <2>. QED  BY <2>1
  <1>3. now \in Upgrade
    <2>1. /\ upgrade[u].stmt + 1 \in 1..4
          /\ upgrade[u].rows \cup these \in SUBSET Events
      BY <1>2, Fields
    <2>2. \A n \in 1..4, rs \in SUBSET Events :
             [upgrade[u] EXCEPT !.stmt = n, !.rows = rs] \in Upgrade
      BY <1>2 DEF Upgrade
    <2>. QED  BY <2>1, <2>2
  <1>. QED  BY <1>1, <1>3 DEF IInv, TypeOK, schema, queue, history

LEMMA StampTyped ==
  ASSUME IInv, NEW u \in Upgraders, Stamp(u)
  PROVE  TypeOK'
  <1>. DEFINE mine == upgrade[u]
  <1>1. /\ Busy(u) /\ UNCHANGED <<transactional, running, sampled, history>>
        /\ mine \in Upgrade /\ mine.next \in 1..Latest /\ Latest = 6
        /\ mine.to \in 1..Latest /\ mine.next <= mine.to
    BY Stage, Lengths DEF Stamp
  <1>2. /\ mine.tables \subseteq TablesAt(Latest) /\ mine.rows \subseteq Events
        /\ mine.next \in 0..Latest
    BY <1>1 DEF Upgrade
  <1>3. mine.next # mine.to => NextMigration(u) \in Upgrade
    <2>1. /\ mine.next # mine.to => mine.next + 1 \in 1..Latest
          /\ mine.next \in 0..Latest /\ mine.from \in 0..Latest /\ 1 \in 1..4
          /\ mine.rows \in SUBSET Events /\ {} \in SUBSET Events
      BY <1>1, Fields
    <2>2. \A f \in 0..Latest, n \in 1..Latest, k \in 1..4, rs \in SUBSET Events :
             [mine EXCEPT !.next = n, !.stmt = k, !.from = f, !.rows = rs] \in Upgrade
      BY <1>1 DEF Upgrade
    <2>3. /\ (IF transactional THEN mine.from ELSE mine.next) \in 0..Latest
          /\ (IF transactional THEN mine.rows ELSE {}) \in SUBSET Events
      BY <2>1
    <2>. QED  BY <2>1, <2>2, <2>3 DEF NextMigration
  <1>4. upgrade' \in [Upgraders -> Upgrade \cup {Null}]
    BY <1>3 DEF Stamp, Leave, IInv, TypeOK
  <1>5. \/ UNCHANGED <<version, tables, row, holder>>
        \/ Commit(u)
    BY DEF Stamp
  <1>6. Commit(u) => /\ version' \in 0..Latest /\ tables' \subseteq TablesAt(Latest)
                    /\ row' \in [Events -> Statuses] /\ holder' \in [Events -> Workers \cup {Null}]
    BY <1>2 DEF Commit, IInv, TypeOK, Statuses
  <1>. QED  BY <1>1, <1>4, <1>5, <1>6 DEF IInv, TypeOK, history

LEMMA ProgramTyped ==
  ASSUME TypeOK,
         \/ \E p \in Programs : Start(p) \/ Stop(p)
         \/ \E e \in Events : StoreBare(e) \/ Store(e) \/ Sample(e)
         \/ \E w \in Workers, e \in Events : Working(w, e)
  PROVE  TypeOK' /\ UNCHANGED <<schema, upgrade>>
  <1>1. ASSUME NEW p \in Programs, Start(p) \/ Stop(p)
        PROVE  TypeOK' /\ UNCHANGED <<schema, upgrade>>
    BY <1>1 DEF Start, Stop, TypeOK, schema, queue, history
  <1>2. ASSUME NEW e \in Events, StoreBare(e)
        PROVE  TypeOK' /\ UNCHANGED <<schema, upgrade>>
    BY <1>2 DEF StoreBare, TypeOK, Statuses, schema
  <1>3. ASSUME NEW e \in Events, Store(e) \/ Sample(e)
        PROVE  TypeOK' /\ UNCHANGED <<schema, upgrade>>
    BY <1>3 DEF Store, Sample, TypeOK, Statuses, schema, history
  <1>4. ASSUME NEW w \in Workers, NEW e \in Events, Claim(w, e)
        PROVE  TypeOK' /\ UNCHANGED <<schema, upgrade>>
    BY <1>4 DEF Claim, TypeOK, Statuses, schema, history
  <1>5. ASSUME NEW w \in Workers, NEW e \in Events, Complete(w, e)
        PROVE  TypeOK' /\ UNCHANGED <<schema, upgrade>>
    BY <1>5 DEF Complete, Release, TypeOK, Statuses, schema
  <1>6. ASSUME NEW w \in Workers, NEW e \in Events, Fail(w, e)
        PROVE  TypeOK' /\ UNCHANGED <<schema, upgrade>>
    BY <1>6 DEF Fail, Release, TypeOK, Statuses, schema, history
  <1>. QED  BY <1>1, <1>2, <1>3, <1>4, <1>5, <1>6 DEF Working

LEMMA CrashKeeps ==
  ASSUME IInv, NEW u \in Upgraders, Crash(u)
  PROVE  IInv'
  <1>1. Leave(u) /\ UNCHANGED <<schema, running, queue, history>>
    BY DEF Crash
  <1>. QED  BY <1>1, LeaveTyped, LeaveKeeps DEF schema

LEMMA StepIInv == IInv /\ [Next]_vars => IInv'
  <1>. SUFFICES ASSUME IInv, [Next]_vars PROVE IInv'
    OBVIOUS
  <1>1. CASE UNCHANGED vars
    <2>1. TypeOK' /\ UNCHANGED <<schema, upgrade>>
      BY <1>1 DEF IInv, TypeOK, vars, schema, queue, history
    <2>. QED  BY <2>1, ProgramKeeps
  <1>2. ASSUME NEW u \in Upgraders, Upgrading(u) \/ Crash(u) PROVE IInv'
    BY <1>2, BeginTyped, BeginKeeps, CreateTyped, CreateKeeps, BackfillTyped, BackfillKeeps,
       StampTyped, StampKeeps, CrashKeeps DEF Upgrading
  <1>3. CASE \/ \E p \in Programs : Start(p) \/ Stop(p)
             \/ \E e \in Events : StoreBare(e) \/ Store(e) \/ Sample(e)
             \/ \E w \in Workers, e \in Events : Working(w, e)
    BY <1>3, ProgramTyped, ProgramKeeps DEF IInv
  <1>. QED  BY <1>1, <1>2, <1>3 DEF Next

LEMMA Inductive == Spec => []IInv
  BY InitIInv, StepIInv, PTL DEF Spec

(* The values of every variable, among them where an upgrade can stand.    *)
THEOREM UpgradeTyped == Spec => []TypeOK
  <1>1. IInv => TypeOK
    BY DEF IInv
  <1>. QED  BY <1>1, Inductive, PTL

(* The version stamped tells the tables (migrations/env.py): whatever the  *)
(* crashes, and however many upgrades meet.                                *)
THEOREM VersionTellsTables == Spec => []TablesMatchVersion
  <1>1. IInv => TablesMatchVersion
    BY DEF IInv
  <1>. QED  BY <1>1, Inductive, PTL

(* Two upgrades are never both at work, with no lock but the tables.       *)
THEOREM OneUpgradeAtWork == Spec => []UpgradesApart
  <1>1. IInv => UpgradesApart
    BY DEF IInv
  <1>. QED  BY <1>1, Inductive, PTL

-----------------------------------------------------------------------------
(* The rows.  What runs was started on a schema that serves it; what is    *)
(* leased is being processed; there are no samples before the table for    *)
(* them; an upgrade from 0003 or later collects no row, and one that is    *)
(* past a backfill has collected whatever it is for.                       *)
Fits == \A p \in running : version >= Needs[p]
Leased == \A e \in Events : holder[e] # Null => row[e] = "processing"
Unsampled == sampled # {} => version >= 3

OldRows == \A u \in Upgraders : Busy(u) /\ upgrade[u].rows # {} => upgrade[u].from < 3

PastEnqueue(u) == version < 2 /\ Past(u, 2, 2)
PastRequeue(u) == version < 3 /\ Past(u, 3, 2)
Collected ==
    \A u \in Upgraders : Busy(u) =>
        /\ PastEnqueue(u) => \A e \in Events : row[e] = "bare" => e \in upgrade[u].rows
        /\ PastRequeue(u) => \A e \in Events : row[e] = "processed" => e \in upgrade[u].rows \cup missed

RowInv ==
    /\ Fits /\ Leased /\ Unsampled /\ OldRows /\ Collected
    /\ NothingForgotten /\ BackfillReaches

(* No event is on record before the first migration.                       *)
THEOREM InitRowInv == Init => RowInv
  BY DEF Init, RowInv, Fits, Leased, Unsampled, OldRows, Collected, Busy, NothingForgotten, BackfillReaches

(* An upgrade that has not begun is past nothing that is still to come.    *)
LEMMA PastIsBegun ==
  ASSUME IInv, NEW u \in Upgraders, Busy(u), PastEnqueue(u) \/ PastRequeue(u)
  PROVE  Began(u) /\ version = upgrade[u].from
  <1>1. CASE ~Began(u)
    <2>1. upgrade[u].next = upgrade[u].from + 1 /\ upgrade[u].stmt = 1 /\ upgrade[u].from <= version
      BY <1>1, Stage DEF Began
    <2>2. upgrade[u].from \in Nat /\ version \in Nat
      <3>1. upgrade[u].from \in 0..Latest /\ version \in 0..Latest
        BY Stage
      <3>. QED  BY <3>1, Lengths
    <2>3. PastEnqueue(u) \/ PastRequeue(u)
      OBVIOUS
    <2>4. ~PastEnqueue(u)
      BY <2>1, <2>2 DEF PastEnqueue, Past
    <2>5. ~PastRequeue(u)
      BY <2>1, <2>2 DEF PastRequeue, Past
    <2>. QED  BY <2>3, <2>4, <2>5
  <1>2. CASE Began(u)
    BY <1>2 DEF IInv, FromCurrent
  <1>. QED  BY <1>1, <1>2

(* Past the backfill of 0002, and before the commit, nothing is stored: the *)
(* new foreign key or the database lock is in the way.                     *)
LEMMA NoInsertPastEnqueue ==
  ASSUME IInv, NEW u \in Upgraders, Busy(u), PastEnqueue(u)
  PROVE  ~Insertable
  <1>1. Began(u) /\ version = upgrade[u].from /\ version < 2 /\ Past(u, 2, 2)
    BY PastIsBegun DEF PastEnqueue
  <1>2. CASE transactional
    <2>1. Creates(2, 1) /\ Table(2, 1) = "telemetry_pipeline_queue" /\ 2 \in 1..Latest
      BY Lengths, Statements DEF Creates, Create, Table
    <2>2. Past(u, 2, 1) /\ 2 > upgrade[u].from
      <3>1. upgrade[u].stmt \in Nat /\ upgrade[u].next \in Nat
        BY Stage, Lengths
      <3>. QED  BY <1>1, <3>1 DEF Past
    <2>3. "telemetry_pipeline_queue" \in upgrade[u].tables
      BY <1>2, <2>1, <2>2 DEF IInv, HasCreated, Uncommitted
    <2>. QED  BY <2>3 DEF Insertable, References
  <1>3. CASE ~transactional
    <2>1. upgrade[u].next = upgrade[u].from + 1
      BY <1>3 DEF IInv, Placed
    <2>2. upgrade[u].next = 2 /\ upgrade[u].stmt > 2 /\ Len(Script(u)) = 2 /\ Script(u) = Migration[2]
      <3>1. upgrade[u].next \in Nat /\ upgrade[u].from \in Nat /\ Script(u) = Migration[upgrade[u].next]
        BY Stage, Lengths
      <3>2. upgrade[u].next = 2 /\ upgrade[u].stmt > 2
        BY <1>1, <2>1, <3>1 DEF Past
      <3>. QED  BY <3>1, <3>2, Lengths
    <2>3. upgrade[u].stmt - 1 = 2 /\ upgrade[u].stmt > 1
      <3>1. upgrade[u].stmt \in 1..(Len(Script(u)) + 1)
        BY Stage
      <3>. QED  BY <2>2, <3>1
    <2>4. Script(u)[upgrade[u].stmt - 1].op # "create"
      BY <2>2, <2>3, Statements DEF Enqueue
    <2>. QED  BY <1>3, <2>3, <2>4 DEF Insertable, Writable, Writing
  <1>. QED  BY <1>2, <1>3

(* A step of the upgrades that changes no row.                             *)
LEMMA SameRows ==
  ASSUME RowInv, UNCHANGED <<version, running, row, holder, sampled, late, missed>>,
         Collected', OldRows'
  PROVE  RowInv'
  BY DEF RowInv, Fits, Leased, Unsampled, NothingForgotten, BackfillReaches

LEMMA LeaveRows ==
  ASSUME IInv, RowInv, NEW u \in Upgraders, Leave(u), UNCHANGED <<version, running, queue, history>>
  PROVE  RowInv'
  <1>1. \A v \in Upgraders : Busy(v)' => Busy(v) /\ upgrade'[v] = upgrade[v]
    BY DEF IInv, TypeOK, Busy, Leave
  <1>2. Collected'
    BY <1>1 DEF RowInv, Collected, PastEnqueue, PastRequeue, Past, queue, history
  <1>3. OldRows'
    BY <1>1 DEF RowInv, OldRows
  <1>. QED  BY <1>2, <1>3, SameRows DEF queue, history

LEMMA BeginRows ==
  ASSUME IInv, RowInv, NEW u \in Upgraders, NEW h \in Heads, Begin(u, h)
  PROVE  RowInv'
  <1>1. /\ upgrade'[u].next = version + 1 /\ upgrade'[u].stmt = 1 /\ upgrade'[u].rows = {}
        /\ \A v \in Upgraders \ {u} : upgrade'[v] = upgrade[v]
        /\ UNCHANGED <<version, running, row, holder, sampled, late, missed>> /\ version \in Nat
    BY OthersKeep DEF Begin, schema, queue, history, IInv, TypeOK
  <1>2. ~PastEnqueue(u)' /\ ~PastRequeue(u)'
    BY <1>1 DEF PastEnqueue, PastRequeue, Past
  <1>3. \A v \in Upgraders \ {u} :
          /\ Busy(v)' <=> Busy(v)
          /\ PastEnqueue(v)' <=> PastEnqueue(v)
          /\ PastRequeue(v)' <=> PastRequeue(v)
    BY <1>1 DEF Busy, PastEnqueue, PastRequeue, Past
  <1>4. Collected'
    BY <1>1, <1>2, <1>3 DEF RowInv, Collected
  <1>5. OldRows'
    BY <1>1, <1>3 DEF RowInv, OldRows
  <1>. QED  BY <1>1, <1>4, <1>5, SameRows

LEMMA CreateRows ==
  ASSUME IInv, RowInv, NEW u \in Upgraders, CreateTable(u)
  PROVE  RowInv'
  <1>. DEFINE mine == upgrade[u]
              t == Script(u)[mine.stmt].table
              made == [mine EXCEPT !.stmt = @ + 1]
              held == [made EXCEPT !.tables = @ \cup {t}]
  <1>1. /\ At(u, "create") /\ Busy(u) /\ UNCHANGED <<version, running, row, holder, sampled, late, missed>>
        /\ mine.stmt <= Len(Script(u)) /\ Script(u)[mine.stmt].op = "create"
    BY DEF CreateTable, At, queue, history
  <1>2. CASE t \in tables
    BY <1>1, <1>2, LeaveRows DEF CreateTable, Exists, queue, history
  <1>3. CASE t \notin tables
    <2>1. \/ upgrade' = [upgrade EXCEPT ![u] = held]
          \/ upgrade' = [upgrade EXCEPT ![u] = made]
      BY <1>3 DEF CreateTable, Exists, DDLInTransaction
    <2>2. mine \in Upgrade /\ mine.stmt \in 1..4
      BY <1>1, Stage
    <2>3. /\ held.next = mine.next /\ held.stmt = mine.stmt + 1 /\ held.rows = mine.rows
          /\ made.next = mine.next /\ made.stmt = mine.stmt + 1 /\ made.rows = mine.rows
          /\ held.from = mine.from /\ made.from = mine.from
      BY <2>2 DEF Upgrade
    <2>4. /\ upgrade'[u].next = mine.next /\ upgrade'[u].stmt = mine.stmt + 1
          /\ upgrade'[u].rows = mine.rows /\ upgrade'[u].from = mine.from
          /\ \A v \in Upgraders \ {u} : upgrade'[v] = upgrade[v]
      BY <2>1, <2>3, OthersKeep
    <2>5. Creates(mine.next, mine.stmt)
      BY <1>1, Stage DEF Creates
    <2>6. ~(mine.next \in {2, 3} /\ mine.stmt = 2)
      BY <2>5, Statements DEF Creates, Enqueue, Requeue
    <2>7. (PastEnqueue(u)' => PastEnqueue(u)) /\ (PastRequeue(u)' => PastRequeue(u))
      BY <1>1, <2>2, <2>4, <2>6 DEF PastEnqueue, PastRequeue, Past
    <2>8. \A v \in Upgraders \ {u} :
            /\ Busy(v)' <=> Busy(v)
            /\ PastEnqueue(v)' <=> PastEnqueue(v)
            /\ PastRequeue(v)' <=> PastRequeue(v)
      BY <1>1, <2>4 DEF Busy, PastEnqueue, PastRequeue, Past
    <2>9. Collected'
      BY <1>1, <2>4, <2>7, <2>8 DEF RowInv, Collected
    <2>10. OldRows'
      BY <1>1, <2>4, <2>8 DEF RowInv, OldRows
    <2>. QED  BY <1>1, <2>9, <2>10, SameRows
  <1>. QED  BY <1>2, <1>3

LEMMA BackfillRows ==
  ASSUME IInv, RowInv, NEW u \in Upgraders, Backfill(u)
  PROVE  RowInv'
  <1>. DEFINE these == {e \in Events : row[e] = IF At(u, "enqueue") THEN "bare" ELSE "processed"}
              mine == upgrade[u]
              now == [mine EXCEPT !.stmt = @ + 1, !.rows = @ \cup these]
  <1>1. /\ Busy(u) /\ UNCHANGED <<version, running, row, holder, sampled, late>>
        /\ missed' = missed \ these
        /\ mine.stmt <= Len(Script(u)) /\ (At(u, "enqueue") \/ At(u, "requeue"))
        /\ Script(u)[mine.stmt].op \in {"enqueue", "requeue"}
        /\ upgrade' = [upgrade EXCEPT ![u] = now]
    BY DEF Backfill, At, schema, queue, history
  <1>2. /\ mine \in Upgrade /\ mine.stmt \in 1..4
        /\ Script(u)[mine.stmt].op = "enqueue" <=> mine.next = 2
        /\ mine.next \in {2, 3} /\ mine.stmt = 2
    <2>1. /\ mine \in Upgrade /\ mine.stmt \in 1..4 /\ mine.next \in 1..Latest
          /\ Script(u) = Migration[mine.next] /\ mine.stmt \in 1..Len(Migration[mine.next])
      <3>. DEFINE n == Len(Script(u))
      <3>1. /\ mine \in Upgrade /\ mine.stmt \in 1..4 /\ mine.next \in 1..Latest
            /\ Script(u) = Migration[mine.next] /\ n \in 1..3 /\ mine.stmt <= n
        BY <1>1, Stage
      <3>. HIDE DEF n
      <3>2. mine.stmt \in 1..n
        BY <3>1
      <3>. QED  BY <3>1, <3>2 DEF n
    <2>2. Script(u)[mine.stmt].op \in {"enqueue", "requeue"} /\ "enqueue" # "requeue"
      BY <1>1
    <2>. QED  BY <2>1, <2>2, Backfills
  <1>3. /\ now.next = mine.next /\ now.stmt = 3 /\ now.from = mine.from
        /\ now.rows = mine.rows \cup these
    BY <1>2 DEF Upgrade
  <1>4. /\ upgrade'[u] = now
        /\ \A v \in Upgraders \ {u} : upgrade'[v] = upgrade[v]
    BY <1>1, OthersKeep
  <1>5. these = {e \in Events : row[e] = IF mine.next = 2 THEN "bare" ELSE "processed"}
    BY <1>1, <1>2 DEF At
  <1>6. PastEnqueue(u)' => PastEnqueue(u) \/ mine.next = 2
    BY <1>1, <1>2, <1>3, <1>4 DEF PastEnqueue, Past
  <1>7. PastRequeue(u)' => PastRequeue(u) \/ mine.next = 3
    BY <1>1, <1>2, <1>3, <1>4 DEF PastRequeue, Past
  <1>8. \A v \in Upgraders \ {u} :
          /\ Busy(v)' <=> Busy(v)
          /\ PastEnqueue(v)' <=> PastEnqueue(v)
          /\ PastRequeue(v)' <=> PastRequeue(v)
    BY <1>1, <1>4 DEF Busy, PastEnqueue, PastRequeue, Past
  <1>9. /\ Began(u) /\ version = mine.from /\ mine.from < 3
        /\ \A v \in Upgraders \ {u} : Busy(v) => ~PastRequeue(v)
    <2>1. Began(u) /\ version = mine.from
      BY <1>1, <1>2 DEF Began, IInv, FromCurrent
    <2>2. mine.from < mine.next /\ mine.from \in 0..Latest
      BY <1>1, Stage
    <2>3. \A v \in Upgraders \ {u} : Busy(v) => ~PastRequeue(v)
      BY <2>1, PastIsBegun DEF IInv, UpgradesApart
    <2>. QED  BY <1>2, <2>1, <2>2, <2>3, Lengths
  <1>. HIDE DEF these, now
  <1>10. Collected'
    <2>. SUFFICES ASSUME NEW v \in Upgraders, Busy(v)'
                  PROVE  (/\ PastEnqueue(v) => \A e \in Events : row[e] = "bare" => e \in upgrade[v].rows
                          /\ PastRequeue(v) => \A e \in Events : row[e] = "processed" => e \in upgrade[v].rows \cup missed)'
      BY DEF Collected
    <2>1. CASE v = u
      <3>1. PastEnqueue(u)' => \A e \in Events : row[e] = "bare" => e \in mine.rows \cup these
        BY <1>1, <1>5, <1>6 DEF RowInv, Collected
      <3>2. PastRequeue(u)' => \A e \in Events : row[e] = "processed" => e \in mine.rows \cup these \cup missed
        BY <1>1, <1>5, <1>7 DEF RowInv, Collected
      <3>. QED  BY <1>1, <1>3, <1>4, <2>1, <3>1, <3>2
    <2>2. CASE v # u
      BY <1>1, <1>4, <1>8, <1>9, <2>2 DEF RowInv, Collected
    <2>. QED  BY <2>1, <2>2
  <1>11. OldRows'
    BY <1>1, <1>3, <1>4, <1>8, <1>9 DEF RowInv, OldRows
  <1>12. BackfillReaches'
    <2>1. version \in Nat /\ ~(version >= 3)
      BY <1>9, Lengths DEF IInv, TypeOK
    <2>. QED  BY <1>1, <2>1 DEF BackfillReaches
  <1>13. Fits' /\ Leased' /\ Unsampled' /\ NothingForgotten'
    BY <1>1 DEF RowInv, Fits, Leased, Unsampled, NothingForgotten
  <1>. QED  BY <1>10, <1>11, <1>12, <1>13 DEF RowInv

(* A stamp: what it commits were the rows it had collected, and what it    *)
(* leaves for the next migration is all it had.                            *)
LEMMA StampRows ==
  ASSUME IInv, RowInv, NEW u \in Upgraders, Stamp(u)
  PROVE  RowInv'
  <1>. DEFINE mine == upgrade[u]
  <1>1. /\ Busy(u) /\ mine.stmt > Len(Script(u))
        /\ UNCHANGED <<running, sampled, late, missed>>
    BY DEF Stamp, history
  <1>2. CASE version # mine.from
    BY <1>1, <1>2, LeaveRows DEF Stamp, queue, history
  <1>3. CASE version = mine.from
    <2>1. /\ mine \in Upgrade /\ mine.next \in 1..Latest /\ mine.from \in 0..Latest
          /\ mine.from < mine.next /\ Latest = 6 /\ version < mine.next /\ version \in Nat
      BY <1>1, <1>3, Stage, Lengths
    <2>2. Began(u) /\ \A v \in Upgraders \ {u} : ~Began(v)
      BY <1>1, <1>3, StampedTables DEF IInv, UpgradesApart
    <2>3. /\ \A v \in Upgraders \ {u} : upgrade'[v] = upgrade[v]
          /\ mine.next = mine.to => ~Busy(u)'
          /\ mine.next # mine.to => upgrade'[u] = NextMigration(u)
      BY <1>3 DEF Stamp, Leave, IInv, TypeOK, Busy
    <2>4. \A v \in Upgraders \ {u} : Busy(v)' => ~PastEnqueue(v) /\ ~PastRequeue(v)
      BY <2>2, <2>3, PastIsBegun DEF Busy
    <2>5. \A m \in {2, 3} : mine.next >= m => Past(u, m, 2)
      <3>. TAKE m \in {2, 3}
      <3>1. CASE mine.next > m
        BY <3>1 DEF Past
      <3>2. CASE mine.next = m
        BY <1>1, <3>2, Stage, Lengths DEF Past
      <3>. QED  BY <2>1, <3>1, <3>2
    <2>6. /\ NextMigration(u).next = mine.next + 1 /\ NextMigration(u).stmt = 1
          /\ NextMigration(u).rows = IF transactional THEN mine.rows ELSE {}
          /\ transactional => NextMigration(u).from = mine.from
      BY <2>1 DEF NextMigration, Upgrade
    <2>15. OldRows'
      <3>. SUFFICES ASSUME NEW v \in Upgraders, Busy(v)', upgrade'[v].rows # {}
                    PROVE  upgrade'[v].from < 3
        BY DEF OldRows
      <3>1. CASE v = u
        BY <1>1, <2>3, <2>6, <3>1 DEF RowInv, OldRows
      <3>2. CASE v # u
        BY <2>3, <3>2 DEF RowInv, OldRows, Busy
      <3>. QED  BY <3>1, <3>2
    <2>7. CASE transactional /\ mine.next # mine.to
      <3>1. UNCHANGED <<version, row, holder>>
        BY <1>3, <2>7 DEF Stamp
      <3>2. (PastEnqueue(u)' => PastEnqueue(u)) /\ (PastRequeue(u)' => PastRequeue(u))
        BY <2>1, <2>3, <2>5, <2>6, <2>7, <3>1 DEF PastEnqueue, PastRequeue, Past
      <3>3. Collected'
        <4>. SUFFICES ASSUME NEW v \in Upgraders, Busy(v)'
                      PROVE  (/\ PastEnqueue(v) => \A e \in Events : row[e] = "bare" => e \in upgrade[v].rows
                              /\ PastRequeue(v) => \A e \in Events : row[e] = "processed" => e \in upgrade[v].rows \cup missed)'
          BY DEF Collected
        <4>1. CASE v = u
          BY <1>1, <2>3, <2>6, <2>7, <3>1, <3>2, <4>1 DEF RowInv, Collected
        <4>2. CASE v # u
          BY <2>3, <2>4, <3>1, <4>2 DEF PastEnqueue, PastRequeue, Past
        <4>. QED  BY <4>1, <4>2
      <3>. QED  BY <1>1, <2>15, <3>1, <3>3, SameRows
    <2>8. CASE ~(transactional /\ mine.next # mine.to)
      <3>1. /\ version' = mine.next
            /\ row' = [e \in Events |-> IF e \in mine.rows THEN "pending" ELSE row[e]]
            /\ holder' = [e \in Events |-> IF e \in mine.rows THEN Null ELSE holder[e]]
        BY <1>3, <2>8 DEF Stamp, Commit
      <3>2. Fits'
        BY <1>1, <2>1, <3>1 DEF RowInv, Fits, Needs, IInv, TypeOK, Programs, Workers
      <3>3. Leased'
        BY <3>1 DEF RowInv, Leased
      <3>4. Unsampled'
        BY <1>1, <2>1, <3>1 DEF RowInv, Unsampled
      <3>5. NothingForgotten'
        <4>. SUFFICES ASSUME version' >= 2, NEW e \in Events, row'[e] = "bare"
                      PROVE  e \in late'
          BY DEF NothingForgotten
        <4>1. e \notin mine.rows /\ row[e] = "bare"
          BY <3>1
        <4>2. CASE version >= 2
          BY <1>1, <4>1, <4>2 DEF RowInv, NothingForgotten
        <4>3. CASE ~(version >= 2)
          <5>1. PastEnqueue(u)
            BY <2>1, <2>5, <3>1, <4>3 DEF PastEnqueue
          <5>. QED  BY <1>1, <4>1, <5>1 DEF RowInv, Collected
        <4>. QED  BY <4>2, <4>3
      <3>6. BackfillReaches'
        <4>. SUFFICES ASSUME version' >= 3, NEW e \in Events, row'[e] = "processed"
                      PROVE  e \in sampled' \cup missed'
          BY DEF BackfillReaches
        <4>1. e \notin mine.rows /\ row[e] = "processed"
          BY <3>1
        <4>2. CASE version >= 3
          BY <1>1, <4>1, <4>2 DEF RowInv, BackfillReaches
        <4>3. CASE ~(version >= 3)
          <5>1. PastRequeue(u)
            BY <2>1, <2>5, <3>1, <4>3 DEF PastRequeue
          <5>. QED  BY <1>1, <4>1, <5>1 DEF RowInv, Collected
        <4>. QED  BY <4>2, <4>3
      <3>7. Collected'
        <4>. SUFFICES ASSUME NEW v \in Upgraders, Busy(v)'
                      PROVE  ~PastEnqueue(v)' /\ ~PastRequeue(v)'
          BY DEF Collected
        <4>1. CASE v = u
          BY <2>1, <2>3, <2>6, <3>1, <4>1 DEF PastEnqueue, PastRequeue, Past
        <4>2. CASE v # u
          BY <2>1, <2>3, <2>4, <3>1, <4>2 DEF PastEnqueue, PastRequeue, Past
        <4>. QED  BY <4>1, <4>2
      <3>. QED  BY <2>15, <3>2, <3>3, <3>4, <3>5, <3>6, <3>7 DEF RowInv
    <2>. QED  BY <2>7, <2>8
  <1>. QED  BY <1>2, <1>3

LEMMA StoreRows ==
  ASSUME IInv, RowInv, NEW e \in Events, StoreBare(e) \/ Store(e)
  PROVE  RowInv'
  <1>1. /\ UNCHANGED <<version, upgrade, running, holder, sampled, missed>> /\ Insertable
        /\ row[e] = "absent" /\ row'[e] \in {"bare", "pending"}
        /\ \A f \in Events \ {e} : row'[f] = row[f]
        /\ late \subseteq late' /\ (row'[e] = "bare" /\ version >= 2 => e \in late')
    BY DEF StoreBare, Store, schema, history, IInv, TypeOK
  <1>2. Fits' /\ Unsampled'
    BY <1>1 DEF RowInv, Fits, Unsampled
  <1>3. Leased'
    BY <1>1 DEF RowInv, Leased
  <1>4. NothingForgotten' /\ BackfillReaches'
    BY <1>1 DEF RowInv, NothingForgotten, BackfillReaches
  <1>5. Collected'
    <2>. SUFFICES ASSUME NEW v \in Upgraders, Busy(v)'
                  PROVE  (/\ PastEnqueue(v) => \A f \in Events : row[f] = "bare" => f \in upgrade[v].rows
                          /\ PastRequeue(v) => \A f \in Events : row[f] = "processed" => f \in upgrade[v].rows \cup missed)'
      BY DEF Collected
    <2>1. Busy(v) /\ ~PastEnqueue(v)
      BY <1>1, NoInsertPastEnqueue DEF Busy
    <2>2. ~PastEnqueue(v)' /\ (PastRequeue(v)' <=> PastRequeue(v))
      BY <1>1, <2>1 DEF PastEnqueue, PastRequeue, Past
    <2>. QED  BY <1>1, <2>1, <2>2 DEF RowInv, Collected
  <1>6. OldRows'
    BY <1>1 DEF RowInv, OldRows, Busy
  <1>. QED  BY <1>2, <1>3, <1>4, <1>5, <1>6 DEF RowInv

(* A claim, a completion or a failure.                                     *)
LEMMA WorkRows ==
  ASSUME IInv, RowInv, NEW w \in Workers, NEW e \in Events, Working(w, e)
  PROVE  RowInv'
  <1>1. /\ UNCHANGED <<version, upgrade, running, sampled, late>> /\ missed \subseteq missed'
        /\ \A f \in Events \ {e} : row'[f] = row[f] /\ holder'[f] = holder[f]
        /\ row'[e] \in Statuses \ {"absent", "bare"}
        /\ holder'[e] # Null => row'[e] = "processing"
    BY DEF Working, Claim, Complete, Fail, Release, Statuses, schema, history, IInv, TypeOK
  <1>2. row'[e] = "processed" =>
           /\ w = "worker" => e \in sampled
           /\ w = "old_worker" /\ Requeued => e \in missed'
    BY DEF Working, Claim, Complete, Fail, Release, IInv, TypeOK
  <1>3. row'[e] = "processed" /\ Requeued => e \in sampled \cup missed'
    BY <1>2 DEF Workers
  <1>4. row'[e] = "processed" /\ w = "worker" => version >= 3
    BY <1>2 DEF RowInv, Unsampled
  <1>5. Fits' /\ Unsampled'
    BY <1>1 DEF RowInv, Fits, Unsampled
  <1>6. Leased'
    BY <1>1 DEF RowInv, Leased
  <1>7. NothingForgotten' /\ BackfillReaches'
    BY <1>1, <1>3 DEF RowInv, NothingForgotten, BackfillReaches, Requeued
  <1>8. Collected'
    <2>. SUFFICES ASSUME NEW v \in Upgraders, Busy(v)'
                  PROVE  (/\ PastEnqueue(v) => \A f \in Events : row[f] = "bare" => f \in upgrade[v].rows
                          /\ PastRequeue(v) => \A f \in Events : row[f] = "processed" => f \in upgrade[v].rows \cup missed)'
      BY DEF Collected
    <2>1. /\ Busy(v) /\ (PastEnqueue(v)' <=> PastEnqueue(v)) /\ (PastRequeue(v)' <=> PastRequeue(v))
          /\ upgrade'[v] = upgrade[v]
      BY <1>1 DEF Busy, PastEnqueue, PastRequeue, Past
    <2>2. PastRequeue(v) => Requeued /\ ~(version >= 3)
      <3>1. version \in Nat
        BY Lengths DEF IInv, TypeOK
      <3>. QED  BY <2>1, <3>1 DEF PastRequeue, Requeued
    <2>3. PastRequeue(v) /\ row'[e] = "processed" => e \in missed'
      BY <1>2, <1>4, <2>2 DEF Workers
    <2>. QED  BY <1>1, <2>1, <2>3 DEF RowInv, Collected
  <1>9. OldRows'
    BY <1>1 DEF RowInv, OldRows, Busy
  <1>. QED  BY <1>5, <1>6, <1>7, <1>8, <1>9 DEF RowInv

LEMMA OtherRows ==
  ASSUME IInv, RowInv,
         \/ \E p \in Programs : Start(p) \/ Stop(p)
         \/ \E e \in Events : Sample(e)
         \/ UNCHANGED vars
  PROVE  RowInv'
  <1>1. /\ UNCHANGED <<version, upgrade, row, holder, late, missed>>
        /\ Fits' /\ Unsampled' /\ sampled \subseteq sampled'
    BY Lengths DEF Start, Stop, Sample, Holds, Needs, RowInv, Fits, Unsampled, IInv, TypeOK,
                   vars, schema, queue, history
  <1>2. Leased' /\ NothingForgotten' /\ BackfillReaches'
    BY <1>1 DEF RowInv, Leased, NothingForgotten, BackfillReaches
  <1>3. Collected'
    BY <1>1 DEF RowInv, Collected, Busy, PastEnqueue, PastRequeue, Past
  <1>4. OldRows'
    BY <1>1 DEF RowInv, OldRows, Busy
  <1>. QED  BY <1>1, <1>2, <1>3, <1>4 DEF RowInv

LEMMA StepRowInv == IInv /\ RowInv /\ [Next]_vars => RowInv'
  <1>1. ASSUME IInv, RowInv, NEW u \in Upgraders, Upgrading(u) PROVE RowInv'
    BY <1>1, BeginRows, CreateRows, BackfillRows, StampRows DEF Upgrading
  <1>2. ASSUME IInv, RowInv, NEW u \in Upgraders, Crash(u) PROVE RowInv'
    BY <1>2, LeaveRows DEF Crash, schema
  <1>. QED  BY <1>1, <1>2, StoreRows, WorkRows, OtherRows DEF Next

LEMMA RowsInductive == Spec => [](IInv /\ RowInv)
  BY InitIInv, StepIInv, InitRowInv, StepRowInv, PTL DEF Spec

(* The backfill of 0002 reaches every event a Phase 3 API has stored until *)
(* its commit, on a database at 0001 whose API goes on while the upgrade   *)
(* of any later release is under way.                                      *)
THEOREM BackfillForgetsNothing == Spec => []NothingForgotten
  <1>1. IInv /\ RowInv => NothingForgotten
    BY DEF RowInv
  <1>. QED  BY <1>1, RowsInductive, PTL

(* After 0003 an event counts as processed only with samples, or because a *)
(* Phase 4 worker completed it past the last requeue: whatever the events  *)
(* and the workers at 0002 that the upgrade finds.                         *)
THEOREM ProcessedIsProjected == Spec => []BackfillReaches
  <1>1. IInv /\ RowInv => BackfillReaches
    BY DEF RowInv
  <1>. QED  BY <1>1, RowsInductive, PTL

(* No later upgrade puts an event back that has been processed with its    *)
(* samples.                                                                *)
THEOREM RequeuedAtMostOnce == Spec => RequeuedOnce
  <1>1. ASSUME IInv, RowInv, [Next]_vars,
               NEW e \in Events, row[e] = "processed", e \in sampled
        PROVE  row'[e] = "processed"
    <2>1. version >= 3 /\ version \in Nat /\ holder[e] = Null
      BY <1>1, Lengths DEF RowInv, Unsampled, Leased, IInv, TypeOK
    <2>2. ASSUME NEW u \in Upgraders, Upgrading(u) \/ Crash(u) PROVE row'[e] = row[e]
      <3>1. ASSUME Stamp(u), version = upgrade[u].from PROVE row'[e] = row[e]
        <4>1. upgrade[u].rows = {}
          BY <1>1, <2>1, <3>1 DEF Stamp, RowInv, OldRows
        <4>. QED  BY <3>1, <4>1 DEF Stamp, Commit
      <3>2. Stamp(u) => row'[e] = row[e]
        BY <3>1 DEF Stamp
      <3>. QED  BY <2>2, <3>2 DEF Upgrading, Begin, CreateTable, Backfill, Crash, queue
    <2>3. ASSUME NEW w \in Workers, NEW f \in Events, Working(w, f) PROVE row'[e] = row[e]
      <3>1. f # e
        BY <1>1, <2>1, <2>3, NullAssumption DEF Working, Claim, Complete, Fail, Holds, Workers
      <3>. QED  BY <2>3, <3>1, <1>1 DEF Working, Claim, Complete, Fail, Release, IInv, TypeOK
    <2>4. ASSUME NEW f \in Events, StoreBare(f) \/ Store(f) \/ Sample(f) PROVE row'[e] = row[e]
      BY <1>1, <2>4 DEF StoreBare, Store, Sample, IInv, TypeOK
    <2>5. ASSUME NEW p \in Programs, Start(p) \/ Stop(p) PROVE row' = row
      BY <2>5 DEF Start, Stop, queue
    <2>6. UNCHANGED vars => row' = row
      BY DEF vars, queue
    <2>. QED  BY <1>1, <2>2, <2>3, <2>4, <2>5, <2>6 DEF Next
  <1>2. IInv /\ RowInv /\ [Next]_vars =>
           [\A e \in Events : row[e] = "processed" /\ e \in sampled => row'[e] = "processed"]_vars
    BY <1>1
  <1>. QED  BY <1>2, RowsInductive, PTL DEF Spec, RequeuedOnce
=============================================================================
