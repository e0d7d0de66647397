------------------------ MODULE IncidentConsoleProofs ------------------------
(***************************************************************************)
(* Theorems about IncidentConsole, for any incidents, selections, and      *)
(* numbers of refreshes and decisions under way.                           *)
(***************************************************************************)
EXTENDS IncidentConsole, TLAPS

USE ConsoleAssumption DEF ConsoleAssumption

To == {"acknowledged", "resolved"}

-----------------------------------------------------------------------------
LEMMA DecidedType ==
    ASSUME NEW row \in Row, NEW to \in To
    PROVE  Decided(row, to) \in Row /\ Decided(row, to).revision = row.revision + 1
BY DEF Decided, Row, Statuses, To

LEMMA InitTypeOK == Init => TypeOK
BY DEF Init, TypeOK, Nothing, Lists

LEMMA NextTypeOK == TypeOK /\ [Next]_vars => TypeOK'
<1> SUFFICES ASSUME TypeOK, [Next]_vars PROVE TypeOK'
  OBVIOUS
<1> USE DEF TypeOK, page
<1>1. ASSUME NEW i \in Incidents, Evidence(i) PROVE TypeOK'
  BY <1>1 DEF Evidence, Lists, Row, Statuses
<1>2. ASSUME NEW i \in Incidents, NEW to \in To, DecideElsewhere(i, to) PROVE TypeOK'
  <2>1. server[i] \in Row
    BY <1>2 DEF DecideElsewhere, Lists
  <2> QED BY <1>2, <2>1, DecidedType DEF DecideElsewhere, Lists
<1>3. ASSUME NEW r \in Refreshes, Start(r) PROVE TypeOK'
  BY <1>3 DEF Start
<1>4. ASSUME NEW r \in Refreshes, ListIncidents(r) PROVE TypeOK'
  BY <1>4 DEF ListIncidents
<1>5. ASSUME NEW r \in Refreshes, Refresh(r) PROVE TypeOK'
  BY <1>5 DEF Refresh, Done, Rows, Asked, Nothing, Lists
<1>6. ASSUME NEW r \in Refreshes, RefreshFails(r) PROVE TypeOK'
  BY <1>6 DEF RefreshFails, Done, Nothing, Lists
<1>7. ASSUME NEW s \in Selections, Select(s) \/ ChartAnswered(s) \/ ChartFails(s) PROVE TypeOK'
  BY <1>7 DEF Select, ChartAnswered, ChartFails, Asked
<1>8. CASE Unready
  BY <1>8 DEF Unready
<1>9. ASSUME NEW c \in Clicks, NEW i \in Incidents, NEW to \in To, Decide(c, i, to) PROVE TypeOK'
  <2>1. shown[i] \in Row
    BY <1>9 DEF Decide, Lists
  <2> QED BY <1>9, <2>1 DEF Decide, Request, To
<1>10. ASSUME NEW c \in Clicks, Handle(c) PROVE TypeOK'
  <2> DEFINE i == click[c].incident
             to == click[c].to
             new == IF server[i].status = to THEN server[i] ELSE Decided(server[i], to)
  <2>1. click[c] \in Request /\ i \in Incidents /\ to \in To
    BY <1>10 DEF Handle, Request, To
  <2>2. UNCHANGED <<stage, list, page>>
    BY <1>10 DEF Handle
  <2>3. CASE click' = [click EXCEPT ![c].reply = Refused] /\ UNCHANGED server
    <3>1. [click[c] EXCEPT !.reply = Refused] \in Request
      BY <2>1 DEF Request
    <3> QED BY <2>2, <2>3, <3>1
  <2>4. CASE /\ Current(server[i], click[c])
             /\ click' = [click EXCEPT ![c].reply = new] /\ server' = [server EXCEPT ![i] = new]
    <3>1. server[i] \in Row
      BY <2>1, <2>4 DEF Current, Lists
    <3>2. new \in Row
      BY <2>1, <3>1, DecidedType
    <3>3. [click[c] EXCEPT !.reply = new] \in Request
      BY <2>1, <3>2 DEF Request
    <3> HIDE DEF new
    <3> QED BY <2>1, <2>2, <2>4, <3>2, <3>3 DEF Lists
  <2> QED BY <1>10, <2>3, <2>4 DEF Handle
<1>11. ASSUME NEW c \in Clicks, Deliver(c) PROVE TypeOK'
  <2>1. click[c] \in Request
    BY <1>11 DEF Deliver
  <2>2. shown' \in Lists
    <3>1. CASE click[c].reply = Refused
      BY <1>11, <3>1 DEF Deliver
    <3>2. CASE click[c].reply # Refused
      <4>1. click[c].reply \in Row
        BY <1>11, <2>1, <3>2 DEF Deliver, Request
      <4> QED BY <1>11, <2>1, <3>2, <4>1 DEF Deliver, Lists, Request
    <3> QED BY <3>1, <3>2
  <2> QED BY <1>11, <2>2 DEF Deliver
<1>12. ASSUME NEW c \in Clicks, Lose(c) PROVE TypeOK'
  BY <1>12 DEF Lose
<1>13. CASE UNCHANGED vars
  BY <1>13 DEF vars
<1> QED BY <1>1, <1>2, <1>3, <1>4, <1>5, <1>6, <1>7, <1>8, <1>9, <1>10, <1>11, <1>12, <1>13
        DEF Next, To

(* The page, the requests under way and the incidents have their types:    *)
(* no chart is asked for before a node is known.                           *)
THEOREM ConsoleTypeCorrect == Spec => []TypeOK
<1> QED BY InitTypeOK, NextTypeOK, PTL DEF Spec

-----------------------------------------------------------------------------
(* The only chart under way is that of the selection. *)
ChartsCurrent == charts \subseteq {selected}

LEMMA NextCharts == TypeOK /\ ChartsCurrent /\ [Next]_vars => ChartsCurrent'
<1> SUFFICES ASSUME TypeOK, ChartsCurrent, [Next]_vars PROVE ChartsCurrent'
  OBVIOUS
<1> USE DEF ChartsCurrent
<1>1. ASSUME UNCHANGED <<charts, selected>> PROVE ChartsCurrent'
  BY <1>1
<1>2. ASSUME NEW i \in Incidents,
             Evidence(i) \/ \E to \in To : DecideElsewhere(i, to) PROVE ChartsCurrent'
  BY <1>1, <1>2 DEF Evidence, DecideElsewhere, page
<1>3. ASSUME NEW r \in Refreshes, Start(r) \/ ListIncidents(r) \/ RefreshFails(r)
      PROVE  ChartsCurrent'
  BY <1>1, <1>3 DEF Start, ListIncidents, RefreshFails, page
<1>4. ASSUME NEW r \in Refreshes, Refresh(r) PROVE ChartsCurrent'
  BY <1>4 DEF Refresh, Asked
<1>5. ASSUME NEW s \in Selections, Select(s) \/ ChartAnswered(s) \/ ChartFails(s)
      PROVE  ChartsCurrent'
  BY <1>5 DEF Select, ChartAnswered, ChartFails, Asked
<1>6. ASSUME NEW c \in Clicks,
             \/ Handle(c) \/ Deliver(c) \/ Lose(c)
             \/ \E i \in Incidents, to \in To : Decide(c, i, to) PROVE ChartsCurrent'
  BY <1>1, <1>6 DEF Handle, Deliver, Lose, Decide, page
<1>7. CASE Unready \/ UNCHANGED vars
  BY <1>1, <1>7 DEF Unready, vars, page
<1> QED BY <1>2, <1>3, <1>4, <1>5, <1>6, <1>7 DEF Next, To

(* The chart changes only to what is selected.                             *)
THEOREM ChartsFollow == Spec => ChartFollowsSelection
<1>1. Init => ChartsCurrent
  BY DEF Init, ChartsCurrent
<1>2. TypeOK /\ ChartsCurrent /\ [Next]_vars => [history' # history => history' = selected]_vars
  <2> SUFFICES ASSUME ChartsCurrent, Next, history' # history PROVE history' = selected
    OBVIOUS
  <2>1. PICK s \in Selections : ChartAnswered(s)
    BY DEF Next, Evidence, DecideElsewhere, Start, ListIncidents, Refresh, RefreshFails, Select,
           ChartFails, Unready, Handle, Deliver, Lose, Decide, page
  <2> QED BY <2>1 DEF ChartAnswered, ChartsCurrent
<1> QED BY <1>1, <1>2, InitTypeOK, NextTypeOK, NextCharts, PTL DEF Spec, ChartFollowsSelection

-----------------------------------------------------------------------------
(* What is known of an incident, on the page or on the way, is a row it    *)
(* has had: nothing of it is newer than the incident, and what has its     *)
(* revision is the same row.                                               *)
Known(row, now) ==
    row = Null \/ /\ row \in Row /\ now \in Row
                  /\ row.revision <= now.revision
                  /\ row.revision = now.revision => row = now

Newer(new, now) == new = now \/ (new \in Row /\ (now = Null \/ new.revision > now.revision))

ClickKnown(request, now) ==
    Known(request.seen, now) /\ (request.reply # Refused => Known(request.reply, now))

RowsKnown ==
    /\ \A i \in Incidents : Known(shown[i], server[i])
    /\ \A r \in Refreshes, i \in Incidents : Known(list[r][i], server[i])
    /\ \A c \in Clicks : click[c] # Null => ClickKnown(click[c], server[click[c].incident])

LEMMA KnownStays ==
    ASSUME NEW row, NEW now \in Row \cup {Null}, NEW new \in Row \cup {Null},
           Known(row, now), Newer(new, now)
    PROVE  Known(row, new)
<1>1. CASE row = Null \/ new = now
  BY <1>1 DEF Known
<1>2. CASE row # Null /\ new # now
  <2>1. row \in Row /\ now \in Row /\ new \in Row /\ row.revision <= now.revision
        /\ new.revision > now.revision
    BY <1>2 DEF Known, Newer
  <2>2. row.revision \in Nat /\ now.revision \in Nat /\ new.revision \in Nat
    BY <2>1 DEF Row
  <2> QED BY <2>1, <2>2 DEF Known
<1> QED BY <1>1, <1>2

LEMMA KnownSelf == ASSUME NEW row \in Row \cup {Null} PROVE Known(row, row)
BY DEF Known, Row

(* A step that changes incidents, if anything, and only for newer.         *)
LEMMA ServerStep ==
    ASSUME TypeOK, TypeOK', RowsKnown, UNCHANGED <<shown, list, click>>,
           \A i \in Incidents : Newer(server'[i], server[i])
    PROVE  RowsKnown'
<1>0. \A i \in Incidents : server[i] \in Row \cup {Null} /\ server'[i] \in Row \cup {Null}
  BY DEF TypeOK, Lists
<1>1. \A i \in Incidents : Known(shown'[i], server'[i])
  BY <1>0, KnownStays DEF RowsKnown
<1>2. \A r \in Refreshes, i \in Incidents : Known(list'[r][i], server'[i])
  BY <1>0, KnownStays DEF RowsKnown
<1>3. ASSUME NEW c \in Clicks, click'[c] # Null
      PROVE  ClickKnown(click'[c], server'[click'[c].incident])
  <2>1. click[c].incident \in Incidents
    BY <1>3 DEF TypeOK, Request
  <2> QED BY <1>0, <1>3, <2>1, KnownStays DEF RowsKnown, ClickKnown
<1> QED BY <1>1, <1>2, <1>3 DEF RowsKnown

LEMMA EvidenceNewer ==
    ASSUME TypeOK, NEW i \in Incidents, Evidence(i) PROVE Newer(server'[i], server[i])
<1> DEFINE now == server[i]
<1>1. CASE now = Null
  BY <1>1 DEF Evidence, TypeOK, Lists, Newer, Row, Statuses
<1>2. CASE now # Null
  <2>1. now \in Row
    BY <1>2 DEF TypeOK, Lists
  <2>2. server'[i] = [status |-> IF now.status = "resolved" THEN "open" ELSE now.status,
                      revision |-> now.revision + 1, signals |-> now.signals + 1]
    BY <1>2 DEF Evidence, TypeOK, Lists
  <2> QED BY <2>1, <2>2 DEF Newer, Row, Statuses
<1> QED BY <1>1, <1>2

LEMMA NextKnown == TypeOK /\ TypeOK' /\ RowsKnown /\ [Next]_vars => RowsKnown'
<1> SUFFICES ASSUME TypeOK, TypeOK', RowsKnown, [Next]_vars PROVE RowsKnown'
  OBVIOUS
<1>a. ASSUME UNCHANGED <<server, shown, list, click>> PROVE RowsKnown'
  BY <1>a DEF RowsKnown
<1>1. ASSUME NEW i \in Incidents, Evidence(i) PROVE RowsKnown'
  <2>1. \A j \in Incidents : j # i => server'[j] = server[j]
    BY <1>1 DEF Evidence, TypeOK, Lists
  <2>2. UNCHANGED <<shown, list, click>>
    BY <1>1 DEF Evidence, page
  <2> QED BY <1>1, <2>1, <2>2, EvidenceNewer, ServerStep DEF Newer
<1>2. ASSUME NEW i \in Incidents, NEW to \in To, DecideElsewhere(i, to) PROVE RowsKnown'
  <2>1. \A j \in Incidents : j # i => server'[j] = server[j]
    BY <1>2 DEF DecideElsewhere, TypeOK, Lists
  <2>2. UNCHANGED <<shown, list, click>>
    BY <1>2 DEF DecideElsewhere, page
  <2>3. server[i] \in Row /\ server'[i] = Decided(server[i], to)
    BY <1>2 DEF DecideElsewhere, TypeOK, Lists
  <2>4. Newer(server'[i], server[i])
    BY <2>3, DecidedType DEF Newer, Row
  <2> QED BY <2>1, <2>2, <2>4, ServerStep DEF Newer
<1>3. ASSUME NEW r \in Refreshes, ListIncidents(r) PROVE RowsKnown'
  <2>1. /\ list' = [list EXCEPT ![r] = server] /\ UNCHANGED <<server, click, shown>>
    BY <1>3 DEF ListIncidents, page
  <2>2. \A o \in Refreshes, i \in Incidents : Known(list'[o][i], server[i])
    BY <2>1, KnownSelf DEF RowsKnown, TypeOK, Lists
  <2> QED BY <2>1, <2>2 DEF RowsKnown
<1>4. ASSUME NEW r \in Refreshes, Refresh(r) \/ RefreshFails(r) PROVE RowsKnown'
  <2>1. /\ list' = [list EXCEPT ![r] = Nothing] /\ UNCHANGED <<server, click>>
        /\ shown' = shown \/ shown' = list[r]
    BY <1>4 DEF Refresh, RefreshFails, Done, Rows
  <2>2. \A o \in Refreshes, i \in Incidents : Known(list'[o][i], server[i])
    BY <2>1 DEF RowsKnown, TypeOK, Nothing, Known
  <2> QED BY <2>1, <2>2 DEF RowsKnown
<1>5. ASSUME NEW c \in Clicks, NEW i \in Incidents, NEW to \in To, Decide(c, i, to) PROVE RowsKnown'
  <2>1. /\ UNCHANGED <<server, shown, list>>
        /\ click' = [click EXCEPT ![c] =
              [incident |-> i, to |-> to, seen |-> shown[i], reply |-> Null]]
    BY <1>5 DEF Decide, page
  <2>2. \A o \in Clicks : click'[o] # Null => ClickKnown(click'[o], server[click'[o].incident])
    BY <2>1 DEF RowsKnown, TypeOK, ClickKnown, Known
  <2> QED BY <2>1, <2>2 DEF RowsKnown
<1>6. ASSUME NEW c \in Clicks, Handle(c) PROVE RowsKnown'
  <2> DEFINE i == click[c].incident
             to == click[c].to
             new == IF server[i].status = to THEN server[i] ELSE Decided(server[i], to)
  <2>1. /\ click[c] \in Request /\ i \in Incidents /\ to \in To
        /\ ClickKnown(click[c], server[i])
    BY <1>6 DEF Handle, TypeOK, Request, To, RowsKnown
  <2>2. UNCHANGED <<shown, list>>
    BY <1>6 DEF Handle, page
  <2>3. CASE click' = [click EXCEPT ![c].reply = Refused] /\ UNCHANGED server
    <3>1. /\ click'[c].seen = click[c].seen /\ click'[c].reply = Refused
          /\ click'[c].incident = i
          /\ \A o \in Clicks \ {c} : click'[o] = click[o]
      BY <2>1, <2>3 DEF TypeOK, Request
    <3>2. \A o \in Clicks : click'[o] # Null => ClickKnown(click'[o], server[click'[o].incident])
      BY <2>1, <3>1 DEF RowsKnown, ClickKnown
    <3> QED BY <2>2, <2>3, <3>2 DEF RowsKnown
  <2>4. CASE /\ Current(server[i], click[c])
             /\ click' = [click EXCEPT ![c].reply = new] /\ server' = [server EXCEPT ![i] = new]
    <3>1. server[i] \in Row
      BY <2>1, <2>4 DEF Current, TypeOK, Lists
    <3>2. new \in Row /\ Newer(new, server[i])
      BY <2>1, <3>1, DecidedType DEF Newer, Row
    <3> HIDE DEF new
    <3>3. /\ server'[i] = new /\ \A j \in Incidents \ {i} : server'[j] = server[j]
      BY <2>1, <2>4 DEF TypeOK, Lists
    <3>4. /\ click'[c].seen = click[c].seen /\ click'[c].reply = new
          /\ click'[c].incident = i
          /\ \A o \in Clicks \ {c} : click'[o] = click[o]
      BY <2>1, <2>4 DEF TypeOK, Request
    <3>5. \A j \in Incidents : \A row : Known(row, server[j]) => Known(row, server'[j])
      <4>1. \A j \in Incidents : server[j] \in Row \cup {Null} /\ server'[j] \in Row \cup {Null}
        BY DEF TypeOK, Lists
      <4>2. \A j \in Incidents : Newer(server'[j], server[j])
        BY <3>2, <3>3 DEF Newer
      <4> QED BY <4>1, <4>2, KnownStays
    <3>6. ASSUME NEW o \in Clicks, click'[o] # Null
          PROVE  ClickKnown(click'[o], server'[click'[o].incident])
      <4>1. CASE o = c
        <5>1. Known(new, new)
          BY <3>2, KnownSelf
        <5> QED BY <2>1, <3>3, <3>4, <3>5, <4>1, <5>1 DEF ClickKnown
      <4>2. CASE o # c
        <5>1. click'[o] = click[o] /\ click[o].incident \in Incidents
          BY <3>4, <3>6, <4>2 DEF TypeOK, Request
        <5>2. ClickKnown(click[o], server[click[o].incident])
          BY <3>6, <5>1 DEF RowsKnown
        <5> QED BY <3>5, <5>1, <5>2 DEF ClickKnown
      <4> QED BY <4>1, <4>2
    <3>7. \A j \in Incidents : Known(shown'[j], server'[j])
      BY <2>2, <3>5 DEF RowsKnown
    <3>8. \A r \in Refreshes, j \in Incidents : Known(list'[r][j], server'[j])
      BY <2>2, <3>5 DEF RowsKnown
    <3> QED BY <3>6, <3>7, <3>8 DEF RowsKnown
  <2> QED BY <1>6, <2>3, <2>4 DEF Handle
<1>7. ASSUME NEW c \in Clicks, Deliver(c) PROVE RowsKnown'
  <2>1. /\ UNCHANGED <<server, list>> /\ click' = [click EXCEPT ![c] = Null]
    BY <1>7 DEF Deliver
  <2>2. \A i \in Incidents : Known(shown'[i], server[i])
    <3>1. CASE click[c].reply = Refused
      BY <1>7, <3>1 DEF Deliver, RowsKnown
    <3>2. CASE click[c].reply # Refused
      <4>1. Known(click[c].reply, server[click[c].incident])
        BY <1>7, <3>2 DEF Deliver, RowsKnown, ClickKnown
      <4>2. \A i \in Incidents : \/ shown'[i] = shown[i]
                                 \/ i = click[c].incident /\ shown'[i] = click[c].reply
        BY <1>7, <3>2 DEF Deliver, TypeOK, Lists
      <4> QED BY <4>1, <4>2 DEF RowsKnown
    <3> QED BY <3>1, <3>2
  <2>3. \A o \in Clicks : click'[o] # Null => click'[o] = click[o]
    BY <2>1 DEF TypeOK
  <2> QED BY <2>1, <2>2, <2>3 DEF RowsKnown
<1>8. ASSUME NEW c \in Clicks, Lose(c) PROVE RowsKnown'
  <2>1. /\ UNCHANGED <<server, list, shown>>
        /\ \A o \in Clicks : click'[o] # Null => click'[o] = click[o]
    BY <1>8 DEF Lose, TypeOK
  <2> QED BY <2>1 DEF RowsKnown
<1>9. CASE \/ \E r \in Refreshes : Start(r)
           \/ \E s \in Selections : Select(s) \/ ChartAnswered(s) \/ ChartFails(s)
           \/ Unready \/ UNCHANGED vars
  BY <1>a, <1>9 DEF Start, Select, ChartAnswered, ChartFails, Unready, vars, page
<1> QED BY <1>1, <1>2, <1>3, <1>4, <1>5, <1>6, <1>7, <1>8, <1>9 DEF Next, To

(* A decision is taken about the row that was on the page, in whatever     *)
(* order lists, answers and the decisions of others have come.             *)
THEOREM DecisionsAreInformed == Spec => DecidedAsShown
<1>1. Init => RowsKnown
  BY DEF Init, RowsKnown, Known, Nothing
<1>2. TypeOK /\ RowsKnown /\ [Next]_vars =>
         [\A c \in Clicks : Handle(c) /\ server' # server =>
             server[click[c].incident] = click[c].seen]_vars
  <2> SUFFICES ASSUME TypeOK, RowsKnown, NEW c \in Clicks, Handle(c), server' # server
               PROVE  server[click[c].incident] = click[c].seen
    OBVIOUS
  <2>1. Current(server[click[c].incident], click[c]) /\ click[c] # Null
    BY DEF Handle
  <2>2. Known(click[c].seen, server[click[c].incident]) /\ click[c].seen # Null
    BY <2>1 DEF RowsKnown, ClickKnown, TypeOK, Request
  <2> QED BY <2>1, <2>2 DEF Current, Known
<1> QED BY <1>1, <1>2, InitTypeOK, NextTypeOK, NextKnown, PTL DEF Spec, DecidedAsShown
=============================================================================
