--------------------------- MODULE IncidentConsole ---------------------------
(***************************************************************************)
(* The incident console: a page of the browser beside the incidents it     *)
(* shows.                                                                  *)
(*                                                                         *)
(* Every few seconds the page starts a refresh, whether or not the last    *)
(* one has come back.  A refresh is eight requests and counts only if all  *)
(* of them are answered; of the eight, the list of incidents is modelled.  *)
(* The chart has a request of its own, started again whenever the          *)
(* operator selects something and whenever a refresh has come back.        *)
(* Operators decide about the rows they see; the revision of the row goes  *)
(* with the request.                                                       *)
(*                                                                         *)
(* A row is what the page and the API tell apart: status, revision and the *)
(* number of signals.  The API handles a decision in one step, as with the *)
(* row locks of PostgreSQL.  The page is open throughout.                  *)
(***************************************************************************)
EXTENDS Naturals

CONSTANTS
    Incidents,
    Selections,    \* node, metric and time window of the chart
    Refreshes,     \* how many can be under way
    Clicks,        \* how many decisions can be under way
    Null, Refused

Statuses == {"open", "acknowledged", "resolved"}

Row == [status : Statuses, revision : Nat, signals : Nat]

Lists == [Incidents -> Row \cup {Null}]

Request ==
    [incident : Incidents, to : {"acknowledged", "resolved"}, seen : Row,
     reply : Row \cup {Null, Refused}]

ASSUME ConsoleAssumption ==
    Null \notin Row /\ Refused \notin Row /\ Null # Refused /\ Null \notin Selections
    /\ Null \notin Request

VARIABLES
    server,       \* the incidents on record
    shown,        \* those on the page
    stage, list,  \* per refresh: how far it is, and the list it has been given
    selected,     \* what the operator looks at, or Null before a node is known
    charts,       \* the chart requests under way, by what they ask for
    history,      \* what the chart shows
    alert,        \* "Live data interrupted"
    actionError,
    click         \* per decision under way: the request and its reply; or Null

page == <<shown, selected, charts, history, alert, actionError>>
vars == <<server, stage, list, click, page>>

TypeOK ==
    /\ server \in Lists
    /\ shown \in Lists
    /\ stage \in [Refreshes -> {"idle", "asked", "answered"}]
    /\ list \in [Refreshes -> Lists]
    /\ selected \in Selections \cup {Null}
    /\ charts \subseteq Selections
    /\ history \in Selections \cup {Null}
    /\ alert \in BOOLEAN /\ actionError \in BOOLEAN
    /\ click \in [Clicks -> Request \cup {Null}]

Nothing == [i \in Incidents |-> Null]

Init ==
    /\ server = Nothing /\ shown = Nothing
    /\ stage = [r \in Refreshes |-> "idle"]
    /\ list = [r \in Refreshes |-> Nothing]
    /\ selected = Null /\ charts = {} /\ history = Null
    /\ alert = FALSE /\ actionError = FALSE
    /\ click = [c \in Clicks |-> Null]

-----------------------------------------------------------------------------
(* The incidents change: a worker records a signal, *)
Evidence(i) ==
    /\ server' = [server EXCEPT ![i] =
          IF @ = Null THEN [status |-> "open", revision |-> 1, signals |-> 1]
          ELSE [status |-> IF @.status = "resolved" THEN "open" ELSE @.status,
                revision |-> @.revision + 1, signals |-> @.signals + 1]]
    /\ UNCHANGED <<stage, list, click, page>>

(* an operator decides, here or elsewhere. *)
Possible(row, to) ==
    IF to = "acknowledged" THEN row.status = "open" ELSE row.status # "resolved"

Decided(row, to) ==
    [status |-> to, revision |-> row.revision + 1, signals |-> row.signals]

DecideElsewhere(i, to) ==
    /\ server[i] # Null /\ Possible(server[i], to)
    /\ server' = [server EXCEPT ![i] = Decided(@, to)]
    /\ UNCHANGED <<stage, list, click, page>>

-----------------------------------------------------------------------------
(* refreshOverview. *)

Start(r) ==
    /\ stage[r] = "idle"
    /\ stage' = [stage EXCEPT ![r] = "asked"]
    /\ UNCHANGED <<server, list, click, page>>

(* GET /v1/incidents: one SELECT. *)
ListIncidents(r) ==
    /\ stage[r] = "asked"
    /\ stage' = [stage EXCEPT ![r] = "answered"]
    /\ list' = [list EXCEPT ![r] = server]
    /\ UNCHANGED <<server, click, page>>

Done(r) ==
    /\ stage' = [stage EXCEPT ![r] = "idle"]
    /\ list' = [list EXCEPT ![r] = Nothing]
    /\ UNCHANGED <<server, click>>

(* Mutant: the requests of an earlier selection go on. *)
AskedToo(s) == charts \cup (IF s = Null THEN {} ELSE {s})

(* The chart's effect: the request under way is aborted, another is sent. *)
Asked(s) == IF s = Null THEN {} ELSE {s}

(* Mutant: rows that are on the page already are kept. *)
RowsOnce(rows) == [i \in Incidents |-> IF shown[i] = Null THEN rows[i] ELSE shown[i]]

(* setIncidents *)
Rows(rows) == rows

(* All eight are answered; once there is a node, one is selected. *)
Refresh(r) ==
    /\ stage[r] = "answered"
    /\ Done(r)
    /\ shown' = Rows(list[r])
    /\ IF selected = Null THEN selected' \in Selections \cup {Null} ELSE UNCHANGED selected
    /\ charts' = Asked(selected')
    /\ alert' = FALSE
    /\ UNCHANGED <<history, actionError>>

(* One of them is not. *)
RefreshFails(r) ==
    /\ stage[r] # "idle"
    /\ Done(r)
    /\ alert' = TRUE
    /\ UNCHANGED <<shown, selected, charts, history, actionError>>

-----------------------------------------------------------------------------
(* The chart. *)

Select(s) ==
    /\ selected # Null /\ s # selected
    /\ selected' = s
    /\ charts' = Asked(s)
    /\ UNCHANGED <<server, stage, list, click, shown, history, alert, actionError>>

ChartAnswered(s) ==
    /\ s \in charts
    /\ charts' = charts \ {s}
    /\ history' = s
    /\ alert' = FALSE
    /\ UNCHANGED <<server, stage, list, click, shown, selected, actionError>>

ChartFails(s) ==
    /\ s \in charts
    /\ charts' = charts \ {s}
    /\ alert' = TRUE
    /\ UNCHANGED <<server, stage, list, click, shown, selected, history, actionError>>

-----------------------------------------------------------------------------
(* transitionIncident. *)

(* Without a name, or without a note, nothing is sent. *)
Unready ==
    /\ \E i \in Incidents : shown[i] # Null /\ shown[i].status # "resolved"
    /\ actionError' = TRUE
    /\ UNCHANGED <<server, stage, list, click, shown, selected, charts, history, alert>>

(* The buttons are those of the row's status. *)
Decide(c, i, to) ==
    /\ click[c] = Null
    /\ shown[i] # Null /\ Possible(shown[i], to)
    /\ click' = [click EXCEPT ![c] =
          [incident |-> i, to |-> to, seen |-> shown[i], reply |-> Null]]
    /\ UNCHANGED <<server, stage, list, page>>

(* Mutant: the revision is not compared. *)
CurrentAlways(row, request) == row # Null

(* expected_revision *)
Current(row, request) == row # Null /\ row.revision = request.seen.revision

(* The API: refused, nothing to do, or done. *)
Handle(c) ==
    /\ click[c] # Null /\ click[c].reply = Null
    /\ LET i == click[c].incident
           row == server[i]
           to == click[c].to
       IN IF ~Current(row, click[c]) \/ (to = "acknowledged" /\ row.status = "resolved")
          THEN /\ click' = [click EXCEPT ![c].reply = Refused]
               /\ UNCHANGED server
          ELSE LET new == IF row.status = to THEN row ELSE Decided(row, to)
               IN /\ click' = [click EXCEPT ![c].reply = new]
                  /\ server' = [server EXCEPT ![i] = new]
    /\ UNCHANGED <<stage, list, page>>

(* The answer arrives: the row is replaced, if it is still on the page. *)
Deliver(c) ==
    /\ click[c] # Null /\ click[c].reply # Null
    /\ click' = [click EXCEPT ![c] = Null]
    /\ IF click[c].reply = Refused
       THEN actionError' = TRUE /\ UNCHANGED shown
       ELSE /\ actionError' = FALSE
            /\ shown' = [shown EXCEPT ![click[c].incident] =
                  IF @ = Null THEN Null ELSE click[c].reply]
    /\ UNCHANGED <<server, stage, list, selected, charts, history, alert>>

(* The request or its answer is lost. *)
Lose(c) ==
    /\ click[c] # Null
    /\ click' = [click EXCEPT ![c] = Null]
    /\ actionError' = TRUE
    /\ UNCHANGED <<server, stage, list, shown, selected, charts, history, alert>>

-----------------------------------------------------------------------------
Next ==
    \/ \E i \in Incidents :
          Evidence(i) \/ \E to \in {"acknowledged", "resolved"} : DecideElsewhere(i, to)
    \/ \E r \in Refreshes : Start(r) \/ ListIncidents(r) \/ Refresh(r) \/ RefreshFails(r)
    \/ \E s \in Selections : Select(s) \/ ChartAnswered(s) \/ ChartFails(s)
    \/ Unready
    \/ \E c \in Clicks :
          \/ Handle(c) \/ Deliver(c) \/ Lose(c)
          \/ \E i \in Incidents, to \in {"acknowledged", "resolved"} : Decide(c, i, to)

Spec == Init /\ [][Next]_vars

-----------------------------------------------------------------------------
(* "Stale actions fail visibly instead of overwriting a newer operator     *)
(* decision" (docs/dashboard/incident-console.md): a decision is taken     *)
(* about the row that the operator saw when deciding, although the page    *)
(* may have been older than another page, older lists may have replaced    *)
(* newer ones, and the same decision may be under way twice.               *)
DecidedAsShown ==
    [][\A c \in Clicks : Handle(c) /\ server' # server =>
          server[click[c].incident] = click[c].seen]_vars

(* "Requests are aborted when a selection changes"                         *)
(* (docs/dashboard/incident-console.md): the chart never changes to        *)
(* anything but what is selected, however late answers are.                *)
ChartFollowsSelection == [][history' # history => history' = selected]_vars
=============================================================================
