-------------------------- MODULE MCIncidentConsole --------------------------
(***************************************************************************)
(* A small instance of IncidentConsole for TLC.  Revisions and failures    *)
(* are bounded; refreshes go on for ever.                                  *)
(***************************************************************************)
EXTENDS IncidentConsole

CONSTANTS MaxRevision, MaxFaults

VARIABLE faults

mcvars == <<vars, faults>>

MCInit == Init /\ faults = 0

(* Not the last revision of the instance. *)
Open(row) == row # Null => row.revision < MaxRevision

MCNext ==
    \/ /\ \/ \E i \in Incidents :
                /\ Open(server[i])
                /\ Evidence(i) \/ \E to \in {"acknowledged", "resolved"} : DecideElsewhere(i, to)
          \/ \E r \in Refreshes : Start(r) \/ ListIncidents(r) \/ Refresh(r)
          \/ \E s \in Selections : Select(s) \/ ChartAnswered(s)
          \/ Unready
          \/ \E c \in Clicks :
                \/ Handle(c) \/ Deliver(c)
                \/ \E i \in Incidents, to \in {"acknowledged", "resolved"} :
                      Open(shown[i]) /\ Decide(c, i, to)
       /\ UNCHANGED faults
    \/ /\ faults < MaxFaults
       /\ faults' = faults + 1
       /\ \/ \E r \in Refreshes : RefreshFails(r)
          \/ \E s \in Selections : ChartFails(s)
          \/ \E c \in Clicks : Lose(c)

(* The timer runs, and what is asked is answered. *)
Fairness ==
    /\ \A r \in Refreshes : /\ WF_mcvars(Start(r) /\ UNCHANGED faults)
                            /\ WF_mcvars(ListIncidents(r) /\ UNCHANGED faults)
                            /\ WF_mcvars(Refresh(r) /\ UNCHANGED faults)
    /\ \A c \in Clicks : /\ WF_mcvars(Handle(c) /\ UNCHANGED faults)
                         /\ WF_mcvars(Deliver(c) /\ UNCHANGED faults)

MCSpec == MCInit /\ [][MCNext]_mcvars /\ Fairness

(* Once the incidents are at rest and refreshes no longer fail, the page   *)
(* comes to show them as they are and stays so, although refreshes and the *)
(* answers to decisions may have arrived in any order.                     *)
ScreenCatchesUp == <>[](shown = server)
=============================================================================
