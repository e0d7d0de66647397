--------------------------- MODULE MCMetricHistory ---------------------------
(***************************************************************************)
(* A small instance of MetricHistory for TLC, with the fairness under      *)
(* which scans end.                                                        *)
(***************************************************************************)
EXTENDS MetricHistory, TLC

(* Two of the three events were observed at the same time. *)
MCAt == (1 :> 1 @@ 2 :> 2 @@ 3 :> 2)
MCRequests == {[metric |-> "mem", start |-> 1, end |-> 3]}

(* A client that has been given a cursor uses it. *)
Fairness == \A r \in Readers : WF_vars(Page(r))

MCSpec == Spec /\ Fairness

(* Every scan comes to an end, however often samples are pruned and stored *)
(* again while it lasts.                                                   *)
ScansEnd == \A r \in Readers : more[r] ~> ~more[r]
=============================================================================
