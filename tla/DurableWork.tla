----------------------------- MODULE DurableWork -----------------------------
(***************************************************************************)
(* What the telemetry queue promises for the events the API has accepted,  *)
(* whatever workers, leases and retries are behind it: every accepted      *)
(* event is brought to exactly one outcome, done only after its processing *)
(* has succeeded, and an event with an outcome is never touched again.     *)
(* Processing is at least once: it may succeed, and succeed again, any     *)
(* number of times before the outcome is recorded.                         *)
(***************************************************************************)
CONSTANT Events

VARIABLES
    outcome,   \* what is recorded of each event
    applied    \* the events whose processing has succeeded

vars == <<outcome, applied>>

Outcomes == {"none", "accepted", "done", "given_up"}

Init ==
    /\ outcome = [e \in Events |-> "none"]
    /\ applied = {}

Accept(e) ==
    /\ outcome[e] = "none"
    /\ outcome' = [outcome EXCEPT ![e] = "accepted"]
    /\ UNCHANGED applied

Apply(e) ==
    /\ outcome[e] = "accepted"
    /\ applied' = applied \cup {e}
    /\ UNCHANGED outcome

Finish(e) ==
    /\ outcome[e] = "accepted"
    /\ e \in applied
    /\ outcome' = [outcome EXCEPT ![e] = "done"]
    /\ UNCHANGED applied

GiveUp(e) ==
    /\ outcome[e] = "accepted"
    /\ outcome' = [outcome EXCEPT ![e] = "given_up"]
    /\ UNCHANGED applied

Next == \E e \in Events : Accept(e) \/ Apply(e) \/ Finish(e) \/ GiveUp(e)

Spec == Init /\ [][Next]_vars

(* Accepted work does not stay open for ever. *)
Fairness == \A e \in Events : WF_vars(Finish(e) \/ GiveUp(e))

FairSpec == Spec /\ Fairness
=============================================================================
