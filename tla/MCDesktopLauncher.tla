-------------------------- MODULE MCDesktopLauncher --------------------------
(***************************************************************************)
(* A small instance of DesktopLauncher for TLC: failures of requests,       *)
(* launches and workers are bounded together.                              *)
(***************************************************************************)
EXTENDS DesktopLauncher

CONSTANT MaxFaults

VARIABLE faults

mcvars == <<vars, faults>>

(* Launches, events, ports and attempts are numbered in the order in which *)
(* they come into play.                                                    *)
First(S) == {x \in S : \A y \in S : x <= y}
Fresh == First({r \in Attempts : r \notin Sent})
Known == {e \in Events : Of(e) # {}}

MCInit == Init /\ port[1] = 80 /\ faults = 0

Faulty ==
    /\ faults < MaxFaults /\ faults' = faults + 1
    /\ \/ \E r \in Attempts : Failing(r) /\ UNCHANGED <<desktop, holder>>
       \/ \E l \in Launches : Quit(l) \/ WorkerFails(l)

Smooth ==
    /\ \/ \E l \in First({m \in Launches : phase[m] = "off"}) : StartThreads(l)
       \/ \E l \in Launches : Bind(l) \/ FindServer(l)
       \/ \E l \in Launches, e \in Events : Claim(l, e) \/ Settle(l, e)
       \/ \E r \in Fresh, e \in Known \cup First(Events \ Known) : Ask(r, e) \/ \E l \in Launches : Post(l, r, e)
       \/ \E r \in Attempts : Handling(r) /\ UNCHANGED <<desktop, holder>>
    /\ UNCHANGED faults

MCSpec == MCInit /\ [][Smooth \/ Faulty]_mcvars /\ Fairness
=============================================================================
