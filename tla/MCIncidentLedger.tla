--------------------------- MODULE MCIncidentLedger ---------------------------
(***************************************************************************)
(* Small instances of IncidentLedger for TLC.                              *)
(*                                                                         *)
(* The clock moves with every reading, and no call or request begins at    *)
(* MaxClock: that bounds the calls, the requests and the timelines.        *)
(***************************************************************************)
EXTENDS IncidentLedger, TLC

CONSTANT MaxClock

Evidence(id, key, severity) == [id |-> id, key |-> key, severity |-> severity]

MemWarning == Evidence("e1.mem", "mem", "warning")
MemCritical == Evidence("e2.mem", "mem", "critical")
MemRescored == Evidence("e1.mem", "mem", "critical")   \* e1 again, after its history grew
MemTrend == Evidence("e1.mem.forecast", "mem", "warning")
DiskWarning == Evidence("e1.disk", "disk", "warning")

(* One metric, two events. *)
OneKey == {"mem"}
OneKeySignals == {MemWarning, MemCritical}
OneKeyCalls == {<<MemWarning>>, <<MemCritical>>}

(* Two metrics of an event that is scored three times, with two findings    *)
(* each time, of one metric or of both in either order, and another event. *)
TwoKeys == {"mem", "disk"}
TwoKeysSignals == {MemWarning, MemRescored, MemTrend, DiskWarning, MemCritical}
TwoKeysCalls ==
    {<<MemTrend, MemRescored>>, <<MemWarning, DiskWarning>>, <<DiskWarning, MemRescored>>,
     <<MemCritical>>}

MCNext ==
    \/ \E w \in Workers :
          \/ \E c \in Calls : clock < MaxClock /\ Begin(w, c)
          \/ Stamp(w) \/ Skip(w) \/ InsertSignal(w) \/ ShareIncident(w) \/ File(w)
          \/ Commit(w) \/ Abort(w)
    \/ \E o \in Operators :
          \/ Refresh(o)
          \/ \E k \in Keys, to \in {"acknowledged", "resolved"} :
                clock < MaxClock /\ Request(o, k, to)
          \/ Accept(o) \/ Refuse(o) \/ Decide(o) \/ Drop(o)

MCSpec == Init /\ [][MCNext]_vars

(* A transaction that can go on goes on, and PostgreSQL breaks deadlocks. *)
MCFairSpec ==
    /\ MCSpec
    /\ \A w \in Workers :
          /\ WF_vars(Stamp(w) \/ Skip(w) \/ InsertSignal(w) \/ ShareIncident(w) \/ File(w) \/ Commit(w))
          /\ WF_vars(Victim(w))
    /\ \A o \in Operators : WF_vars(Accept(o) \/ Refuse(o) \/ Decide(o))

Symmetry == Permutations(Workers) \cup Permutations(Operators)

(* Every call of a worker and every request of an operator gets an answer,  *)
(* although transactions wait for each other's rows in any order.          *)
EverythingAnswered ==
    /\ \A w \in Workers : call[w] # Null ~> call[w] = Null
    /\ \A o \in Operators : ask[o] # Null ~> ask[o] = Null
=============================================================================
