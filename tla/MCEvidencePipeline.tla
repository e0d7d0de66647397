-------------------------- MODULE MCEvidencePipeline --------------------------
(***************************************************************************)
(* Small instances of EvidencePipeline for TLC.                            *)
(*                                                                         *)
(* An event's id is the time it was observed; events are stored and        *)
(* processed in any order.  MaxClaims bounds the attempts of all events    *)
(* together.                                                               *)
(***************************************************************************)
EXTENDS EvidencePipeline, TLC

CONSTANT MaxClaims

Mem == "memory.used.percent"
Load == "system.load.1m"

Telemetry(t, mem, load) == [at |-> t, value |-> (Mem :> mem @@ Load :> load)]

(* The third event stands out against the first for its load, against the  *)
(* second far more so, and for its memory.  Its memory will cross the      *)
(* threshold in six hours after the second, in 28 after the first, and is  *)
(* no trend after both.                                                    *)
MCPayloads == {Telemetry(1, 5, 5), Telemetry(2, 1, 1), Telemetry(3, 8, 12)}
MCThreshold == Mem :> 50
MCFloor == (Mem :> 1 @@ Load :> 1)
MCScorable == {Mem, Load}
MCForecastable == {Mem}

Claims == SumFunction(attempts)

MCNext ==
    \/ \E e \in Events, p \in Payloads : p.at = e /\ Store(e, p)
    \/ \E w \in Workers :
          \/ \E e \in Events : Claims < MaxClaims /\ Claim(w, e)
          \/ WriteSamples(w)
          \/ \E x \in Evidence : Derive(w, x)
          \/ StoreForecasts(w) \/ StoreAnomalies(w) \/ RecordSignals(w)
          \/ Complete(w) \/ Fail(w) \/ LateFail(w) \/ Crash(w)

Symmetry == Permutations(Workers)

MCSpec == Init /\ [][MCNext]_vars
=============================================================================
