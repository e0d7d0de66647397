--------------------------- MODULE MCPipelineQueue ---------------------------
(***************************************************************************)
(* Small instances of PipelineQueue for TLC.                               *)
(*                                                                         *)
(* Faults, not time, are bounded: a worker that stops costs one of         *)
(* MaxFaults, and so does a tick that takes a lease away from a live       *)
(* worker.  A worker lost to FailOverflow is counted, not limited: there   *)
(* are finitely many workers.  Time passes only while something waits for  *)
(* it: a retry that is not due, a lease that has not expired.  With these  *)
(* the clock and the attempts are finite without a bound of their own.     *)
(***************************************************************************)
EXTENDS PipelineQueue

CONSTANT MaxFaults

VARIABLE faults

mcvars == <<vars, faults>>

MCInit == Init /\ faults = 0

Fault == faults < MaxFaults /\ faults' = faults + 1
NoFault == faults' = faults

(* Workers are interchangeable: they start in the order of their ids. *)
MCStart(w) == Start(w) /\ \A v \in Workers : pc[v] = "new" => w <= v

Waiting ==
    \E e \in Events :
        \/ status[e] = "retry" /\ availableAt[e] > clock
        \/ status[e] = "processing" /\ leaseExpiresAt[e] > clock

Overrun ==
    \E e \in Events, w \in Workers :
        Live(w) /\ leasedBy[e] = w /\ leaseExpiresAt[e] = clock + 1

MCTick == Waiting /\ Tick /\ IF Overrun THEN Fault ELSE NoFault

Work(w) ==
    \/ Claim(w) \/ Succeed(w) \/ Raise(w)
    \/ Complete(w) \/ FailSelect(w) \/ FailCommit(w)

MCNext ==
    \/ \E e \in Events : Store(e) /\ NoFault
    \/ \E w \in Workers :
          \/ MCStart(w) /\ NoFault
          \/ Claim(w) /\ NoFault
          \/ Succeed(w) /\ NoFault
          \/ Raise(w) /\ NoFault
          \/ Complete(w) /\ NoFault
          \/ FailSelect(w) /\ NoFault
          \/ FailCommit(w) /\ NoFault
          \/ FailOverflow(w) /\ faults' = faults + 1
          \/ Stop(w) /\ Fault
    \/ MCTick

MCSpec == MCInit /\ [][MCNext]_mcvars

(* asyncio runs a worker that can run, a supervisor (or the user) starts a *)
(* new one, and time passes.                                               *)
MCFairSpec ==
    /\ MCSpec
    /\ \A w \in Workers :
          /\ WF_mcvars(Work(w) /\ NoFault)
          /\ WF_mcvars(FailOverflow(w) /\ faults' = faults + 1)
    /\ WF_mcvars((\E w \in Workers : MCStart(w)) /\ NoFault)
    /\ WF_mcvars(MCTick)

(* Every attempt past the limit is paid for by an abandoned lease.         *)
ExtraAttemptsAreReclaims == \A e \in Events : attempts[e] <= MaxAttempts + faults

(* Every accepted event is processed or dead-lettered, for good, although  *)
(* workers stop, overrun their leases and overwrite each other.            *)
EventuallySettled ==
    <>[](\A e \in Events : status[e] # "absent" => Settled(e))
=============================================================================
