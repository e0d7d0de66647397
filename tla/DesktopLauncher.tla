--------------------------- MODULE DesktopLauncher ---------------------------
(***************************************************************************)
(* The desktop program: launches of it on one data directory, each a       *)
(* process with the API, a worker thread and a collector thread.  Nothing  *)
(* but the port tells a launch that there is another one, and that only    *)
(* after its threads have been started.  The migrations a launch begins    *)
(* with are SchemaUpgrade's.                                               *)
(*                                                                         *)
(* An event is settled when its last attempt is over, processed or         *)
(* dead-lettered; a lease may run out at any time (PipelineQueue).         *)
(***************************************************************************)
EXTENDS IngestApi

CONSTANT Ports

Launches == Servers

VARIABLES
    phase,      \* of the main thread
    port,
    worker,
    collector,
    holder      \* of an event's lease

desktop == <<phase, port, worker, collector>>
vars == <<apivars, desktop, holder>>

TypeOK ==
    /\ ApiTypeOK
    /\ phase \in [Launches -> {"off", "started", "gone"}]
    /\ port \in [Launches -> Ports]
    /\ worker \in [Launches -> {"none", "running", "ended"}]
    /\ collector \in [Launches -> {"none", "waiting", "collecting", "ended"}]
    /\ holder \in [Events -> Launches \cup {Null}]

Init ==
    /\ ApiInit
    /\ phase = [l \in Launches |-> "off"] /\ port \in [Launches -> Ports]
    /\ worker = [l \in Launches |-> "none"] /\ collector = [l \in Launches |-> "none"]
    /\ holder = [e \in Events |-> Null]

Listening(p) == {l \in serving : port[l] = p}

-----------------------------------------------------------------------------
(* The main thread. *)

(* After the migrations.  A collector that never looks for the server       *)
(* stands for --no-collector.                                              *)
StartThreads(l) ==
    /\ phase[l] = "off"
    /\ phase' = [phase EXCEPT ![l] = "started"]
    /\ worker' = [worker EXCEPT ![l] = "running"]
    /\ collector' = [collector EXCEPT ![l] = "waiting"]
    /\ UNCHANGED <<apivars, port, holder>>

(* Daemon threads end with the process; the leases stay.                   *)
Exit(l) ==
    /\ phase' = [phase EXCEPT ![l] = "gone"]
    /\ serving' = serving \ {l}
    /\ worker' = [worker EXCEPT ![l] = "ended"]
    /\ collector' = [collector EXCEPT ![l] = "ended"]
    /\ attempt' = Dropped(l)
    /\ UNCHANGED <<row, port, holder>>

(* Mutant: the socket is shared.                                           *)
FreeShared(p) == TRUE
Free(p) == Listening(p) = {}

Bind(l) ==
    /\ phase[l] = "started" /\ l \notin serving
    /\ IF Free(port[l])
       THEN serving' = serving \cup {l} /\ UNCHANGED <<row, attempt, desktop, holder>>
       ELSE Exit(l)

(* Ctrl-C or a kill.                                                       *)
Quit(l) == phase[l] = "started" /\ Exit(l)

-----------------------------------------------------------------------------
(* The worker thread. *)

(* Mutant: a lease is never claimed again.                                 *)
ClaimableOnce(e) == row[e] = "active" /\ holder[e] = Null
Claimable(e) == row[e] = "active"

Claim(l, e) ==
    /\ worker[l] = "running" /\ Claimable(e) /\ holder[e] # l
    /\ holder' = [holder EXCEPT ![e] = l]
    /\ UNCHANGED <<apivars, desktop>>

Settle(l, e) ==
    /\ worker[l] = "running" /\ row[e] = "active" /\ holder[e] = l
    /\ row' = [row EXCEPT ![e] = "settled"]
    /\ holder' = [holder EXCEPT ![e] = Null]
    /\ UNCHANGED <<serving, attempt, desktop>>

(* An error of claim, complete or fail ends the thread, and nothing else.  *)
WorkerFails(l) ==
    /\ worker[l] = "running"
    /\ worker' = [worker EXCEPT ![l] = "ended"]
    /\ UNCHANGED <<apivars, phase, port, collector, holder>>

-----------------------------------------------------------------------------
(* The collector thread, which talks to whoever listens on its port, and    *)
(* other clients.                                                          *)

FindServer(l) ==
    /\ collector[l] = "waiting"
    /\ collector' = [collector EXCEPT ![l] =
          IF Listening(port[l]) # {} THEN "collecting" ELSE "ended"]
    /\ UNCHANGED <<apivars, phase, port, worker, holder>>

Of(e) == {q \in Sent : attempt[q].event = e}
Waits(l) == \E q \in Sent : attempt[q].by = l /\ attempt[q].answer = Null

(* A new event every time: what fails is not sent again.                   *)
Post(l, r, e) ==
    /\ collector[l] = "collecting" /\ ~Waits(l) /\ Of(e) = {}
    /\ \E s \in Listening(port[l]) : Send(r, e, l, s)
    /\ UNCHANGED <<desktop, holder>>

Ask(r, e) ==
    /\ \A q \in Of(e) : attempt[q].by = Null /\ attempt[q].answer \notin Acknowledgements \cup {Null}
    /\ \E s \in serving : Send(r, e, Null, s)
    /\ UNCHANGED <<desktop, holder>>

-----------------------------------------------------------------------------
Handling(r) == Store(r) \/ Count(r) \/ Answer(r)
Failing(r) == StoreFails(r) \/ CounterFails(r) \/ GiveUpWaiting(r)

Next ==
    \/ \E l \in Launches : StartThreads(l) \/ Bind(l) \/ Quit(l)
    \/ \E l \in Launches : WorkerFails(l) \/ FindServer(l)
    \/ \E l \in Launches, e \in Events : Claim(l, e) \/ Settle(l, e)
    \/ \E r \in Attempts, e \in Events : Ask(r, e) \/ \E l \in Launches : Post(l, r, e)
    \/ \E r \in Attempts : (Handling(r) \/ Failing(r)) /\ UNCHANGED <<desktop, holder>>

Spec == Init /\ [][Next]_vars

(* Main threads and workers go on while their process does.                *)
Fairness ==
    /\ \A l \in Launches : WF_vars(Bind(l))
    /\ \A e \in Events : /\ WF_vars(\E l \in Launches : Claim(l, e))
                         /\ WF_vars(\E l \in Launches : Settle(l, e))

FairSpec == Spec /\ Fairness

-----------------------------------------------------------------------------
Working == {l \in Launches : worker[l] = "running"}

(* A second launch on the port runs its worker beside the first one's only *)
(* until it fails to bind: "local SQLite and one background worker"        *)
(* (CHANGELOG.md).                                                         *)
OneWorkerStays == <>[](\A l, m \in Working : port[l] = port[m] => l = m)

(* What is on record is settled, also if the launch that claimed it is      *)
(* gone, unless no worker is left: the worker threads of all launches that *)
(* go on serving have ended by an error.                                   *)
ActiveIsSettled ==
    \A e \in Events : row[e] = "active" ~> row[e] = "settled" \/ Working = {}
=============================================================================
