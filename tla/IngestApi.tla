------------------------------ MODULE IngestApi ------------------------------
(***************************************************************************)
(* POST /v1/telemetry, from the request to what the client hears of it.    *)
(* The handler stores the event, then reads two counters, each in a        *)
(* session of its own; other requests, other API processes on the same     *)
(* database and the workers go on in between, and each step can fail after *)
(* what was done before it is committed.                                   *)
(*                                                                         *)
(* A client that does not hear an acknowledgement may send the event again *)
(* under its id.  A request that validation or the size limit rejects      *)
(* (413, 422) reaches nothing modelled here.                               *)
(***************************************************************************)
EXTENDS FiniteSets, Naturals

CONSTANTS
    Events,
    Attempts,   \* requests; each is sent once
    Servers,    \* API processes on one database
    Null

ASSUME EventsAssumption == IsFiniteSet(Events)
Acknowledgements == {"accepted", "duplicate"}

(* 503, 500, and a connection that breaks or a client that stops waiting.  *)
Answers == Acknowledgements \cup {"unavailable", "error", "nothing"}

Attempt == [event : Events, by : Servers \cup {Null}, server : Servers,
            stage : {"store", "count", "depth", "done"},
            result : Acknowledgements \cup {Null}, count : Nat,
            answer : Answers \cup {Null},
            after : SUBSET Events]  \* history: acknowledged when it was sent

ASSUME NullAssumption == Null \notin Servers /\ Null \notin Answers /\ Null \notin Attempt

VARIABLES
    row,        \* per event: on record, and if so still in the queue?
    serving,    \* the servers that listen
    attempt

apivars == <<row, serving, attempt>>

ApiTypeOK ==
    /\ row \in [Events -> {"absent", "active", "settled"}]
    /\ serving \subseteq Servers
    /\ attempt \in [Attempts -> Attempt \cup {Null}]

ApiInit ==
    /\ row = [e \in Events |-> "absent"] /\ serving = {}
    /\ attempt = [r \in Attempts |-> Null]

Sent == {r \in Attempts : attempt[r] # Null}
Stored == {e \in Events : row[e] # "absent"}
Answered(r, answers) == r \in Sent /\ attempt[r].answer \in answers
Acknowledged == {attempt[r].event : r \in {q \in Attempts : Answered(q, Acknowledgements)}}

Send(r, e, by, s) ==
    /\ r \notin Sent /\ s \in serving
    /\ attempt' = [attempt EXCEPT ![r] =
          [event |-> e, by |-> by, server |-> s, stage |-> "store", result |-> Null,
           count |-> 0, answer |-> Null, after |-> Acknowledged]]
    /\ UNCHANGED <<row, serving>>

At(r, stage) == r \in Sent /\ attempt[r].stage = stage

(* Who has given up waiting hears no answer any more.                      *)
Heard(r, answer) == IF attempt[r].answer = Null THEN answer ELSE attempt[r].answer
Reply(r, answer) ==
    attempt' = [attempt EXCEPT ![r] = [@ EXCEPT !.stage = "done", !.answer = Heard(r, answer)]]

Committed(e) == [row EXCEPT ![e] = IF @ = "absent" THEN "active" ELSE @]

(* Mutant: the insert overwrites a row that is there.                      *)
ResultUpserts(e) == "accepted"
Result(e) == IF e \in Stored THEN "duplicate" ELSE "accepted"

Store(r) ==
    /\ At(r, "store")
    /\ row' = Committed(attempt[r].event)
    /\ attempt' = [attempt EXCEPT ![r] =
          [@ EXCEPT !.stage = "count", !.result = Result(attempt[r].event)]]
    /\ UNCHANGED serving

(* store() turns SQLAlchemy's errors into a 503; those that the driver      *)
(* raises as its own, as for a connection refused, pass it as a 500.  The  *)
(* answer to a commit can be lost: either leaves open whether the event is *)
(* stored.                                                                 *)
StoreFails(r) ==
    /\ At(r, "store")
    /\ Reply(r, "unavailable") \/ Reply(r, "error")
    /\ row' \in {row, Committed(attempt[r].event)}
    /\ UNCHANGED serving

(* Mutant: the rows of the queue are counted.                              *)
StoredEventsActive == Cardinality({e \in Events : row[e] = "active"})
StoredEvents == Cardinality(Stored)

Count(r) ==
    /\ At(r, "count")
    /\ attempt' = [attempt EXCEPT ![r] = [@ EXCEPT !.stage = "depth", !.count = StoredEvents]]
    /\ UNCHANGED <<row, serving>>

(* The counters turn no database error into a 503.                         *)
CounterFails(r) ==
    /\ At(r, "count") \/ At(r, "depth")
    /\ Reply(r, "error")
    /\ UNCHANGED <<row, serving>>

Answer(r) ==
    /\ At(r, "depth") /\ Reply(r, attempt[r].result)
    /\ UNCHANGED <<row, serving>>

(* The handler goes on without its client.                                 *)
GiveUpWaiting(r) ==
    /\ r \in Sent /\ attempt[r].answer = Null
    /\ attempt' = [attempt EXCEPT ![r] = [@ EXCEPT !.answer = "nothing"]]
    /\ UNCHANGED <<row, serving>>

(* The end of a server's process.                                          *)
Dropped(s) ==
    [r \in Attempts |->
        IF r \in Sent /\ attempt[r].server = s /\ attempt[r].stage # "done"
        THEN [attempt[r] EXCEPT !.stage = "done", !.answer = Heard(r, "nothing")]
        ELSE attempt[r]]

-----------------------------------------------------------------------------
(* e was sent by an attempt other than those of R, which is past its store. *)
CommittedBy(e, R) ==
    \E q \in Sent \ R : attempt[q].event = e /\ attempt[q].stage # "store"

(* What a client is told is so, whatever it was told of earlier attempts    *)
(* and on whichever server: an acknowledged event is on record (a 500 or   *)
(* 503 tells neither that it is nor that it is not); one attempt at most   *)
(* has created it; "accepted" is never said of an event that was           *)
(* acknowledged before, and "duplicate" only where another attempt has     *)
(* brought the event to the database (app.py ingest, store).               *)
AnswersTell ==
    /\ Acknowledged \subseteq Stored
    /\ \A r, q \in Sent :
          /\ attempt[r].event = attempt[q].event
          /\ attempt[r].result = "accepted" /\ attempt[q].result = "accepted"
          => r = q
    /\ \A r \in Attempts : Answered(r, {"accepted"}) => attempt[r].event \notin attempt[r].after
    /\ \A r \in Attempts : Answered(r, {"duplicate"}) => CommittedBy(attempt[r].event, {r})

(* stored_events counts the event itself and at least every event that had *)
(* been acknowledged when the request was sent, by any server.             *)
CountsCoverAcknowledged ==
    \A r \in Attempts : Answered(r, Acknowledgements) =>
        attempt[r].count >= Cardinality(attempt[r].after \cup {attempt[r].event})
=============================================================================
