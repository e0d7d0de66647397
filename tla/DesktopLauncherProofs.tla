------------------------ MODULE DesktopLauncherProofs ------------------------
(***************************************************************************)
(* Theorems about the ingestion API under the desktop program: for any     *)
(* number of launches, clients, retries and failures.                      *)
(***************************************************************************)
EXTENDS DesktopLauncher, FiniteSetTheorems, TLAPS

(* What a request knows and tells, when the events of S are on record.     *)
Sound(a, S) ==
    /\ a.stage \in {"count", "depth"} \/ a.result # Null \/ a.answer \in Acknowledgements
       => a.event \in S
    /\ a.answer \in Acknowledgements => a.stage = "done" /\ a.answer = a.result
    /\ a.stage = "store" => a.result = Null
    /\ a.stage \in {"count", "depth"} => a.result # Null
    /\ a.after \subseteq S
    /\ a.result = "accepted" => a.event \notin a.after
    /\ a.stage = "depth" \/ a.answer \in Acknowledgements
       => a.count >= Cardinality(a.after \cup {a.event})

AllSound == \A r \in Sent : Sound(attempt[r], Stored)

CreatedOnce ==
    \A r, q \in Sent :
        /\ attempt[r].event = attempt[q].event
        /\ attempt[r].result = "accepted" /\ attempt[q].result = "accepted"
        => r = q

(* Every row has come from an attempt, a duplicate's from another one.     *)
RowsSent == \A e \in Stored : CommittedBy(e, {})
DuplicatesSent == \A r \in Sent : attempt[r].result = "duplicate" => CommittedBy(attempt[r].event, {r})

Traced == CreatedOnce /\ RowsSent /\ DuplicatesSent

IInv == TypeOK /\ AllSound /\ Traced

(* Before the first launch nothing is stored and no request is answered.    *)
THEOREM InitIInv == Init => IInv
  BY DEF Init, ApiInit, IInv, TypeOK, ApiTypeOK, AllSound, Traced, CreatedOnce, RowsSent,
         DuplicatesSent, Sent, Stored

LEMMA SoundGrows ==
  ASSUME NEW a, NEW S, NEW T, S \subseteq T, Sound(a, S)
  PROVE  Sound(a, T)
  BY DEF Sound

LEMMA RowsKept ==
  ASSUME TypeOK
  PROVE  /\ row' = row => Stored' = Stored
         /\ \A e \in Events :
               row' = Committed(e) =>
                  /\ row' \in [Events -> {"absent", "active", "settled"}]
                  /\ Stored' = Stored \cup {e}
  BY DEF TypeOK, ApiTypeOK, Stored, Committed

(* One request changes: what is left to show of it.                        *)
LEMMA OneChanges ==
  ASSUME IInv, NEW r \in Attempts, NEW b \in Attempt,
         attempt' = [attempt EXCEPT ![r] = b],
         Stored \subseteq Stored', Sound(b, Stored'),
         \A e \in Stored' \ Stored : e = b.event /\ b.stage # "store",
         r \in Sent => b.event = attempt[r].event /\ (attempt[r].stage # "store" => b.stage # "store"),
         b.result = "duplicate" =>
             /\ r \in Sent
             /\ \/ attempt[r].result = "duplicate"
                \/ attempt[r].stage = "store" /\ b.event \in Stored,
         b.result = "accepted" =>
             \/ r \in Sent /\ attempt[r].event = b.event /\ attempt[r].result = "accepted"
             \/ b.event \notin Stored
  PROVE  /\ attempt' \in [Attempts -> Attempt \cup {Null}]
         /\ AllSound' /\ Traced'
  <1>1. /\ attempt' \in [Attempts -> Attempt \cup {Null}]
        /\ attempt'[r] = b /\ \A q \in Attempts \ {r} : attempt'[q] = attempt[q]
    BY DEF IInv, TypeOK, ApiTypeOK
  <1>2. \A q \in Sent' : q # r => q \in Sent
    BY <1>1 DEF Sent
  <1>3. AllSound'
    <2>. SUFFICES ASSUME NEW q \in Sent' PROVE Sound(attempt'[q], Stored')
      BY DEF AllSound
    <2>1. CASE q = r
      BY <1>1, <2>1
    <2>2. CASE q # r
      <3>1. attempt'[q] = attempt[q] /\ Sound(attempt[q], Stored)
        BY <1>1, <1>2, <2>2 DEF IInv, AllSound, Sent
      <3>. QED  BY <3>1, SoundGrows
    <2>. QED  BY <2>1, <2>2
  <1>4. \A q \in Sent : attempt[q].result = "accepted" => attempt[q].event \in Stored
    BY NullAssumption DEF IInv, AllSound, Sound, Answers, Acknowledgements
  <1>5. CreatedOnce'
    BY <1>1, <1>2, <1>4 DEF IInv, Traced, CreatedOnce, Sent
  <1>6. ASSUME NEW q \in Sent
        PROVE  /\ q \in Sent' /\ attempt'[q].event = attempt[q].event
               /\ attempt[q].stage # "store" => attempt'[q].stage # "store"
    BY <1>1, NullAssumption DEF Sent
  <1>7. \A e, R : CommittedBy(e, R) => CommittedBy(e, R)'
    BY <1>6 DEF CommittedBy
  <1>8. r \in Sent'
    BY <1>1, NullAssumption DEF Sent
  <1>9. RowsSent'
    <2>. SUFFICES ASSUME NEW e \in Stored' PROVE CommittedBy(e, {})'
      BY DEF RowsSent
    <2>1. CASE e \in Stored
      BY <2>1, <1>7 DEF IInv, Traced, RowsSent
    <2>2. CASE e \notin Stored
      BY <2>2, <1>1, <1>8 DEF CommittedBy
    <2>. QED  BY <2>1, <2>2
  <1>10. DuplicatesSent'
    <2>. SUFFICES ASSUME NEW q \in Sent', attempt'[q].result = "duplicate"
                  PROVE  CommittedBy(attempt[q].event, {q})'
      BY DEF DuplicatesSent
    <2>1. CASE q \in Sent /\ attempt[q].result = "duplicate"
      BY <2>1, <1>6, <1>7 DEF IInv, Traced, DuplicatesSent
    <2>2. CASE ~(q \in Sent /\ attempt[q].result = "duplicate")
      <3>1. /\ q = r /\ r \in Sent /\ attempt[r].stage = "store" /\ b.event \in Stored
            /\ attempt[r].event = b.event /\ attempt'[r].event = b.event
        BY <1>1, <1>2, <2>2
      <3>2. CommittedBy(b.event, {})
        BY <3>1 DEF IInv, Traced, RowsSent
      <3>3. CommittedBy(b.event, {r})
        BY <3>1, <3>2 DEF CommittedBy
      <3>. QED  BY <3>1, <3>3, <1>7
    <2>. QED  BY <2>1, <2>2
  <1>. QED  BY <1>1, <1>3, <1>5, <1>9, <1>10 DEF Traced

LEMMA Fields ==
  ASSUME IInv, NEW r \in Sent
  PROVE  /\ r \in Attempts /\ attempt[r] \in Attempt /\ Sound(attempt[r], Stored)
         /\ attempt[r].event \in Events /\ attempt[r].count \in Nat
         /\ attempt[r].stage \in {"store", "count", "depth", "done"}
         /\ attempt[r].result \in Acknowledgements \cup {Null}
         /\ attempt[r].answer \in Answers \cup {Null}
         /\ attempt[r].after \subseteq Events
  BY DEF IInv, TypeOK, ApiTypeOK, AllSound, Sent, Attempt

(* What an answer adds to a request whose work is over.                    *)
LEMMA Ended ==
  ASSUME IInv, NEW r \in Sent, NEW answer \in Answers, NEW T, Stored \subseteq T,
         attempt[r].stage # "done",
         answer \in Acknowledgements => attempt[r].stage = "depth" /\ answer = attempt[r].result
  PROVE  LET b == [attempt[r] EXCEPT !.stage = "done", !.answer = Heard(r, answer)]
         IN /\ b \in Attempt /\ Sound(b, T)
            /\ b.result = attempt[r].result /\ b.event = attempt[r].event
            /\ b.stage = "done"
  <1>. DEFINE a == attempt[r]
              b == [a EXCEPT !.stage = "done", !.answer = Heard(r, answer)]
  <1>1. a \in Attempt /\ Sound(a, Stored) /\ Heard(r, answer) \in Answers \cup {Null}
    BY Fields DEF Heard
  <1>2. /\ b \in Attempt
        /\ b.stage = "done" /\ b.answer = Heard(r, answer)
        /\ b.event = a.event /\ b.result = a.result /\ b.count = a.count /\ b.after = a.after
    BY <1>1 DEF Attempt
  <1>3. Heard(r, answer) \in Acknowledgements =>
           a.answer = Null /\ Heard(r, answer) = answer /\ a.stage = "depth" /\ answer = a.result
    BY <1>1 DEF Heard, Sound
  <1>4. Sound(b, T)
    <2>. HIDE DEF b
    <2>. QED  BY <1>1, <1>2, <1>3 DEF Sound
  <1>. QED  BY <1>2, <1>4

LEMMA Replied ==
  ASSUME IInv, NEW r \in Sent, NEW answer \in Answers, Reply(r, answer), Stored \subseteq Stored',
         Stored' \subseteq Stored \cup {attempt[r].event},
         attempt[r].stage # "done",
         answer \in Acknowledgements => attempt[r].stage = "depth" /\ answer = attempt[r].result
  PROVE  /\ attempt' \in [Attempts -> Attempt \cup {Null}]
         /\ AllSound' /\ Traced'
  <1>. DEFINE b == [attempt[r] EXCEPT !.stage = "done", !.answer = Heard(r, answer)]
  <1>1. r \in Attempts /\ attempt' = [attempt EXCEPT ![r] = b]
    BY DEF Reply, Sent
  <1>2. /\ b \in Attempt /\ Sound(b, Stored') /\ b.result = attempt[r].result
        /\ b.event = attempt[r].event /\ b.stage = "done"
    BY Ended
  <1>. QED
    <2>. HIDE DEF b
    <2>. QED  BY <1>1, <1>2, OneChanges

-----------------------------------------------------------------------------
(* The steps of a handler and its client: the records are well-formed, and *)
(* row and serving are too.                                                *)
Kept ==
    /\ row' \in [Events -> {"absent", "active", "settled"}]
    /\ attempt' \in [Attempts -> Attempt \cup {Null}]
    /\ AllSound' /\ Traced'

LEMMA SendKeeps ==
  ASSUME IInv, NEW r \in Attempts, NEW e \in Events, NEW by \in Servers \cup {Null},
         NEW s \in Servers, Send(r, e, by, s)
  PROVE  Kept
  <1>. DEFINE b == [event |-> e, by |-> by, server |-> s, stage |-> "store", result |-> Null,
                    count |-> 0, answer |-> Null, after |-> Acknowledged]
  <1>1. Acknowledged \subseteq Stored /\ Acknowledged \subseteq Events
    <2>. SUFFICES ASSUME NEW q \in Attempts, Answered(q, Acknowledgements)
                  PROVE  attempt[q].event \in Stored /\ attempt[q].event \in Events
      BY DEF Acknowledged
    <2>. QED  BY Fields DEF Answered, Sound
  <1>2. row' = row /\ Stored' = Stored /\ attempt' = [attempt EXCEPT ![r] = b]
    BY RowsKept DEF Send, IInv
  <1>3. b \in Attempt
    BY <1>1 DEF Attempt
  <1>4. Sound(b, Stored')
    BY <1>1, <1>2, NullAssumption DEF Sound, Acknowledgements, Answers
  <1>5. r \notin Sent /\ b.result \notin Acknowledgements
    BY NullAssumption DEF Send, Acknowledgements, Answers
  <1>. HIDE DEF b
  <1>. QED  BY <1>2, <1>3, <1>4, <1>5, OneChanges DEF Kept, IInv, TypeOK, ApiTypeOK, Acknowledgements

LEMMA StoreKeeps ==
  ASSUME IInv, NEW r \in Attempts, Store(r)
  PROVE  Kept
  <1>. DEFINE a == attempt[r]
              b == [a EXCEPT !.stage = "count", !.result = Result(a.event)]
  <1>1. /\ r \in Sent /\ a.stage = "store" /\ row' = Committed(a.event)
        /\ attempt' = [attempt EXCEPT ![r] = b]
    BY DEF Store, At
  <1>2. a \in Attempt /\ Sound(a, Stored) /\ a.event \in Events
    BY <1>1, Fields
  <1>3. Stored' = Stored \cup {a.event} /\ row' \in [Events -> {"absent", "active", "settled"}]
    BY <1>1, <1>2, RowsKept DEF IInv
  <1>4. Result(a.event) \in Acknowledgements /\ (Result(a.event) = "accepted" => a.event \notin Stored)
    BY DEF Result, Acknowledgements
  <1>5. /\ b \in Attempt
        /\ b.stage = "count" /\ b.result = Result(a.event)
        /\ b.event = a.event /\ b.answer = a.answer /\ b.after = a.after
    BY <1>2, <1>4 DEF Attempt
  <1>6. a.answer \notin Acknowledgements
    BY <1>1, <1>2 DEF Sound
  <1>7. Sound(b, Stored')
    <2>. HIDE DEF b
    <2>1. b.result # Null
      BY <1>4, <1>5, NullAssumption DEF Acknowledgements, Answers
    <2>2. b.result = "accepted" => b.event \notin b.after
      BY <1>2, <1>4, <1>5 DEF Sound
    <2>. QED  BY <1>2, <1>3, <1>5, <1>6, <2>1, <2>2 DEF Sound
  <1>8. /\ b.result = "accepted" => b.event \notin Stored
        /\ b.result = "duplicate" => b.event \in Stored
    BY <1>5 DEF Result
  <1>9. Stored \subseteq Stored'
    BY <1>3
  <1>. QED
    <2>. HIDE DEF b
    <2>. QED  BY <1>1, <1>3, <1>5, <1>7, <1>8, <1>9, OneChanges DEF Kept

LEMMA StoreFailsKeeps ==
  ASSUME IInv, NEW r \in Attempts, StoreFails(r)
  PROVE  Kept
  <1>1. /\ r \in Sent /\ attempt[r].stage = "store"
        /\ Reply(r, "unavailable") \/ Reply(r, "error")
        /\ row' = row \/ row' = Committed(attempt[r].event)
    BY DEF StoreFails, At
  <1>2. attempt[r].event \in Events
    BY <1>1, Fields
  <1>3. /\ Stored \subseteq Stored' /\ Stored' \subseteq Stored \cup {attempt[r].event}
        /\ row' \in [Events -> {"absent", "active", "settled"}]
    BY <1>1, <1>2, RowsKept DEF IInv, TypeOK, ApiTypeOK
  <1>4. /\ {"unavailable", "error"} \subseteq Answers \ Acknowledgements
        /\ attempt[r].stage # "done"
    BY <1>1 DEF Answers, Acknowledgements
  <1>. QED  BY <1>1, <1>3, <1>4, Replied DEF Kept

LEMMA CountKeeps ==
  ASSUME IInv, NEW r \in Attempts, Count(r)
  PROVE  Kept
  <1>. DEFINE a == attempt[r]
              b == [a EXCEPT !.stage = "depth", !.count = StoredEvents]
  <1>1. /\ r \in Sent /\ a.stage = "count" /\ row' = row /\ Stored' = Stored
        /\ attempt' = [attempt EXCEPT ![r] = b]
    BY RowsKept DEF Count, At, IInv
  <1>2. a \in Attempt /\ Sound(a, Stored) /\ a.event \in Stored /\ a.after \subseteq Stored
    BY <1>1, Fields DEF Sound
  <1>3. /\ StoredEvents \in Nat
        /\ Cardinality(a.after \cup {a.event}) \in Nat
        /\ StoredEvents >= Cardinality(a.after \cup {a.event})
    <2>1. IsFiniteSet(Stored)
      BY EventsAssumption, FS_Subset DEF Stored
    <2>2. a.after \cup {a.event} \subseteq Stored
      BY <1>2
    <2>3. /\ IsFiniteSet(a.after \cup {a.event})
          /\ Cardinality(a.after \cup {a.event}) <= Cardinality(Stored)
      BY <2>1, <2>2, FS_Subset
    <2>4. Cardinality(Stored) \in Nat /\ Cardinality(a.after \cup {a.event}) \in Nat
      BY <2>1, <2>3, FS_CardinalityType
    <2>. QED  BY <2>3, <2>4 DEF StoredEvents
  <1>4. /\ b \in Attempt
        /\ b.stage = "depth" /\ b.count = StoredEvents /\ b.result = a.result
        /\ b.event = a.event /\ b.answer = a.answer /\ b.after = a.after
    BY <1>2, <1>3 DEF Attempt
  <1>5. Sound(b, Stored')
    <2>. HIDE DEF b
    <2>1. a.answer \notin Acknowledgements /\ a.result # Null
      BY <1>1, <1>2 DEF Sound
    <2>. QED  BY <1>1, <1>2, <1>3, <1>4, <2>1 DEF Sound
  <1>. QED
    <2>. HIDE DEF b
    <2>. QED  BY <1>1, <1>4, <1>5, OneChanges DEF Kept, IInv, TypeOK, ApiTypeOK

LEMMA CounterFailsKeeps ==
  ASSUME IInv, NEW r \in Attempts, CounterFails(r)
  PROVE  Kept
  <1>1. /\ r \in Sent /\ attempt[r].stage \in {"count", "depth"} /\ Reply(r, "error")
        /\ row' = row /\ Stored' = Stored
    BY RowsKept DEF CounterFails, At, IInv
  <1>2. "error" \in Answers \ Acknowledgements
    BY DEF Answers, Acknowledgements
  <1>. QED  BY <1>1, <1>2, Replied DEF Kept, IInv, TypeOK, ApiTypeOK

LEMMA AnswerKeeps ==
  ASSUME IInv, NEW r \in Attempts, Answer(r)
  PROVE  Kept
  <1>1. /\ r \in Sent /\ attempt[r].stage = "depth" /\ Reply(r, attempt[r].result)
        /\ row' = row /\ Stored' = Stored
    BY RowsKept DEF Answer, At, IInv
  <1>2. attempt[r].result \in Acknowledgements
    BY <1>1, Fields DEF Sound
  <1>3. attempt[r].result \in Answers
    BY <1>2 DEF Answers, Acknowledgements
  <1>. QED  BY <1>1, <1>2, <1>3, Replied DEF Kept, IInv, TypeOK, ApiTypeOK

LEMMA GiveUpKeeps ==
  ASSUME IInv, NEW r \in Attempts, GiveUpWaiting(r)
  PROVE  Kept
  <1>. DEFINE a == attempt[r]
              b == [a EXCEPT !.answer = "nothing"]
  <1>1. /\ r \in Sent /\ row' = row /\ Stored' = Stored
        /\ attempt' = [attempt EXCEPT ![r] = b]
    BY RowsKept DEF GiveUpWaiting, IInv
  <1>2. a \in Attempt /\ Sound(a, Stored)
    BY <1>1, Fields
  <1>3. "nothing" \in Answers /\ "nothing" \notin Acknowledgements
    BY DEF Answers, Acknowledgements
  <1>4. /\ b \in Attempt /\ b.answer = "nothing"
        /\ b.stage = a.stage /\ b.result = a.result /\ b.count = a.count
        /\ b.event = a.event /\ b.after = a.after
    BY <1>2, <1>3 DEF Attempt
  <1>5. Sound(b, Stored')
    <2>. HIDE DEF b
    <2>. QED  BY <1>1, <1>2, <1>3, <1>4 DEF Sound
  <1>. QED
    <2>. HIDE DEF b
    <2>. QED  BY <1>1, <1>4, <1>5, OneChanges DEF Kept, IInv, TypeOK, ApiTypeOK

(* The end of a process is, for each of its requests, a reply nobody sent. *)
LEMMA DropKeeps ==
  ASSUME IInv, NEW l \in Launches, attempt' = Dropped(l), row' = row
  PROVE  Kept
  <1>1. Stored' = Stored
    BY RowsKept DEF IInv
  <1>2. ASSUME NEW r \in Attempts
        PROVE  /\ attempt'[r] \in Attempt \cup {Null}
               /\ r \in Sent' => r \in Sent
               /\ r \in Sent => /\ Sound(attempt'[r], Stored)
                               /\ attempt'[r].event = attempt[r].event
                               /\ attempt'[r].result = attempt[r].result
                               /\ attempt'[r] \in Attempt
                               /\ (attempt[r].stage # "store" => attempt'[r].stage # "store")
    <2>1. CASE r \in Sent /\ attempt[r].server = l /\ attempt[r].stage # "done"
      <3>. DEFINE b == [attempt[r] EXCEPT !.stage = "done", !.answer = Heard(r, "nothing")]
      <3>1. attempt'[r] = b
        BY <2>1 DEF Dropped
      <3>2. "nothing" \in Answers \ Acknowledgements
        BY DEF Answers, Acknowledgements
      <3>3. /\ b \in Attempt /\ Sound(b, Stored) /\ b.result = attempt[r].result
            /\ b.event = attempt[r].event /\ b.stage = "done"
        BY <2>1, <3>2, Ended
      <3>. HIDE DEF b
      <3>. QED  BY <2>1, <3>1, <3>3
    <2>2. CASE ~(r \in Sent /\ attempt[r].server = l /\ attempt[r].stage # "done")
      <3>1. attempt'[r] = attempt[r]
        BY <2>2 DEF Dropped
      <3>. QED  BY <3>1 DEF IInv, TypeOK, ApiTypeOK, AllSound, Sent
    <2>. QED  BY <2>1, <2>2
  <1>3. attempt' \in [Attempts -> Attempt \cup {Null}]
    <2>1. attempt' = [r \in Attempts |-> attempt'[r]]
      BY DEF Dropped
    <2>. QED  BY <1>2, <2>1
  <1>4. \A r \in Sent : r \in Sent'
    BY <1>2, NullAssumption DEF Sent
  <1>5. AllSound' /\ CreatedOnce'
    BY <1>1, <1>2 DEF IInv, AllSound, Traced, CreatedOnce, Sent
  <1>6. \A e, R : CommittedBy(e, R) => CommittedBy(e, R)'
    BY <1>2, <1>4 DEF CommittedBy, Sent
  <1>7. RowsSent' /\ DuplicatesSent'
    BY <1>1, <1>2, <1>6 DEF IInv, Traced, RowsSent, DuplicatesSent, Sent
  <1>. QED  BY <1>3, <1>5, <1>7 DEF Kept, Traced, IInv, TypeOK, ApiTypeOK

LEMMA SameApi ==
  ASSUME IInv, row' = row, attempt' = attempt
  PROVE  Kept
  BY RowsKept DEF IInv, TypeOK, ApiTypeOK, Kept, AllSound, Traced, CreatedOnce, RowsSent, DuplicatesSent, CommittedBy, Sent

LEMMA SettleKeeps ==
  ASSUME IInv, NEW l \in Launches, NEW e \in Events, Settle(l, e)
  PROVE  Kept
  <1>1. /\ row[e] = "active" /\ row' = [row EXCEPT ![e] = "settled"] /\ attempt' = attempt
        /\ row' \in [Events -> {"absent", "active", "settled"}]
    BY DEF Settle, IInv, TypeOK, ApiTypeOK
  <1>2. Stored' = Stored
    BY <1>1 DEF IInv, TypeOK, ApiTypeOK, Stored
  <1>. QED  BY <1>1, <1>2 DEF Kept, IInv, TypeOK, ApiTypeOK, AllSound, Traced, CreatedOnce, RowsSent,
                                 DuplicatesSent, CommittedBy, Sent

(* The rest of the state.                                                  *)
LauncherTyped ==
    /\ serving \subseteq Servers
    /\ phase \in [Launches -> {"off", "started", "gone"}]
    /\ port \in [Launches -> Ports]
    /\ worker \in [Launches -> {"none", "running", "ended"}]
    /\ collector \in [Launches -> {"none", "waiting", "collecting", "ended"}]
    /\ holder \in [Events -> Launches \cup {Null}]

LEMMA ExitKeeps ==
  ASSUME IInv, NEW l \in Launches, Exit(l)
  PROVE  Kept /\ LauncherTyped'
  <1>1. attempt' = Dropped(l) /\ row' = row
    BY DEF Exit
  <1>2. LauncherTyped'
    BY DEF Exit, IInv, TypeOK, ApiTypeOK, LauncherTyped
  <1>. QED  BY <1>1, <1>2, DropKeeps

LEMMA StepKeeps ==
  ASSUME IInv, [Next]_vars
  PROVE  Kept /\ LauncherTyped'
  <1>. LauncherTyped
    BY DEF IInv, TypeOK, ApiTypeOK, LauncherTyped
  <1>1. ASSUME NEW l \in Launches, StartThreads(l) \/ Bind(l) \/ Quit(l)
        PROVE  Kept /\ LauncherTyped'
    <2>1. CASE StartThreads(l)
      BY <2>1, SameApi DEF StartThreads, apivars, LauncherTyped
    <2>2. CASE Bind(l) /\ Free(port[l])
      BY <2>2, SameApi DEF Bind, desktop, LauncherTyped, Launches
    <2>3. CASE Bind(l) /\ ~Free(port[l])
      BY <2>3, ExitKeeps DEF Bind
    <2>4. CASE Quit(l)
      BY <2>4, ExitKeeps DEF Quit
    <2>. QED  BY <1>1, <2>1, <2>2, <2>3, <2>4
  <1>2. ASSUME NEW l \in Launches, WorkerFails(l) \/ FindServer(l)
        PROVE  Kept /\ LauncherTyped'
    BY <1>2, SameApi DEF WorkerFails, FindServer, apivars, LauncherTyped
  <1>3. ASSUME NEW l \in Launches, NEW e \in Events, Claim(l, e)
        PROVE  Kept /\ LauncherTyped'
    BY <1>3, SameApi DEF Claim, apivars, desktop, LauncherTyped
  <1>4. ASSUME NEW l \in Launches, NEW e \in Events, Settle(l, e)
        PROVE  Kept /\ LauncherTyped'
    BY <1>4, SettleKeeps DEF Settle, desktop, LauncherTyped
  <1>5. ASSUME NEW r \in Attempts, NEW e \in Events, Ask(r, e)
        PROVE  Kept /\ LauncherTyped'
    BY <1>5, SendKeeps DEF Ask, Send, desktop, LauncherTyped
  <1>6. ASSUME NEW r \in Attempts, NEW e \in Events, NEW l \in Launches, Post(l, r, e)
        PROVE  Kept /\ LauncherTyped'
    <2>1. PICK s \in Listening(port[l]) : Send(r, e, l, s)
      BY <1>6 DEF Post
    <2>2. s \in Servers /\ l \in Servers \cup {Null}
      BY <2>1 DEF Listening, LauncherTyped, Launches
    <2>. QED  BY <1>6, <2>1, <2>2, SendKeeps DEF Post, Send, desktop, LauncherTyped
  <1>7. ASSUME NEW r \in Attempts, Handling(r) \/ Failing(r), UNCHANGED <<desktop, holder>>
        PROVE  Kept /\ LauncherTyped'
    <2>1. Kept
      BY <1>7, StoreKeeps, CountKeeps, AnswerKeeps, StoreFailsKeeps, CounterFailsKeeps, GiveUpKeeps
         DEF Handling, Failing
    <2>2. serving' = serving
      BY <1>7 DEF Handling, Failing, Store, Count, Answer, StoreFails, CounterFails, GiveUpWaiting
    <2>. QED  BY <1>7, <2>1, <2>2 DEF desktop, LauncherTyped
  <1>8. CASE UNCHANGED vars
    BY <1>8, SameApi DEF vars, apivars, desktop, LauncherTyped
  <1>. QED  BY <1>1, <1>2, <1>3, <1>4, <1>5, <1>6, <1>7, <1>8 DEF Next

LEMMA StepIInv == IInv /\ [Next]_vars => IInv'
  BY StepKeeps DEF Kept, LauncherTyped, IInv, TypeOK, ApiTypeOK

LEMMA Inductive == Spec => []IInv
  BY InitIInv, StepIInv, PTL DEF Spec

(* The values of every variable, the requests' records among them.         *)
THEOREM DesktopTyped == Spec => []TypeOK
  <1>1. IInv => TypeOK
    BY DEF IInv
  <1>. QED  BY <1>1, Inductive, PTL

(* A 202 is told only of an event on record, which one attempt at most has *)
(* created, "accepted" never of what was acknowledged before, "duplicate"  *)
(* only of what another attempt has brought to the database (app.py        *)
(* ingest).                                                                *)
THEOREM AnswersAreTrue == Spec => []AnswersTell
  <1>1. IInv => AnswersTell
    <2>. SUFFICES ASSUME IInv PROVE AnswersTell
      OBVIOUS
    <2>1. ASSUME NEW r \in Attempts, Answered(r, Acknowledgements)
          PROVE  attempt[r].event \in Stored
      BY <2>1, Fields DEF Answered, Sound
    <2>2. ASSUME NEW r \in Attempts, Answered(r, {"accepted"})
          PROVE  attempt[r].event \notin attempt[r].after
      BY <2>2, Fields DEF Answered, Sound, Acknowledgements
    <2>3. ASSUME NEW r \in Attempts, Answered(r, {"duplicate"})
          PROVE  CommittedBy(attempt[r].event, {r})
      <3>1. r \in Sent /\ attempt[r].result = "duplicate"
        BY <2>3, Fields DEF Answered, Sound, Acknowledgements
      <3>. QED  BY <3>1 DEF IInv, Traced, DuplicatesSent
    <2>. QED  BY <2>1, <2>2, <2>3 DEF AnswersTell, Acknowledged, IInv, Traced, CreatedOnce
  <1>. QED  BY <1>1, Inductive, PTL

(* stored_events is never behind what has been acknowledged.               *)
THEOREM CountsAreUpToDate == Spec => []CountsCoverAcknowledged
  <1>1. IInv => CountsCoverAcknowledged
    BY Fields DEF CountsCoverAcknowledged, Answered, Sound
  <1>. QED  BY <1>1, Inductive, PTL
=============================================================================
