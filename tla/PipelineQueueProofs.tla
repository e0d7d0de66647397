------------------------- MODULE PipelineQueueProofs -------------------------
(***************************************************************************)
(* Theorems about PipelineQueue for any number of events and workers and   *)
(* any settings.                                                           *)
(***************************************************************************)
EXTENDS MCPipelineQueue, FiniteSetTheorems, SequenceTheorems, TLAPS


LEMMA NullDistinct == Null \notin Workers /\ Null \notin Nat /\ Null \notin Reading
BY NullAssumption

(* What Claim's choice of a batch gives the proofs. *)
LEMMA ClaimGrants ==
    ASSUME NEW w \in Workers, Claim(w)
    PROVE  \E now \in Nows : \E n \in 1..BatchSize : \E b \in [1..n -> Claimable(now)] :
              /\ \A i, j \in 1..n : i # j => b[i] # b[j]
              /\ Grant(w, b, now)
<1>a. PICK now \in Nows : \E skipped \in SUBSET Claimable(now) :
         \E n \in 1..BatchSize : \E b \in [1..n -> Claimable(now) \ skipped] :
            IsBatch(b, Claimable(now) \ skipped) /\ Grant(w, b, now)
  BY DEF Claim
<1>b. PICK skipped \in SUBSET Claimable(now) :
         \E n \in 1..BatchSize : \E b \in [1..n -> Claimable(now) \ skipped] :
            IsBatch(b, Claimable(now) \ skipped) /\ Grant(w, b, now)
  BY <1>a
<1>c. PICK n \in 1..BatchSize : \E b \in [1..n -> Claimable(now) \ skipped] :
            IsBatch(b, Claimable(now) \ skipped) /\ Grant(w, b, now)
  BY <1>b
<1>1. PICK b \in [1..n -> Claimable(now) \ skipped] :
         IsBatch(b, Claimable(now) \ skipped) /\ Grant(w, b, now)
  BY <1>c
<1>2. b \in [1..n -> Claimable(now)]
  OBVIOUS
<1>3. \A i, j \in 1..n : i # j => b[i] # b[j]
  BY <1>1 DEF IsBatch
<1> QED  BY <1>1, <1>2, <1>3

(* A batch is a sequence of leases of its rows, in any order they come. *)
LEMMA GrantedBatch ==
    ASSUME TypeOK, NEW n \in Nat, NEW b \in [1..n -> Events]
    PROVE  LET leases == [i \in DOMAIN b |-> [event |-> b[i], attempt |-> attempts[b[i]] + 1]]
           IN leases \in Seq(Lease) /\ Len(leases) = n
<1> DEFINE leases == [i \in 1..n |-> [event |-> b[i], attempt |-> attempts[b[i]] + 1]]
<1>1. ASSUME NEW i \in 1..n
      PROVE  [event |-> b[i], attempt |-> attempts[b[i]] + 1] \in Lease
  <2>1. b[i] \in Events /\ attempts[b[i]] \in Nat
    BY DEF TypeOK
  <2> QED  BY <2>1 DEF Lease
<1>2. leases \in [1..n -> Lease]
  BY <1>1
<1>3. leases \in Seq(Lease) /\ Len(leases) = n
  <2> HIDE DEF leases
  <2> QED  BY <1>2, SeqDef, LenProperties
<1>4. DOMAIN b = 1..n
  OBVIOUS
<1> QED  BY <1>3, <1>4

LEMMA TypeInit == Init => TypeOK
BY DEF Init, TypeOK, Statuses, PCs

-----------------------------------------------------------------------------
Busy == {"working", "completing", "failing", "writing"}

(* A worker is busy as long as its batch lasts, and has read a row while    *)
(* its fail is open.                                                        *)
BusyBatch ==
    \A w \in Workers :
        /\ pc[w] \in Busy <=> Len(batch[w]) > 0
        /\ pc[w] = "writing" <=> seen[w] # Null

(* The row fail has read was at the attempt of the lease in hand, and is    *)
(* not processed unless it has been claimed again.                          *)
ReadCurrent ==
    \A w \in Workers :
        pc[w] = "writing" =>
            /\ seen[w].attempts = Head(batch[w]).attempt
            /\ seen[w].attempts = attempts[Head(batch[w]).event] =>
                  status[Head(batch[w]).event] # "processed"

(* complete is called for an event only after its processor has succeeded.  *)
CompletingApplied ==
    \A w \in Workers : pc[w] = "completing" => Head(batch[w]).event \in applied

(* No row is leased to a worker that has not started. *)
NewOwnsNothing ==
    \A w \in Workers, e \in Events : leasedBy[e] = w => pc[w] # "new"

IInv ==
    /\ TypeOK
    /\ NewOwnsNothing
    /\ BusyBatch
    /\ LeaseColumns
    /\ TokenCurrent
    /\ LeasesUnique
    /\ ReadCurrent
    /\ CompletingApplied
    /\ ProcessedWasApplied
    /\ DeadLetterAfterLimit

LEMMA InitIInv == Init => IInv
BY TypeInit, NullDistinct DEF Init, IInv, NewOwnsNothing, BusyBatch, Busy, LeaseColumns, TokenCurrent, LeasesUnique,
   ReadCurrent, CompletingApplied, ProcessedWasApplied, DeadLetterAfterLimit, Live

(* A worker with a batch in hand: its head is a lease of one of its events. *)
LEMMA BusyHead ==
    ASSUME IInv, NEW w \in Workers, pc[w] \in Busy
    PROVE  /\ Len(batch[w]) \in Nat \ {0}
           /\ Head(batch[w]) = batch[w][1]
           /\ Head(batch[w]) \in Lease
           /\ Live(w)
BY DEF IInv, TypeOK, BusyBatch, Busy, Live, PCs

-----------------------------------------------------------------------------
(* On to the next lease: the batch is a tail of what it was. *)
LEMMA NextLeaseType ==
    ASSUME TypeOK, NEW w \in Workers, NextLease(w), Len(batch[w]) > 0
    PROVE  batch' \in [Workers -> Seq(Lease)] /\ pc' \in [Workers -> PCs]
BY DEF TypeOK, NextLease, PCs

LEMMA TypeStep == IInv /\ [Next]_vars => TypeOK'
<1> SUFFICES ASSUME IInv, [Next]_vars PROVE TypeOK'
  OBVIOUS
<1>0. TypeOK
  BY DEF IInv
<1> USE DEF row, PCs
<1>1. ASSUME NEW e \in Events, Store(e) PROVE TypeOK'
  BY <1>0, <1>1 DEF TypeOK, Store, Nows, Statuses
<1>2. ASSUME NEW w \in Workers, Start(w) PROVE TypeOK'
  BY <1>0, <1>2 DEF TypeOK, Start
<1>3. ASSUME NEW w \in Workers, Claim(w) PROVE TypeOK'
  <2>1. PICK now \in Nows : \E n \in 1..BatchSize : \E b \in [1..n -> Claimable(now)] :
           Grant(w, b, now)
    BY <1>3, ClaimGrants
  <2>2. PICK n \in 1..BatchSize : \E b \in [1..n -> Claimable(now)] : Grant(w, b, now)
    BY <2>1
  <2>3. PICK b \in [1..n -> Claimable(now)] : Grant(w, b, now)
    BY <2>2
  <2>4. b \in [1..n -> Events] /\ n \in Nat /\ now \in Nat
    BY <1>0 DEF TypeOK, Claimable, Nows
  <2>5. batch' \in [Workers -> Seq(Lease)]
    <3> DEFINE leases == [i \in DOMAIN b |-> [event |-> b[i], attempt |-> attempts[b[i]] + 1]]
    <3>1. leases \in Seq(Lease)
      BY <1>0, <2>4, GrantedBatch
    <3>2. batch' = [batch EXCEPT ![w] = leases]
      BY <2>3 DEF Grant, NextAttempt
    <3> HIDE DEF leases
    <3> QED  BY <1>0, <3>1, <3>2 DEF TypeOK
  <2>6. /\ status' \in [Events -> Statuses]
        /\ attempts' \in [Events -> Nat]
        /\ leaseExpiresAt' \in [Events -> Nat \cup {Null}]
        /\ leasedBy' \in [Events -> Workers \cup {Null}]
    <3>1. now + LeaseSeconds \in Nat
      BY <2>4, SettingsAssumption
    <3>2. status' \in [Events -> Statuses]
      BY <1>0, <2>3 DEF TypeOK, Grant, Statuses
    <3>3. attempts' \in [Events -> Nat]
      BY <1>0, <2>3 DEF TypeOK, Grant, NextAttempt
    <3>4. leaseExpiresAt' \in [Events -> Nat \cup {Null}]
      BY <1>0, <2>3, <3>1 DEF TypeOK, Grant
    <3>5. leasedBy' \in [Events -> Workers \cup {Null}]
      BY <1>0, <2>3 DEF TypeOK, Grant
    <3> QED  BY <3>2, <3>3, <3>4, <3>5
  <2> QED  BY <1>0, <1>3, <2>5, <2>6 DEF TypeOK, Claim
<1>4. ASSUME NEW w \in Workers, Succeed(w) PROVE TypeOK'
  BY <1>0, <1>4, BusyHead DEF TypeOK, Succeed, Busy, Lease
<1>5. ASSUME NEW w \in Workers, Raise(w) PROVE TypeOK'
  BY <1>0, <1>5 DEF TypeOK, Raise
<1>6. ASSUME NEW w \in Workers, Complete(w) PROVE TypeOK'
  <2>1. Head(batch[w]).event \in Events /\ Len(batch[w]) > 0
    BY <1>6, BusyHead DEF Complete, Release, Busy, Lease
  <2>2. batch' \in [Workers -> Seq(Lease)] /\ pc' \in [Workers -> PCs]
    BY <1>0, <1>6, <2>1, NextLeaseType DEF Complete, Release
  <2>3. /\ status' \in [Events -> Statuses]
        /\ leaseExpiresAt' \in [Events -> Nat \cup {Null}]
        /\ leasedBy' \in [Events -> Workers \cup {Null}]
    BY <1>0, <1>6, <2>1 DEF TypeOK, Complete, Release, Statuses
  <2> QED  BY <1>0, <1>6, <2>2, <2>3 DEF TypeOK, Complete, Release
<1>7. ASSUME NEW w \in Workers, FailSelect(w) PROVE TypeOK'
  <2>1. Head(batch[w]).event \in Events /\ Len(batch[w]) > 0
    BY <1>7, BusyHead DEF FailSelect, Busy, Lease
  <2>2. CASE NextLease(w) /\ UNCHANGED seen
    BY <1>0, <1>7, <2>1, <2>2, NextLeaseType DEF TypeOK, FailSelect
  <2>3. ASSUME NEW now \in Nows,
               seen' = [seen EXCEPT ![w] = [attempts |-> attempts[Head(batch[w]).event], now |-> now]],
               pc' = [pc EXCEPT ![w] = "writing"], UNCHANGED batch
        PROVE  TypeOK'
    <3>a. now \in Nat
      BY <1>0 DEF TypeOK, Nows
    <3>b. attempts[Head(batch[w]).event] \in Nat
      <4> DEFINE e == Head(batch[w]).event
      <4>1. e \in Events
        BY <2>1
      <4> HIDE DEF e
      <4>2. attempts[e] \in Nat
        BY <1>0, <4>1 DEF TypeOK
      <4> QED  BY <4>2 DEF e
    <3>1. [attempts |-> attempts[Head(batch[w]).event], now |-> now] \in Reading
      BY <3>a, <3>b DEF Reading
    <3> QED  BY <1>0, <1>7, <2>3, <3>1 DEF TypeOK, FailSelect
  <2> QED  BY <1>7, <2>2, <2>3 DEF FailSelect
<1>8. ASSUME NEW w \in Workers, FailCommit(w) PROVE TypeOK'
  <2> DEFINE e == Head(batch[w]).event
             delay == RetryDelay(Head(batch[w]).attempt)
  <2>1. e \in Events /\ Len(batch[w]) \in Nat \ {0}
    BY <1>8, BusyHead DEF FailCommit, DueAgain, Release, Busy, Lease
  <2>2. seen[w] \in Reading
    BY <1>0, <1>8 DEF IInv, TypeOK, FailCommit, DueAgain, Release, BusyBatch
  <2>3. availableAt' \in [Events -> Nat]
    <3>1. ~Exhausted(w) => delay \in Nat
      BY <1>8 DEF FailCommit, DueAgain, Release, Overflows
    <3> HIDE DEF delay
    <3>2. (IF Exhausted(w) THEN seen[w].now ELSE seen[w].now + delay) \in Nat
      BY <2>2, <3>1 DEF Reading
    <3>3. availableAt' = [availableAt EXCEPT ![e] =
             IF Exhausted(w) THEN seen[w].now ELSE seen[w].now + delay]
      BY <1>8 DEF FailCommit, DueAgain, Release, delay
    <3> QED  BY <1>0, <3>2, <3>3 DEF TypeOK
  <2>4. batch' \in [Workers -> Seq(Lease)] /\ pc' \in [Workers -> PCs]
    BY <1>0, <1>8, <2>1, NextLeaseType DEF FailCommit, DueAgain, Release
  <2>5. /\ status' \in [Events -> Statuses]
        /\ leaseExpiresAt' \in [Events -> Nat \cup {Null}]
        /\ leasedBy' \in [Events -> Workers \cup {Null}]
        /\ seen' \in [Workers -> Reading \cup {Null}]
    BY <1>0, <1>8 DEF TypeOK, FailCommit, DueAgain, Release, Statuses
  <2> QED  BY <1>0, <1>8, <2>3, <2>4, <2>5 DEF TypeOK, FailCommit, DueAgain, Release
<1>9. ASSUME NEW w \in Workers, Leave(w) PROVE TypeOK'
  BY <1>0, <1>9 DEF TypeOK, Leave
<1>10. CASE Tick
  BY <1>0, <1>10 DEF TypeOK, Tick
<1>11. CASE UNCHANGED vars
  BY <1>0, <1>11 DEF TypeOK, vars
<1> QED
  BY <1>1, <1>2, <1>3, <1>4, <1>5, <1>6, <1>7, <1>8, <1>9, <1>10, <1>11
     DEF Next, Stop, FailOverflow

-----------------------------------------------------------------------------
LEMMA BatchDomain ==
    ASSUME TypeOK, NEW w \in Workers
    PROVE  /\ Len(batch[w]) \in Nat
           /\ DOMAIN batch[w] = 1..Len(batch[w])
           /\ \A i \in DOMAIN batch[w] :
                 /\ batch[w][i].event \in Events
                 /\ batch[w][i].attempt \in Nat
<1>1. batch[w] \in Seq(Lease)
  BY DEF TypeOK
<1>2. batch[w] \in [1..Len(batch[w]) -> Lease] /\ Len(batch[w]) \in Nat
  BY <1>1, LenProperties
<1>3. \A i \in 1..Len(batch[w]) : batch[w][i] \in Lease
  BY <1>2
<1> QED  BY <1>2, <1>3 DEF Lease

LEMMA TailOfBatch ==
    ASSUME NEW s \in Seq(Lease), Len(s) > 0
    PROVE  /\ Len(s) \in Nat
           /\ Len(Tail(s)) = Len(s) - 1
           /\ DOMAIN Tail(s) = 1..(Len(s) - 1)
           /\ \A i \in 1..(Len(s) - 1) : Tail(s)[i] = s[i + 1] /\ i + 1 \in DOMAIN s
           /\ Len(Tail(s)) > 0 <=> Len(s) # 1
<1>1. s # <<>>
  OBVIOUS
<1>2. /\ Len(Tail(s)) = Len(s) - 1
      /\ Tail(s) \in Seq(Lease)
      /\ \A i \in 1..(Len(s) - 1) : Tail(s)[i] = s[i + 1]
  BY <1>1, HeadTailProperties
<1>3. /\ DOMAIN s = 1..Len(s) /\ Len(s) \in Nat
      /\ DOMAIN Tail(s) = 1..(Len(s) - 1)
  BY <1>2, LenProperties
<1>4. \A i \in 1..(Len(s) - 1) : i + 1 \in DOMAIN s
  BY <1>3
<1>5. Len(Tail(s)) > 0 <=> Len(s) # 1
  <2>1. \A n \in Nat : n > 0 => (n - 1 > 0 <=> n # 1)
    OBVIOUS
  <2>2. Len(s) \in Nat /\ Len(Tail(s)) = Len(s) - 1
    BY <1>2, <1>3
  <2> HIDE DEF Lease
  <2> QED  BY <2>1, <2>2, Zenon
<1> QED  BY <1>2, <1>3, <1>4, <1>5

(* Every lease left after NextLease was one place further back before. *)
LEMMA NextLeaseBatch ==
    ASSUME TypeOK, NEW w \in Workers, NextLease(w), Len(batch[w]) > 0
    PROVE  /\ Len(batch'[w]) = Len(batch[w]) - 1
           /\ DOMAIN batch'[w] = 1..(Len(batch[w]) - 1)
           /\ \A i \in 1..(Len(batch[w]) - 1) :
                 batch'[w][i] = batch[w][i + 1] /\ i + 1 \in DOMAIN batch[w]
           /\ \A v \in Workers \ {w} : batch'[v] = batch[v] /\ pc'[v] = pc[v]
           /\ \/ pc'[w] = "polling" /\ ~(Len(batch'[w]) > 0)
              \/ pc'[w] = "working" /\ Len(batch'[w]) > 0
<1>1. batch[w] \in Seq(Lease)
  BY DEF TypeOK
<1>2. batch'[w] = Tail(batch[w]) /\ \A v \in Workers \ {w} : batch'[v] = batch[v]
  BY DEF TypeOK, NextLease
<1>3. /\ \A v \in Workers \ {w} : pc'[v] = pc[v]
      /\ pc'[w] = IF Len(batch[w]) = 1 THEN "polling" ELSE "working"
  BY DEF TypeOK, NextLease
<1>4. Len(batch'[w]) > 0 <=> Len(batch[w]) # 1
  BY <1>1, <1>2, TailOfBatch
<1>5. /\ Len(batch'[w]) = Len(batch[w]) - 1
      /\ DOMAIN batch'[w] = 1..(Len(batch[w]) - 1)
      /\ \A i \in 1..(Len(batch[w]) - 1) :
            batch'[w][i] = batch[w][i + 1] /\ i + 1 \in DOMAIN batch[w]
  BY <1>1, <1>2, TailOfBatch
<1> QED  BY <1>2, <1>3, <1>4, <1>5

(* What is granted: leases of distinct claimable rows at their new attempt. *)
LEMMA GrantBatch ==
    ASSUME TypeOK, NEW w \in Workers, NEW now \in Nows, NEW n \in Nat \ {0},
           NEW b \in [1..n -> Claimable(now)], Grant(w, b, now)
    PROVE  /\ DOMAIN batch'[w] = 1..n
           /\ Len(batch'[w]) = n
           /\ \A i \in 1..n :
                 /\ b[i] \in Claimable(now) /\ b[i] \in Events
                 /\ batch'[w][i].event = b[i]
                 /\ batch'[w][i].attempt = attempts[b[i]] + 1
                 /\ attempts'[b[i]] = attempts[b[i]] + 1
                 /\ leasedBy'[b[i]] = w
           /\ \A v \in Workers \ {w} : batch'[v] = batch[v]
           /\ \A e \in Events :
                 \/ \E i \in 1..n : e = b[i]
                 \/ /\ status'[e] = status[e]
                    /\ attempts'[e] = attempts[e]
                    /\ leasedBy'[e] = leasedBy[e]
                    /\ leaseExpiresAt'[e] = leaseExpiresAt[e]
<1> DEFINE leases == [i \in DOMAIN b |-> [event |-> b[i], attempt |-> attempts[b[i]] + 1]]
<1>1. b \in [1..n -> Events]
  BY DEF Claimable
<1>2. leases \in Seq(Lease) /\ Len(leases) = n
  BY <1>1, GrantedBatch
<1>3. batch' = [batch EXCEPT ![w] = leases]
  BY DEF Grant, NextAttempt
<1>4. \A i \in 1..n : leases[i] = [event |-> b[i], attempt |-> attempts[b[i]] + 1]
  OBVIOUS
<1>5. /\ batch'[w] = leases
      /\ \A v \in Workers \ {w} : batch'[v] = batch[v]
  <2> HIDE DEF leases
  <2> QED  BY <1>3 DEF TypeOK
<1>6. DOMAIN leases = 1..n
  OBVIOUS
<1>7. \A e \in Events :
         \/ \E i \in 1..n : e = b[i]
         \/ /\ status'[e] = status[e]
            /\ attempts'[e] = attempts[e]
            /\ leasedBy'[e] = leasedBy[e]
            /\ leaseExpiresAt'[e] = leaseExpiresAt[e]
  BY <1>1 DEF Grant, NextAttempt
<1>8. \A i \in 1..n :
         /\ b[i] \in Claimable(now) /\ b[i] \in Events
         /\ attempts'[b[i]] = attempts[b[i]] + 1
         /\ leasedBy'[b[i]] = w
  BY <1>1 DEF Grant, NextAttempt
<1> QED
  <2> HIDE DEF leases
  <2> QED  BY <1>2, <1>4, <1>5, <1>6, <1>7, <1>8

-----------------------------------------------------------------------------
(* Each action preserves the invariant. *)
LEMMA StoreStep ==
    ASSUME IInv, TypeOK', NEW e \in Events, Store(e)
    PROVE  IInv'
<1>1. UNCHANGED <<attempts, leasedBy, leaseExpiresAt, pc, batch, seen, applied>>
  BY DEF Store
<1>2. status[e] = "absent" /\ status' = [status EXCEPT ![e] = "pending"]
  BY DEF Store
<1>3. /\ status'[e] = "pending"
      /\ \A f \in Events : f # e => status'[f] = status[f]
  BY <1>2 DEF IInv, TypeOK
<1>4. BusyBatch' /\ CompletingApplied' /\ NewOwnsNothing'
  BY <1>1 DEF IInv, NewOwnsNothing, BusyBatch, CompletingApplied
<1>a. TokenCurrent'
  BY <1>1 DEF IInv, TokenCurrent, Live
<1>b. LeasesUnique'
  BY <1>1 DEF IInv, LeasesUnique
<1>5. LeaseColumns'
  BY <1>1, <1>2, <1>3 DEF IInv, LeaseColumns
<1>6. ReadCurrent'
  <2> SUFFICES ASSUME NEW w \in Workers, pc[w] = "writing",
                      status'[Head(batch[w]).event] = "processed",
                      seen[w].attempts = attempts[Head(batch[w]).event]
               PROVE  FALSE
    BY <1>1 DEF IInv, ReadCurrent
  <2>1. Head(batch[w]).event \in Events
    BY BusyHead DEF Busy, Lease
  <2> QED  BY <1>3, <2>1 DEF IInv, ReadCurrent
<1>7. ProcessedWasApplied' /\ DeadLetterAfterLimit'
  BY <1>1, <1>3 DEF IInv, ProcessedWasApplied, DeadLetterAfterLimit
<1> QED  BY <1>4, <1>a, <1>b, <1>5, <1>6, <1>7 DEF IInv

LEMMA StartStep ==
    ASSUME IInv, TypeOK', NEW w \in Workers, Start(w)
    PROVE  IInv'
<1>1. UNCHANGED <<row, batch, seen, applied>>
  BY DEF Start
<1>2. /\ pc[w] = "new" /\ pc'[w] = "polling"
      /\ \A v \in Workers : v # w => pc'[v] = pc[v]
  BY DEF Start, IInv, TypeOK
<1>3. BusyBatch' /\ ReadCurrent' /\ CompletingApplied'
  BY <1>1, <1>2 DEF IInv, BusyBatch, Busy, ReadCurrent, CompletingApplied, row
<1>4. TokenCurrent'
  <2>1. \A e \in Events : leasedBy[e] # w
    BY <1>2 DEF IInv, NewOwnsNothing
  <2> QED  BY <1>1, <1>2, <2>1 DEF IInv, TokenCurrent, Live, row
<1>5. NewOwnsNothing'
  BY <1>1, <1>2 DEF IInv, NewOwnsNothing, row
<1>6. LeaseColumns' /\ LeasesUnique' /\ ProcessedWasApplied' /\ DeadLetterAfterLimit'
  BY <1>1 DEF IInv, LeaseColumns, LeasesUnique, ProcessedWasApplied, DeadLetterAfterLimit, row
<1> QED  BY <1>3, <1>4, <1>5, <1>6 DEF IInv

LEMMA SucceedStep ==
    ASSUME IInv, TypeOK', NEW w \in Workers, Succeed(w)
    PROVE  IInv'
<1>1. UNCHANGED <<row, batch, seen>> /\ applied' = applied \cup {Head(batch[w]).event}
  BY DEF Succeed
<1>2. /\ pc[w] = "working" /\ pc'[w] = "completing"
      /\ \A v \in Workers : v # w => pc'[v] = pc[v]
  BY DEF Succeed, IInv, TypeOK
<1>3. BusyBatch' /\ ReadCurrent' /\ CompletingApplied'
  BY <1>1, <1>2 DEF IInv, BusyBatch, Busy, ReadCurrent, CompletingApplied, row
<1>4. TokenCurrent' /\ NewOwnsNothing'
  BY <1>1, <1>2 DEF IInv, TokenCurrent, NewOwnsNothing, Live, row
<1>5. LeaseColumns' /\ LeasesUnique' /\ ProcessedWasApplied' /\ DeadLetterAfterLimit'
  BY <1>1 DEF IInv, LeaseColumns, LeasesUnique, ProcessedWasApplied, DeadLetterAfterLimit, row
<1> QED  BY <1>3, <1>4, <1>5 DEF IInv

LEMMA RaiseStep ==
    ASSUME IInv, TypeOK', NEW w \in Workers, Raise(w)
    PROVE  IInv'
<1>1. UNCHANGED <<row, batch, seen, applied>>
  BY DEF Raise
<1>2. /\ pc[w] = "working" /\ pc'[w] = "failing"
      /\ \A v \in Workers : v # w => pc'[v] = pc[v]
  BY DEF Raise, IInv, TypeOK
<1>3. BusyBatch' /\ ReadCurrent' /\ CompletingApplied'
  BY <1>1, <1>2 DEF IInv, BusyBatch, Busy, ReadCurrent, CompletingApplied, row
<1>4. TokenCurrent' /\ NewOwnsNothing'
  BY <1>1, <1>2 DEF IInv, TokenCurrent, NewOwnsNothing, Live, row
<1>5. LeaseColumns' /\ LeasesUnique' /\ ProcessedWasApplied' /\ DeadLetterAfterLimit'
  BY <1>1 DEF IInv, LeaseColumns, LeasesUnique, ProcessedWasApplied, DeadLetterAfterLimit, row
<1> QED  BY <1>3, <1>4, <1>5 DEF IInv

LEMMA LeaveStep ==
    ASSUME IInv, TypeOK', NEW w \in Workers, Live(w), Leave(w)
    PROVE  IInv'
<1>1. UNCHANGED <<row, applied>>
  BY DEF Leave
<1>2. /\ pc'[w] = "stopped" /\ batch'[w] = <<>> /\ seen'[w] = Null
      /\ \A v \in Workers : v # w => pc'[v] = pc[v] /\ batch'[v] = batch[v] /\ seen'[v] = seen[v]
  BY DEF Leave, IInv, TypeOK
<1>3. Len(batch'[w]) = 0 /\ DOMAIN batch'[w] = {}
  BY <1>2
<1>4. BusyBatch' /\ ReadCurrent' /\ CompletingApplied'
  BY <1>1, <1>2, <1>3 DEF IInv, BusyBatch, Busy, ReadCurrent, CompletingApplied, row
<1>5. NewOwnsNothing'
  BY <1>1, <1>2 DEF IInv, NewOwnsNothing, row
<1>a. TokenCurrent'
  <2> SUFFICES ASSUME NEW v \in Workers, NEW e \in Events, Live(v)', leasedBy'[e] = v
               PROVE  \E i \in DOMAIN batch'[v] :
                         batch'[v][i].event = e /\ batch'[v][i].attempt = attempts'[e]
    BY DEF TokenCurrent
  <2>1. v # w /\ Live(v)
    BY <1>2 DEF Live
  <2> QED  BY <1>1, <1>2, <2>1 DEF IInv, TokenCurrent, row
<1>6. LeasesUnique'
  BY <1>1, <1>2, <1>3 DEF IInv, LeasesUnique, row
<1>7. LeaseColumns' /\ ProcessedWasApplied' /\ DeadLetterAfterLimit'
  BY <1>1 DEF IInv, LeaseColumns, ProcessedWasApplied, DeadLetterAfterLimit, row
<1> QED  BY <1>4, <1>5, <1>a, <1>6, <1>7 DEF IInv

LEMMA TickStep ==
    ASSUME IInv, TypeOK', UNCHANGED <<row, pc, batch, seen, applied>>
    PROVE  IInv'
<1>1. BusyBatch' /\ LeaseColumns' /\ NewOwnsNothing'
  BY DEF IInv, BusyBatch, LeaseColumns, NewOwnsNothing, row
<1>2. TokenCurrent' /\ LeasesUnique'
  BY DEF IInv, TokenCurrent, LeasesUnique, Live, row
<1>3. ReadCurrent' /\ CompletingApplied'
  BY DEF IInv, ReadCurrent, CompletingApplied, row
<1>4. ProcessedWasApplied' /\ DeadLetterAfterLimit'
  BY DEF IInv, ProcessedWasApplied, DeadLetterAfterLimit, row
<1> QED  BY <1>1, <1>2, <1>3, <1>4 DEF IInv

(* What complete and fail have in common once they are done with a lease:   *)
(* the row is not w's any more, and no other row has changed hands.         *)
LEMMA NextLeaseStep ==
    ASSUME IInv, NEW w \in Workers, pc[w] \in Busy, NextLease(w),
           attempts' = attempts,
           seen'[w] = Null, \A v \in Workers \ {w} : seen'[v] = seen[v],
           \A e \in Events : leasedBy'[e] \in {leasedBy[e], Null},
           leasedBy'[Head(batch[w]).event] # w
    PROVE  BusyBatch' /\ TokenCurrent' /\ LeasesUnique' /\ NewOwnsNothing'
<1> DEFINE shift(u) == IF u = w THEN 1 ELSE 0
<1>1. TypeOK /\ Len(batch[w]) > 0 /\ Live(w) /\ Head(batch[w]) = batch[w][1]
  BY BusyHead DEF IInv
<1>2. ASSUME NEW u \in Workers
      PROVE  /\ Len(batch[u]) \in Nat
             /\ DOMAIN batch[u] = 1..Len(batch[u])
             /\ Len(batch'[u]) = Len(batch[u]) - shift(u)
             /\ DOMAIN batch'[u] = 1..(Len(batch[u]) - shift(u))
             /\ \A i \in DOMAIN batch'[u] :
                   /\ i \in Nat \ {0}
                   /\ batch'[u][i] = batch[u][i + shift(u)]
                   /\ i + shift(u) \in DOMAIN batch[u]
  <2>1. Len(batch[u]) \in Nat /\ DOMAIN batch[u] = 1..Len(batch[u])
    BY <1>1, BatchDomain
  <2>2. CASE u = w
    BY <1>1, <2>1, <2>2, NextLeaseBatch
  <2>3. CASE u # w
    <3>1. batch'[u] = batch[u]
      BY <1>1, <2>3, NextLeaseBatch
    <3> QED  BY <2>1, <2>3, <3>1
  <2> QED  BY <2>2, <2>3
<1>3. /\ pc'[w] \in {"polling", "working"}
      /\ \A v \in Workers \ {w} : pc'[v] = pc[v] /\ batch'[v] = batch[v]
  BY <1>1, NextLeaseBatch
<1>w. /\ Len(batch[w]) \in Nat
      /\ DOMAIN batch[w] = 1..Len(batch[w])
      /\ Len(batch'[w]) = Len(batch[w]) - 1
      /\ DOMAIN batch'[w] = 1..(Len(batch[w]) - 1)
      /\ \A i \in 1..(Len(batch[w]) - 1) : batch'[w][i] = batch[w][i + 1]
  BY <1>1, BatchDomain, NextLeaseBatch
<1>l. Len(batch[w]) > 0 /\ Live(w)
  BY <1>1
<1>4. BusyBatch'
  <2> SUFFICES ASSUME NEW v \in Workers
               PROVE  /\ pc'[v] \in Busy <=> Len(batch'[v]) > 0
                      /\ pc'[v] = "writing" <=> seen'[v] # Null
    BY DEF BusyBatch, Busy
  <2>1. CASE v = w
    <3>1. \/ pc'[w] = "polling" /\ ~(Len(batch'[w]) > 0)
          \/ pc'[w] = "working" /\ Len(batch'[w]) > 0
      BY <1>1, NextLeaseBatch
    <3> QED  BY <2>1, <3>1 DEF Busy
  <2>2. CASE v # w
    BY <1>3, <2>2 DEF IInv, BusyBatch, Busy
  <2> QED  BY <2>1, <2>2
<1>5. LeasesUnique'
  <2> SUFFICES ASSUME NEW u \in Workers, NEW i \in DOMAIN batch'[u]
               PROVE  /\ batch'[u][i].attempt \in 1..attempts[batch'[u][i].event]
                      /\ \A v \in Workers : \A j \in DOMAIN batch'[v] :
                            /\ batch'[v][j].event = batch'[u][i].event
                            /\ v = u \/ batch'[v][j].attempt = batch'[u][i].attempt
                            => v = u /\ j = i
    BY DEF LeasesUnique
  <2>1. i + shift(u) \in DOMAIN batch[u] /\ batch'[u][i] = batch[u][i + shift(u)] /\ i \in Nat
    BY <1>2
  <2>2. batch'[u][i].attempt \in 1..attempts[batch'[u][i].event]
    BY <2>1 DEF IInv, LeasesUnique
  <2>3. ASSUME NEW v \in Workers, NEW j \in DOMAIN batch'[v],
               batch'[v][j].event = batch'[u][i].event,
               v = u \/ batch'[v][j].attempt = batch'[u][i].attempt
        PROVE  v = u /\ j = i
    <3>1. j + shift(v) \in DOMAIN batch[v] /\ batch'[v][j] = batch[v][j + shift(v)] /\ j \in Nat
      BY <1>2
    <3> HIDE DEF shift
    <3>2. v = u /\ j + shift(v) = i + shift(u)
      BY <2>1, <2>3, <3>1 DEF IInv, LeasesUnique
    <3>3. shift(u) \in Nat
      BY DEF shift
    <3> QED  BY <2>1, <3>1, <3>2, <3>3
  <2> QED  BY <2>2, <2>3
<1>t. TokenCurrent
  BY DEF IInv
<1>6. TokenCurrent'
  <2> SUFFICES ASSUME NEW v \in Workers, NEW e \in Events, Live(v)', leasedBy'[e] = v
               PROVE  \E i \in DOMAIN batch'[v] :
                         batch'[v][i].event = e /\ batch'[v][i].attempt = attempts[e]
    BY DEF TokenCurrent
  <2>1. leasedBy[e] = v
    BY NullDistinct
  <2>2. CASE v # w
    <3>1. batch'[v] = batch[v] /\ Live(v)
      BY <1>3, <2>2 DEF Live
    <3> QED  BY <1>t, <2>1, <3>1 DEF TokenCurrent
  <2>3. CASE v = w
    <3>1. PICK i \in DOMAIN batch[w] : batch[w][i].event = e /\ batch[w][i].attempt = attempts[e]
      <4>1. leasedBy[e] = w /\ Live(w)
        BY <1>l, <2>1, <2>3
      <4> QED  BY <1>t, <4>1 DEF TokenCurrent
    <3>2. e # Head(batch[w]).event
      BY <2>3
    <3>3. i # 1
      BY <1>1, <3>1, <3>2
    <3>4. i - 1 \in 1..(Len(batch[w]) - 1) /\ (i - 1) + 1 = i
      BY <1>w, <3>3
    <3>5. i - 1 \in DOMAIN batch'[w] /\ batch'[w][i - 1] = batch[w][i]
      BY <1>w, <3>4
    <3> QED  BY <2>3, <3>1, <3>5
  <2> QED  BY <2>2, <2>3
<1>7. NewOwnsNothing'
  BY <1>1, <1>3, NullDistinct DEF IInv, NewOwnsNothing, Live
<1> QED  BY <1>4, <1>5, <1>6, <1>7

(* The lease a worker that owns a row works from is the row's current one,  *)
(* and no other worker has one for that attempt.                            *)
LEMMA OwnerToken ==
    ASSUME IInv, NEW w \in Workers, pc[w] \in Busy, Owns(w, Head(batch[w]).event)
    PROVE  /\ Head(batch[w]).attempt = attempts[Head(batch[w]).event]
           /\ \A v \in Workers \ {w} :
                 pc[v] \in Busy /\ Head(batch[v]).event = Head(batch[w]).event
                 => Head(batch[v]).attempt # Head(batch[w]).attempt
<1> DEFINE e == Head(batch[w]).event
<1>1. /\ TypeOK /\ Live(w) /\ e \in Events /\ e = batch[w][1].event
      /\ Head(batch[w]) = batch[w][1]
      /\ 1 \in DOMAIN batch[w]
  BY BusyHead, BatchDomain DEF IInv, Lease
<1> HIDE DEF e
<1>2. PICK i \in DOMAIN batch[w] : batch[w][i].event = e /\ batch[w][i].attempt = attempts[e]
  BY <1>1 DEF IInv, TokenCurrent, Owns, e
<1>3. i = 1
  BY <1>1, <1>2 DEF IInv, LeasesUnique
<1>4. ASSUME NEW v \in Workers \ {w}, pc[v] \in Busy, Head(batch[v]).event = e
      PROVE  Head(batch[v]).attempt # Head(batch[w]).attempt
  <2>1. Head(batch[v]) = batch[v][1] /\ 1 \in DOMAIN batch[v]
    BY <1>1, <1>4, BusyHead, BatchDomain
  <2> QED  BY <1>1, <1>4, <2>1 DEF IInv, LeasesUnique
<1> QED  BY <1>1, <1>2, <1>3, <1>4 DEF e

LEMMA CompleteStep ==
    ASSUME IInv, TypeOK', NEW w \in Workers, Complete(w)
    PROVE  IInv'
<1> DEFINE e == Head(batch[w]).event
<1>1. /\ pc[w] = "completing" /\ pc[w] \in Busy /\ NextLease(w)
      /\ UNCHANGED <<attempts, seen, applied>>
  BY DEF Complete, Release, Busy, row
<1>2. e \in Events /\ Len(batch[w]) > 0
  BY <1>1, BusyHead DEF Lease
<1>3. \/ /\ Owns(w, e)
         /\ status' = [status EXCEPT ![e] = "processed"]
         /\ leaseExpiresAt' = [leaseExpiresAt EXCEPT ![e] = Null]
         /\ leasedBy' = [leasedBy EXCEPT ![e] = Null]
      \/ ~Owns(w, e) /\ UNCHANGED <<status, leaseExpiresAt, leasedBy>>
  BY DEF Complete, Release, row
<1> HIDE DEF e
<1>4. \/ /\ Owns(w, e) /\ status'[e] = "processed"
         /\ leaseExpiresAt'[e] = Null /\ leasedBy'[e] = Null
      \/ /\ ~Owns(w, e) /\ status'[e] = status[e]
         /\ leaseExpiresAt'[e] = leaseExpiresAt[e] /\ leasedBy'[e] = leasedBy[e]
  BY <1>2, <1>3 DEF IInv, TypeOK
<1>5. \A f \in Events : f # e =>
         /\ status'[f] = status[f]
         /\ leaseExpiresAt'[f] = leaseExpiresAt[f] /\ leasedBy'[f] = leasedBy[f]
  BY <1>2, <1>3 DEF IInv, TypeOK
<1>6. LeaseColumns'
  BY <1>4, <1>5 DEF IInv, LeaseColumns
<1>7. BusyBatch' /\ TokenCurrent' /\ LeasesUnique' /\ NewOwnsNothing'
  <2>1. leasedBy'[e] # w
    BY <1>2, <1>4, NullDistinct DEF IInv, LeaseColumns, Owns
  <2>2. \A f \in Events : leasedBy'[f] \in {leasedBy[f], Null}
    BY <1>4, <1>5
  <2>3. seen'[w] = Null /\ \A v \in Workers \ {w} : seen'[v] = seen[v]
    BY <1>1 DEF IInv, BusyBatch
  <2> QED  BY <1>1, <2>1, <2>2, <2>3, NextLeaseStep DEF e
<1>8. /\ pc'[w] \in {"polling", "working"}
      /\ \A v \in Workers \ {w} : batch'[v] = batch[v] /\ pc'[v] = pc[v]
  BY <1>1, <1>2, NextLeaseBatch DEF IInv
<1>9. ReadCurrent'
  <2> SUFFICES ASSUME NEW v \in Workers, pc'[v] = "writing"
               PROVE  /\ seen[v].attempts = Head(batch[v]).attempt
                      /\ seen[v].attempts = attempts[Head(batch[v]).event] =>
                            status'[Head(batch[v]).event] # "processed"
    BY <1>1, <1>8 DEF ReadCurrent
  <2>1. v # w /\ pc[v] = "writing" /\ pc[v] \in Busy
    BY <1>8 DEF Busy
  <2>2. seen[v].attempts = Head(batch[v]).attempt /\ Head(batch[v]).event \in Events
    BY <2>1, BusyHead DEF IInv, ReadCurrent, Lease
  <2>3. ASSUME seen[v].attempts = attempts[Head(batch[v]).event],
               status'[Head(batch[v]).event] = "processed"
        PROVE  FALSE
    <3> DEFINE f == Head(batch[v]).event
    <3>a. status[f] # "processed"
      BY <2>1, <2>3 DEF IInv, ReadCurrent
    <3>b. f \in Events /\ status'[f] = "processed"
      BY <2>2, <2>3
    <3> HIDE DEF f
    <3>c. f = e /\ Owns(w, e)
      BY <1>4, <1>5, <3>a, <3>b
    <3>1. Head(batch[v]).event = e /\ Owns(w, e)
      BY <3>c DEF f
    <3>2. Head(batch[v]).attempt # attempts[e]
      BY <1>1, <2>1, <3>1, OwnerToken DEF e
    <3> QED  BY <2>2, <2>3, <3>1, <3>2
  <2> QED  BY <2>2, <2>3
<1>10. CompletingApplied'
  BY <1>1, <1>8 DEF IInv, CompletingApplied
<1>11. ProcessedWasApplied'
  BY <1>1, <1>4, <1>5 DEF IInv, ProcessedWasApplied, CompletingApplied, e
<1>12. DeadLetterAfterLimit'
  BY <1>1, <1>4, <1>5 DEF IInv, DeadLetterAfterLimit
<1> QED  BY <1>6, <1>7, <1>9, <1>10, <1>11, <1>12 DEF IInv

LEMMA FailSelectStep ==
    ASSUME IInv, TypeOK', NEW w \in Workers, FailSelect(w)
    PROVE  IInv'
<1> DEFINE e == Head(batch[w]).event
<1>1. /\ pc[w] = "failing" /\ pc[w] \in Busy
      /\ UNCHANGED <<status, attempts, leaseExpiresAt, leasedBy, applied>>
  BY DEF FailSelect, Busy, row
<1>2. e \in Events /\ Len(batch[w]) > 0
  BY <1>1, BusyHead DEF Lease
<1>3. LeaseColumns' /\ ProcessedWasApplied' /\ DeadLetterAfterLimit'
  BY <1>1 DEF IInv, LeaseColumns, ProcessedWasApplied, DeadLetterAfterLimit
<1>4. CASE ~Owns(w, e)
  <2>1. NextLease(w) /\ UNCHANGED seen
    BY <1>4 DEF FailSelect
  <2>2. /\ pc'[w] \in {"polling", "working"}
        /\ \A v \in Workers \ {w} : batch'[v] = batch[v] /\ pc'[v] = pc[v]
    BY <1>2, <2>1, NextLeaseBatch DEF IInv
  <2>3. leasedBy'[e] # w
    BY <1>1, <1>2, <1>4, NullDistinct DEF IInv, LeaseColumns, Owns
  <2>4. seen'[w] = Null /\ \A v \in Workers \ {w} : seen'[v] = seen[v]
    BY <1>1, <2>1 DEF IInv, BusyBatch
  <2>5. BusyBatch' /\ TokenCurrent' /\ LeasesUnique' /\ NewOwnsNothing'
    BY <1>1, <2>1, <2>3, <2>4, NextLeaseStep
  <2>6. ReadCurrent' /\ CompletingApplied'
    BY <1>1, <2>1, <2>2 DEF IInv, ReadCurrent, CompletingApplied
  <2> QED  BY <1>3, <2>5, <2>6 DEF IInv
<1>5. CASE Owns(w, e)
  <2>1. PICK now \in Nows :
           /\ seen' = [seen EXCEPT ![w] = [attempts |-> attempts[e], now |-> now]]
           /\ pc' = [pc EXCEPT ![w] = "writing"] /\ UNCHANGED batch
    BY <1>5 DEF FailSelect
  <2> HIDE DEF e
  <2>2. /\ pc'[w] = "writing" /\ seen'[w] # Null /\ seen'[w].attempts = attempts[e]
        /\ \A v \in Workers \ {w} : pc'[v] = pc[v] /\ seen'[v] = seen[v]
    <3> DEFINE reading == [attempts |-> attempts[e], now |-> now]
    <3>1. attempts[e] \in Nat /\ now \in Nat
      BY <1>2 DEF IInv, TypeOK, Nows
    <3>2. reading \in Reading
      BY <3>1 DEF Reading
    <3>3. reading.attempts = attempts[e]
      OBVIOUS
    <3> HIDE DEF reading
    <3>4. /\ seen'[w] = reading /\ pc'[w] = "writing"
          /\ \A v \in Workers \ {w} : pc'[v] = pc[v] /\ seen'[v] = seen[v]
      BY <2>1 DEF IInv, TypeOK, reading
    <3> QED  BY <3>2, <3>3, <3>4, NullDistinct
  <2>3. BusyBatch'
    BY <1>1, <2>1, <2>2 DEF IInv, BusyBatch, Busy
  <2>4. TokenCurrent' /\ NewOwnsNothing'
    BY <1>1, <2>1, <2>2 DEF IInv, TokenCurrent, NewOwnsNothing, Live
  <2>5. LeasesUnique'
    BY <1>1, <2>1 DEF IInv, LeasesUnique
  <2>6. ReadCurrent'
    <3>1. Head(batch[w]).attempt = attempts[e]
      BY <1>1, <1>5, OwnerToken DEF e
    <3>2. status[e] # "processed"
      BY <1>5 DEF Owns
    <3> QED  BY <1>1, <2>1, <2>2, <3>1, <3>2 DEF IInv, ReadCurrent, e
  <2>7. CompletingApplied'
    BY <1>1, <2>1, <2>2 DEF IInv, CompletingApplied
  <2> QED  BY <1>3, <2>3, <2>4, <2>5, <2>6, <2>7 DEF IInv
<1> QED  BY <1>4, <1>5

LEMMA FailCommitStep ==
    ASSUME IInv, TypeOK', NEW w \in Workers, FailCommit(w)
    PROVE  IInv'
<1> DEFINE e == Head(batch[w]).event
<1>1. /\ pc[w] = "writing" /\ pc[w] \in Busy /\ NextLease(w)
      /\ UNCHANGED <<attempts, applied>>
      /\ seen' = [seen EXCEPT ![w] = Null]
  BY DEF FailCommit, DueAgain, Release, Busy
<1>2. e \in Events /\ Len(batch[w]) > 0
  BY <1>1, BusyHead DEF Lease
<1>3. /\ status' = [status EXCEPT ![e] = IF Exhausted(w) THEN "dead_letter" ELSE "retry"]
      /\ leaseExpiresAt' = [leaseExpiresAt EXCEPT ![e] = Null]
      /\ leasedBy' = [leasedBy EXCEPT ![e] = Null]
  BY DEF FailCommit, DueAgain, Release
<1> HIDE DEF e
<1>4. /\ status'[e] = IF Exhausted(w) THEN "dead_letter" ELSE "retry"
      /\ leaseExpiresAt'[e] = Null /\ leasedBy'[e] = Null
  BY <1>2, <1>3 DEF IInv, TypeOK
<1>5. \A f \in Events : f # e =>
         /\ status'[f] = status[f]
         /\ leaseExpiresAt'[f] = leaseExpiresAt[f] /\ leasedBy'[f] = leasedBy[f]
  BY <1>2, <1>3 DEF IInv, TypeOK
<1>6. LeaseColumns'
  BY <1>4, <1>5 DEF IInv, LeaseColumns
<1>7. seen'[w] = Null /\ \A v \in Workers \ {w} : seen'[v] = seen[v]
  BY <1>1 DEF IInv, TypeOK
<1>8. BusyBatch' /\ TokenCurrent' /\ LeasesUnique' /\ NewOwnsNothing'
  <2>1. leasedBy'[e] # w
    BY <1>4, NullDistinct
  <2>2. \A f \in Events : leasedBy'[f] \in {leasedBy[f], Null}
    BY <1>4, <1>5
  <2> QED  BY <1>1, <1>7, <2>1, <2>2, NextLeaseStep DEF e
<1>9. /\ pc'[w] \in {"polling", "working"}
      /\ \A v \in Workers \ {w} : batch'[v] = batch[v] /\ pc'[v] = pc[v]
  BY <1>1, <1>2, NextLeaseBatch DEF IInv
<1>10. ReadCurrent'
  <2> SUFFICES ASSUME NEW v \in Workers, pc'[v] = "writing"
               PROVE  /\ seen'[v].attempts = Head(batch'[v]).attempt
                      /\ seen'[v].attempts = attempts[Head(batch'[v]).event] =>
                            status'[Head(batch'[v]).event] # "processed"
    BY <1>1 DEF ReadCurrent
  <2>1. v # w /\ pc[v] = "writing" /\ pc[v] \in Busy
    BY <1>9 DEF Busy
  <2>2. Head(batch[v]).event \in Events
    BY <2>1, BusyHead DEF Lease
  <2>3. seen'[v] = seen[v] /\ batch'[v] = batch[v]
    BY <1>7, <1>9, <2>1
  <2>4. /\ seen[v].attempts = Head(batch[v]).attempt
        /\ seen[v].attempts = attempts[Head(batch[v]).event] =>
              status[Head(batch[v]).event] # "processed"
    BY <2>1 DEF IInv, ReadCurrent
  <2>5. status'[Head(batch[v]).event] = "processed" => status[Head(batch[v]).event] = "processed"
    BY <1>4, <1>5, <2>2
  <2> QED  BY <2>3, <2>4, <2>5
<1>11. CompletingApplied'
  BY <1>1, <1>9 DEF IInv, CompletingApplied
<1>12. ProcessedWasApplied'
  BY <1>1, <1>4, <1>5 DEF IInv, ProcessedWasApplied
<1>13. DeadLetterAfterLimit'
  <2>1. seen[w].attempts \in Nat /\ attempts[e] \in Nat /\ seen[w].attempts <= attempts[e]
    <3>1. /\ Head(batch[w]) = batch[w][1] /\ 1 \in DOMAIN batch[w]
          /\ seen[w].attempts = Head(batch[w]).attempt /\ batch[w][1].event = e
      BY <1>1, BusyHead, BatchDomain DEF IInv, ReadCurrent, e
    <3>2. batch[w][1].attempt \in 1..attempts[e]
      BY <3>1 DEF IInv, LeasesUnique
    <3> QED  BY <1>2, <3>1, <3>2 DEF IInv, TypeOK
  <2>2. Exhausted(w) => attempts[e] >= MaxAttempts
    BY <2>1, SettingsAssumption DEF Exhausted
  <2> QED  BY <1>1, <1>4, <1>5, <2>2 DEF IInv, DeadLetterAfterLimit
<1> QED  BY <1>6, <1>8, <1>10, <1>11, <1>12, <1>13 DEF IInv

LEMMA ClaimStep ==
    ASSUME IInv, TypeOK', NEW w \in Workers, Claim(w)
    PROVE  IInv'
<1>a. PICK now \in Nows : \E n \in 1..BatchSize : \E b \in [1..n -> Claimable(now)] :
         (\A i, j \in 1..n : i # j => b[i] # b[j]) /\ Grant(w, b, now)
  BY ClaimGrants
<1>b. PICK n \in 1..BatchSize : \E b \in [1..n -> Claimable(now)] :
         (\A i, j \in 1..n : i # j => b[i] # b[j]) /\ Grant(w, b, now)
  BY <1>a
<1>c. PICK b \in [1..n -> Claimable(now)] :
         (\A i, j \in 1..n : i # j => b[i] # b[j]) /\ Grant(w, b, now)
  BY <1>b
<1>d. /\ n \in Nat \ {0} /\ TypeOK /\ pc[w] = "polling" /\ UNCHANGED <<seen, applied>>
      /\ pc' = [pc EXCEPT ![w] = "working"]
  BY SettingsAssumption DEF IInv, Claim
<1>1. /\ DOMAIN batch'[w] = 1..n
      /\ Len(batch'[w]) = n
      /\ \A v \in Workers \ {w} : batch'[v] = batch[v]
  BY <1>c, <1>d, GrantBatch
<1>2. \A i \in 1..n :
         /\ b[i] \in Claimable(now) /\ b[i] \in Events
         /\ batch'[w][i].event = b[i]
         /\ batch'[w][i].attempt = attempts[b[i]] + 1
         /\ attempts'[b[i]] = attempts[b[i]] + 1
         /\ leasedBy'[b[i]] = w
  BY <1>c, <1>d, GrantBatch
<1>3. \A e \in Events :
         \/ \E i \in 1..n : e = b[i]
         \/ /\ status'[e] = status[e]
            /\ attempts'[e] = attempts[e]
            /\ leasedBy'[e] = leasedBy[e]
            /\ leaseExpiresAt'[e] = leaseExpiresAt[e]
  BY <1>c, <1>d, GrantBatch
<1>4. \A i \in 1..n : status'[b[i]] = "processing" /\ leaseExpiresAt'[b[i]] # Null
  <2>1. now + LeaseSeconds \in Nat
    BY <1>d, SettingsAssumption DEF Nows, TypeOK
  <2>2. \A i \in 1..n : status'[b[i]] = "processing" /\ leaseExpiresAt'[b[i]] = now + LeaseSeconds
    BY <1>2, <1>c DEF Grant, NextAttempt
  <2> QED  BY <2>1, <2>2, NullDistinct
<1>5. pc'[w] = "working" /\ \A v \in Workers \ {w} : pc'[v] = pc[v]
  BY <1>d DEF TypeOK
<1>6. BusyBatch'
  <2>1. ~(Len(batch[w]) > 0) /\ seen[w] = Null
    BY <1>d DEF IInv, BusyBatch, Busy
  <2>2. Len(batch'[w]) > 0
    BY <1>1, <1>d
  <2>3. \A v \in Workers \ {w} : batch'[v] = batch[v] /\ pc'[v] = pc[v] /\ seen'[v] = seen[v]
    BY <1>1, <1>5, <1>d
  <2>4. seen'[w] = Null
    BY <2>1, <1>d
  <2> QED  BY <2>2, <2>3, <2>4, <1>5 DEF IInv, BusyBatch, Busy
<1>7. LeaseColumns'
  BY <1>2, <1>3, <1>4, NullDistinct DEF IInv, LeaseColumns
<1>8. NewOwnsNothing'
  BY <1>2, <1>3, <1>5 DEF IInv, NewOwnsNothing
<1>9. TokenCurrent'
  <2> SUFFICES ASSUME NEW v \in Workers, NEW e \in Events, Live(v)', leasedBy'[e] = v
               PROVE  \E i \in DOMAIN batch'[v] :
                         batch'[v][i].event = e /\ batch'[v][i].attempt = attempts'[e]
    BY DEF TokenCurrent
  <2>1. CASE \E i \in 1..n : e = b[i]
    <3>1. PICK i \in 1..n : e = b[i]
      BY <2>1
    <3>2. v = w
      BY <1>2, <3>1
    <3> QED  BY <1>1, <1>2, <3>1, <3>2
  <2>2. CASE ~\E i \in 1..n : e = b[i]
    <3>1. attempts'[e] = attempts[e] /\ leasedBy[e] = v
      BY <1>3, <2>2
    <3>2. Live(v)
      BY <1>5, <1>d DEF Live
    <3>3. \E i \in DOMAIN batch[v] : batch[v][i].event = e /\ batch[v][i].attempt = attempts[e]
      BY <3>1, <3>2 DEF IInv, TokenCurrent
    <3>4. v # w
      <4>1. ~(Len(batch[w]) > 0)
        BY <1>d DEF IInv, BusyBatch, Busy
      <4>2. DOMAIN batch[w] = 1..Len(batch[w]) /\ Len(batch[w]) \in Nat
        BY <1>d, BatchDomain
      <4> QED  BY <3>3, <4>1, <4>2
    <3> QED  BY <1>1, <3>1, <3>3, <3>4
  <2> QED  BY <2>1, <2>2
<1>10. LeasesUnique'
  <2>1. \A v \in Workers \ {w} : \A j \in DOMAIN batch[v] :
           /\ batch[v][j].event \in Events
           /\ batch[v][j].attempt \in 1..attempts[batch[v][j].event]
    BY <1>d, BatchDomain DEF IInv, LeasesUnique
  <2>2. \A e \in Events : attempts[e] \in Nat /\ attempts'[e] \in {attempts[e], attempts[e] + 1}
    BY <1>2, <1>3, <1>d DEF TypeOK
  <2>3. ASSUME NEW v \in Workers \ {w}, NEW j \in DOMAIN batch[v], NEW i \in 1..n,
               batch[v][j].event = b[i]
        PROVE  batch[v][j].attempt # batch'[w][i].attempt
    <3>1. batch[v][j].attempt \in 1..attempts[b[i]] /\ b[i] \in Events /\ attempts[b[i]] \in Nat
      BY <2>1, <2>2, <2>3, <1>2
    <3>2. batch'[w][i].attempt = attempts[b[i]] + 1
      BY <1>2
    <3> QED  BY <3>1, <3>2
  <2> SUFFICES ASSUME NEW u \in Workers, NEW i \in DOMAIN batch'[u]
               PROVE  /\ batch'[u][i].attempt \in 1..attempts'[batch'[u][i].event]
                      /\ \A v \in Workers : \A j \in DOMAIN batch'[v] :
                            /\ batch'[v][j].event = batch'[u][i].event
                            /\ v = u \/ batch'[v][j].attempt = batch'[u][i].attempt
                            => v = u /\ j = i
    BY DEF LeasesUnique
  <2>4. batch'[u][i].attempt \in 1..attempts'[batch'[u][i].event]
    <3>1. CASE u = w
      <4>1. i \in 1..n
        BY <1>1, <3>1
      <4>2. /\ batch'[w][i].event = b[i] /\ batch'[w][i].attempt = attempts[b[i]] + 1
            /\ attempts'[b[i]] = attempts[b[i]] + 1 /\ b[i] \in Events
        BY <1>2, <4>1
      <4>3. attempts[b[i]] \in Nat
        BY <2>2, <4>2
      <4> QED  BY <3>1, <4>2, <4>3
    <3>2. CASE u # w
      <4> DEFINE lease == batch[u][i]
      <4>1. batch'[u] = batch[u] /\ i \in DOMAIN batch[u]
        BY <1>1, <3>2
      <4>2. lease.event \in Events /\ lease.attempt \in 1..attempts[lease.event]
        BY <2>1, <3>2, <4>1
      <4>3. batch'[u][i] = lease
        BY <4>1
      <4> HIDE DEF lease
      <4>4. attempts[lease.event] \in Nat /\ attempts'[lease.event] \in
               {attempts[lease.event], attempts[lease.event] + 1}
        BY <2>2, <4>2
      <4>5. lease.attempt \in 1..attempts'[lease.event]
        BY <4>2, <4>4
      <4> QED  BY <4>3, <4>5
    <3> QED  BY <3>1, <3>2
  <2>5. ASSUME NEW v \in Workers, NEW j \in DOMAIN batch'[v],
               batch'[v][j].event = batch'[u][i].event,
               v = u \/ batch'[v][j].attempt = batch'[u][i].attempt
        PROVE  v = u /\ j = i
    <3>1. CASE u = w /\ v = w
      BY <1>1, <1>2, <1>c, <2>5, <3>1
    <3>2. CASE u = w /\ v # w
      BY <1>1, <1>2, <2>3, <2>5, <3>2
    <3>3. CASE u # w /\ v = w
      BY <1>1, <1>2, <2>3, <2>5, <3>3
    <3>4. CASE u # w /\ v # w
      BY <1>1, <2>5, <3>4 DEF IInv, LeasesUnique
    <3> QED  BY <3>1, <3>2, <3>3, <3>4
  <2> QED  BY <2>4, <2>5
<1>11. ReadCurrent'
  <2> SUFFICES ASSUME NEW v \in Workers, pc'[v] = "writing"
               PROVE  /\ seen[v].attempts = Head(batch'[v]).attempt
                      /\ seen[v].attempts = attempts'[Head(batch'[v]).event] =>
                            status'[Head(batch'[v]).event] # "processed"
    BY <1>d DEF ReadCurrent
  <2> DEFINE f == Head(batch[v]).event
  <2>1. v # w /\ pc[v] = "writing" /\ pc[v] \in Busy /\ batch'[v] = batch[v]
    BY <1>1, <1>5 DEF Busy
  <2>2. f \in Events
    BY <2>1, BusyHead DEF Lease
  <2>3. /\ seen[v].attempts = Head(batch[v]).attempt
        /\ seen[v].attempts = attempts[f] => status[f] # "processed"
    BY <2>1 DEF IInv, ReadCurrent
  <2> HIDE DEF f
  <2>4. seen[v].attempts = attempts'[f] => status'[f] # "processed"
    BY <1>3, <1>4, <2>2, <2>3
  <2> QED  BY <2>1, <2>3, <2>4 DEF f
<1>12. CompletingApplied'
  BY <1>1, <1>5, <1>d DEF IInv, CompletingApplied
<1>13. ProcessedWasApplied' /\ DeadLetterAfterLimit'
  <2>1. \A e \in Events : status'[e] \in {"processed", "dead_letter"} =>
           status'[e] = status[e] /\ attempts'[e] = attempts[e]
    BY <1>3, <1>4
  <2> QED  BY <2>1, <1>d DEF IInv, ProcessedWasApplied, DeadLetterAfterLimit
<1> QED  BY <1>6, <1>7, <1>8, <1>9, <1>10, <1>11, <1>12, <1>13 DEF IInv

-----------------------------------------------------------------------------
LEMMA InductiveStep == IInv /\ [Next]_vars => IInv'
<1> SUFFICES ASSUME IInv, [Next]_vars PROVE IInv'
  OBVIOUS
<1>0. TypeOK'
  BY TypeStep
<1>1. ASSUME NEW e \in Events, Store(e) PROVE IInv'
  BY <1>0, <1>1, StoreStep
<1>2. ASSUME NEW w \in Workers, Start(w) PROVE IInv'
  BY <1>0, <1>2, StartStep
<1>3. ASSUME NEW w \in Workers, Claim(w) PROVE IInv'
  BY <1>0, <1>3, ClaimStep
<1>4. ASSUME NEW w \in Workers, Succeed(w) PROVE IInv'
  BY <1>0, <1>4, SucceedStep
<1>5. ASSUME NEW w \in Workers, Raise(w) PROVE IInv'
  BY <1>0, <1>5, RaiseStep
<1>6. ASSUME NEW w \in Workers, Complete(w) PROVE IInv'
  BY <1>0, <1>6, CompleteStep
<1>7. ASSUME NEW w \in Workers, FailSelect(w) PROVE IInv'
  BY <1>0, <1>7, FailSelectStep
<1>8. ASSUME NEW w \in Workers, FailCommit(w) PROVE IInv'
  BY <1>0, <1>8, FailCommitStep
<1>9. ASSUME NEW w \in Workers, FailOverflow(w) \/ Stop(w) PROVE IInv'
  BY <1>0, <1>9, LeaveStep DEF FailOverflow, Stop, Live
<1>10. CASE Tick
  BY <1>0, <1>10, TickStep DEF Tick
<1>11. CASE UNCHANGED vars
  BY <1>0, <1>11, TickStep DEF vars
<1> QED
  BY <1>1, <1>2, <1>3, <1>4, <1>5, <1>6, <1>7, <1>8, <1>9, <1>10, <1>11 DEF Next

(* The inductive invariant holds in every reachable state.                 *)
THEOREM Invariance == Spec => []IInv
<1>1. Init => IInv
  BY InitIInv
<1>2. IInv /\ [Next]_vars => IInv'
  BY InductiveStep
<1> QED  BY <1>1, <1>2, PTL DEF Spec

(* Every column keeps its type: attempts and times stay natural numbers     *)
(* through claims, retries and the back-off, batches stay sequences of      *)
(* leases of known events.                                                  *)
THEOREM TypeCorrect == Spec => []TypeOK
<1>1. IInv => TypeOK
  BY DEF IInv
<1> QED  BY <1>1, Invariance, PTL

(* Comparing worker ids is enough of a fence: a row has an owner and an      *)
(* expiry exactly while it is processing, a live owner holds the current     *)
(* lease, and no lease is held twice.                                        *)
THEOREM Fencing == Spec => []LeasesFenced
<1>1. IInv => LeasesFenced
  BY DEF IInv, LeasesFenced
<1> QED  BY <1>1, Invariance, PTL

(* Completed events have been processed, dead letters have used up their    *)
(* attempts.                                                                *)
THEOREM OutcomesEarned == Spec => []SettledAsEarned
<1>1. IInv => SettledAsEarned
  BY DEF IInv, SettledAsEarned
<1> QED  BY <1>1, Invariance, PTL

-----------------------------------------------------------------------------
(* What one step can do to the status of a row.                            *)
LEMMA StatusChange ==
    ASSUME IInv, [Next]_vars, NEW e \in Events, status'[e] # status[e]
    PROVE  \/ status[e] = "absent" /\ status'[e] = "pending"
           \/ status[e] \in {"pending", "retry", "processing"} /\ status'[e] = "processing"
           \/ \E w \in Workers :
                 /\ Complete(w) /\ Head(batch[w]).event = e
                 /\ Owns(w, e) /\ status'[e] = "processed"
           \/ \E w \in Workers :
                 /\ FailCommit(w) /\ Head(batch[w]).event = e
                 /\ status'[e] = IF Exhausted(w) THEN "dead_letter" ELSE "retry"
<1>1. ASSUME NEW f \in Events, Store(f) PROVE status[e] = "absent" /\ status'[e] = "pending"
  BY <1>1 DEF Store, IInv, TypeOK
<1>2. ASSUME NEW w \in Workers, Claim(w)
      PROVE  status[e] \in {"pending", "retry", "processing"} /\ status'[e] = "processing"
  <2>1. PICK now \in Nows : \E n \in 1..BatchSize : \E b \in [1..n -> Claimable(now)] :
           Grant(w, b, now)
    BY <1>2, ClaimGrants
  <2>2. PICK n \in 1..BatchSize : \E b \in [1..n -> Claimable(now)] : Grant(w, b, now)
    BY <2>1
  <2>3. PICK b \in [1..n -> Claimable(now)] : Grant(w, b, now)
    BY <2>2
  <2>4. status'[e] = IF e \in {b[i] : i \in DOMAIN b} THEN "processing" ELSE status[e]
    BY <2>3 DEF Grant, NextAttempt
  <2>5. e \in Claimable(now) /\ status'[e] = "processing"
    BY <2>4
  <2> QED  BY <2>5 DEF Claimable
<1>3. ASSUME NEW w \in Workers, Complete(w)
      PROVE  Head(batch[w]).event = e /\ Owns(w, e) /\ status'[e] = "processed"
  <2> DEFINE f == Head(batch[w]).event
  <2>1. \/ Owns(w, f) /\ status' = [status EXCEPT ![f] = "processed"]
        \/ status' = status
    BY <1>3 DEF Complete, Release, row
  <2> HIDE DEF f
  <2>2. f = e /\ Owns(w, f) /\ status'[e] = "processed"
    BY <2>1 DEF IInv, TypeOK
  <2> QED  BY <2>2 DEF f
<1>4. ASSUME NEW w \in Workers, FailCommit(w)
      PROVE  /\ Head(batch[w]).event = e
             /\ status'[e] = IF Exhausted(w) THEN "dead_letter" ELSE "retry"
  <2> DEFINE f == Head(batch[w]).event
  <2>1. status' = [status EXCEPT ![f] = IF Exhausted(w) THEN "dead_letter" ELSE "retry"]
    BY <1>4 DEF FailCommit, DueAgain, Release
  <2> HIDE DEF f
  <2>2. f = e /\ status'[e] = IF Exhausted(w) THEN "dead_letter" ELSE "retry"
    BY <2>1 DEF IInv, TypeOK
  <2> QED  BY <2>2 DEF f
<1>5. ASSUME NEW w \in Workers,
             Start(w) \/ Succeed(w) \/ Raise(w) \/ FailSelect(w) \/ FailOverflow(w) \/ Stop(w)
      PROVE  FALSE
  BY <1>5 DEF Start, Succeed, Raise, FailSelect, FailOverflow, Stop, Leave, row
<1>6. CASE Tick \/ UNCHANGED vars
  BY <1>6 DEF Tick, vars, row
<1> QED  BY <1>1, <1>2, <1>3, <1>4, <1>5, <1>6 DEF Next

(* A worker whose lease has been taken over never completes the row.        *)
THEOREM StaleCompleteIsHarmless == Spec => OnlyHolderCompletes
<1>1. ASSUME IInv, [Next]_vars, NEW e \in Events,
             status[e] # "processed", status'[e] = "processed"
      PROVE  \E w \in Workers : pc[w] = "completing" /\ HolderOf(w, e)
  <2>1. PICK w \in Workers : Complete(w) /\ Head(batch[w]).event = e /\ Owns(w, e)
    BY <1>1, StatusChange
  <2>2. pc[w] = "completing" /\ pc[w] \in Busy
    BY <2>1 DEF Complete, Release, Busy
  <2>3. Head(batch[w]).attempt = attempts[e]
    BY <1>1, <2>1, <2>2, OwnerToken
  <2> QED  BY <2>1, <2>2, <2>3 DEF HolderOf, Owns
<1>2. IInv /\ [Next]_vars =>
         [\A e \in Events : status[e] # "processed" /\ status'[e] = "processed" =>
             \E w \in Workers : pc[w] = "completing" /\ HolderOf(w, e)]_vars
  BY <1>1
<1> QED  BY <1>2, Invariance, PTL DEF Spec, OnlyHolderCompletes

(* An outcome is only ever overwritten by a fail that read the row before   *)
(* it was claimed again.                                                    *)
THEOREM OnlyLateFail == Spec => OnlyLateFailUnsettles
<1>1. ASSUME IInv, [Next]_vars, NEW e \in Events, Settled(e), status'[e] # status[e]
      PROVE  \E w \in Workers :
                /\ pc[w] = "writing" /\ Head(batch[w]).event = e
                /\ seen[w].attempts < attempts[e]
  <2>1. PICK w \in Workers :
           /\ FailCommit(w) /\ Head(batch[w]).event = e
           /\ status'[e] = IF Exhausted(w) THEN "dead_letter" ELSE "retry"
    BY <1>1, StatusChange DEF Settled, Owns
  <2>2. pc[w] = "writing" /\ pc[w] \in Busy
    BY <2>1 DEF FailCommit, DueAgain, Release, Busy
  <2>3. seen[w].attempts \in 1..attempts[e] /\ attempts[e] \in Nat
    <3>1. /\ Head(batch[w]) = batch[w][1] /\ 1 \in DOMAIN batch[w]
          /\ seen[w].attempts = Head(batch[w]).attempt /\ batch[w][1].event = e
      BY <1>1, <2>1, <2>2, BusyHead, BatchDomain DEF IInv, ReadCurrent
    <3>2. batch[w][1].attempt \in 1..attempts[e]
      BY <1>1, <3>1 DEF IInv, LeasesUnique
    <3> QED  BY <1>1, <3>1, <3>2 DEF IInv, TypeOK
  <2>4. seen[w].attempts # attempts[e]
    <3> SUFFICES ASSUME seen[w].attempts = attempts[e] PROVE FALSE
      OBVIOUS
    <3>1. status[e] = "dead_letter"
      BY <1>1, <2>1, <2>2 DEF IInv, ReadCurrent, Settled
    <3>2. Exhausted(w)
      BY <1>1, <3>1 DEF IInv, DeadLetterAfterLimit, Exhausted
    <3> QED  BY <1>1, <2>1, <3>1, <3>2
  <2> QED  BY <2>1, <2>2, <2>3, <2>4
<1>2. IInv /\ [Next]_vars =>
         [\A e \in Events : Settled(e) /\ status'[e] # status[e] =>
             \E w \in Workers :
                /\ pc[w] = "writing"
                /\ Head(batch[w]).event = e
                /\ seen[w].attempts < attempts[e]]_vars
  BY <1>1
<1> QED  BY <1>2, Invariance, PTL DEF Spec, OnlyLateFailUnsettles

-----------------------------------------------------------------------------
(* One worker at a time (Solo): the deployment the docs require of SQLite.  *)

(* At most one worker is live, and it owns every row it has a lease of:     *)
(* nobody else can claim a row, however long ago its lease has expired.     *)
SoloInv ==
    /\ \A v, w \in Workers : Live(v) /\ Live(w) => v = w
    /\ \A w \in Workers : \A i \in DOMAIN batch[w] : Owns(w, batch[w][i].event)

(* A worker that is not live has no leases in hand.                         *)
LEMMA IdleBatch ==
    ASSUME IInv, NEW w \in Workers, pc[w] \notin Busy
    PROVE  DOMAIN batch[w] = {}
<1>1. ~(Len(batch[w]) > 0) /\ Len(batch[w]) \in Nat /\ DOMAIN batch[w] = 1..Len(batch[w])
  BY BatchDomain DEF IInv, BusyBatch
<1> QED  BY <1>1

LEMMA SoloInit == Init => SoloInv
BY DEF Init, SoloInv, Live

LEMMA SoloHead ==
    ASSUME IInv, SoloInv, NEW w \in Workers, pc[w] \in Busy
    PROVE  Owns(w, Head(batch[w]).event)
<1>1. Head(batch[w]) = batch[w][1] /\ 1 \in DOMAIN batch[w]
  BY BusyHead, BatchDomain DEF IInv
<1> QED  BY <1>1 DEF SoloInv

(* What complete and fail do to the row at hand does not touch the others.  *)
LEMMA SoloNextLease ==
    ASSUME IInv, SoloInv, NEW w \in Workers, pc[w] \in Busy, NextLease(w),
           \A f \in Events : f # Head(batch[w]).event =>
              status'[f] = status[f] /\ leasedBy'[f] = leasedBy[f]
    PROVE  SoloInv'
<1>1. TypeOK /\ Len(batch[w]) > 0 /\ Live(w) /\ Head(batch[w]) = batch[w][1]
  BY BusyHead DEF IInv
<1>2. /\ pc'[w] \in {"polling", "working"}
      /\ \A v \in Workers \ {w} : batch'[v] = batch[v] /\ pc'[v] = pc[v]
  BY <1>1, NextLeaseBatch
<1>3. \A v, u \in Workers : Live(v)' /\ Live(u)' => v = u
  BY <1>1, <1>2 DEF SoloInv, Live
<1>4. ASSUME NEW v \in Workers, NEW i \in DOMAIN batch'[v]
      PROVE  status'[batch'[v][i].event] = "processing" /\ leasedBy'[batch'[v][i].event] = v
  <2>1. v = w
    <3> SUFFICES ASSUME v # w PROVE FALSE
      OBVIOUS
    <3>1. ~Live(v)
      BY <1>1 DEF SoloInv
    <3>2. DOMAIN batch[v] = {}
      BY <3>1, IdleBatch DEF Live, Busy
    <3> QED  BY <1>2, <3>2
  <2>2. /\ i \in 1..(Len(batch[w]) - 1) /\ i + 1 \in DOMAIN batch[w]
        /\ batch'[w][i] = batch[w][i + 1]
    <3>1. i \in 1..(Len(batch[w]) - 1)
      BY <1>1, <2>1, NextLeaseBatch
    <3> QED  BY <1>1, <3>1, NextLeaseBatch
  <2>3. 1 \in DOMAIN batch[w] /\ i + 1 # 1
    BY <1>1, <2>2, BatchDomain
  <2> DEFINE f == batch[w][i + 1].event
  <2>4. f \in Events
    BY <1>1, <2>2, BatchDomain
  <2>5. f # Head(batch[w]).event
    BY <1>1, <2>2, <2>3 DEF IInv, LeasesUnique
  <2>6. Owns(w, f)
    BY <2>2 DEF SoloInv
  <2> HIDE DEF f
  <2>7. status'[f] = status[f] /\ leasedBy'[f] = leasedBy[f]
    BY <2>4, <2>5
  <2>8. batch'[v][i].event = f
    BY <2>1, <2>2 DEF f
  <2> QED  BY <2>1, <2>6, <2>7, <2>8 DEF Owns
<1> QED  BY <1>3, <1>4 DEF SoloInv, Owns

LEMMA SoloStep ==
    ASSUME Solo, IInv, SoloInv, [Next]_vars
    PROVE  SoloInv'
<1>1. ASSUME NEW e \in Events, Store(e) PROVE SoloInv'
  <2>1. UNCHANGED <<pc, batch, leasedBy>>
    BY <1>1 DEF Store
  <2>2. \A f \in Events : status[f] = "processing" => status'[f] = "processing"
    BY <1>1 DEF Store, IInv, TypeOK
  <2>3. \A w \in Workers : \A i \in DOMAIN batch[w] : batch[w][i].event \in Events
    BY BatchDomain DEF IInv
  <2> QED  BY <2>1, <2>2, <2>3 DEF SoloInv, Live, Owns
<1>2. ASSUME NEW w \in Workers, Start(w) PROVE SoloInv'
  BY <1>2 DEF Start, SoloInv, Live, Owns, row, IInv, TypeOK
<1>3. ASSUME NEW w \in Workers, Claim(w) PROVE SoloInv'
  <2>a. PICK now \in Nows : \E n \in 1..BatchSize : \E b \in [1..n -> Claimable(now)] :
           Grant(w, b, now)
    BY <1>3, ClaimGrants
  <2>b. PICK n \in 1..BatchSize : \E b \in [1..n -> Claimable(now)] : Grant(w, b, now)
    BY <2>a
  <2>c. PICK b \in [1..n -> Claimable(now)] : Grant(w, b, now)
    BY <2>b
  <2>d. n \in Nat \ {0} /\ TypeOK /\ pc[w] = "polling" /\ Live(w)
    BY <1>3, SettingsAssumption DEF IInv, Claim, Live
  <2>1. pc'[w] = "working" /\ \A v \in Workers \ {w} : pc'[v] = pc[v]
    BY <1>3 DEF Claim, IInv, TypeOK
  <2>2. \A v, u \in Workers : Live(v)' /\ Live(u)' => v = u
    BY <2>1, <2>d DEF SoloInv, Live
  <2>3. ASSUME NEW v \in Workers, NEW i \in DOMAIN batch'[v]
        PROVE  status'[batch'[v][i].event] = "processing" /\ leasedBy'[batch'[v][i].event] = v
    <3>1. v = w
      <4> SUFFICES ASSUME v # w PROVE FALSE
        OBVIOUS
      <4>1. ~Live(v)
        BY <2>d DEF SoloInv
      <4>2. DOMAIN batch[v] = {}
        BY <4>1, IdleBatch DEF Live, Busy
      <4>3. batch'[v] = batch[v]
        BY <2>c, <2>d, GrantBatch
      <4> QED  BY <4>2, <4>3
    <3>2. i \in 1..n /\ batch'[w][i].event = b[i] /\ b[i] \in Events /\ leasedBy'[b[i]] = w
      BY <2>c, <2>d, <3>1, GrantBatch
    <3>3. status'[b[i]] = "processing"
      BY <2>c, <3>2 DEF Grant, NextAttempt
    <3> QED  BY <3>1, <3>2, <3>3
  <2> QED  BY <2>2, <2>3 DEF SoloInv, Owns
<1>4. ASSUME NEW w \in Workers, Succeed(w) \/ Raise(w) PROVE SoloInv'
  <2>1. UNCHANGED <<row, batch>>
    BY <1>4 DEF Succeed, Raise
  <2>2. \A v \in Workers : Live(v)' <=> Live(v)
    BY <1>4 DEF Succeed, Raise, Live, IInv, TypeOK
  <2>3. \A v \in Workers, e \in Events : Owns(v, e)' <=> Owns(v, e)
    BY <2>1 DEF Owns, row
  <2>4. \A v \in Workers : \A i \in DOMAIN batch[v] : Owns(v, batch[v][i].event)'
    BY <2>1 DEF SoloInv, Owns, row
  <2> QED  BY <2>1, <2>2, <2>4 DEF SoloInv
<1>5. ASSUME NEW w \in Workers, Complete(w) PROVE SoloInv'
  <2>1. pc[w] \in Busy /\ NextLease(w)
    BY <1>5 DEF Complete, Release, Busy
  <2>2. \A f \in Events : f # Head(batch[w]).event =>
           status'[f] = status[f] /\ leasedBy'[f] = leasedBy[f]
    BY <1>5 DEF Complete, Release, row, IInv, TypeOK
  <2> QED  BY <2>1, <2>2, SoloNextLease
<1>6. ASSUME NEW w \in Workers, FailSelect(w) PROVE SoloInv'
  <2>1. pc[w] \in Busy
    BY <1>6 DEF FailSelect, Busy
  <2>2. UNCHANGED batch /\ pc' = [pc EXCEPT ![w] = "writing"] /\ UNCHANGED row
    BY <1>6, <2>1, SoloHead DEF FailSelect
  <2> QED  BY <2>1, <2>2 DEF SoloInv, Live, Owns, row, Busy, IInv, TypeOK
<1>7. ASSUME NEW w \in Workers, FailCommit(w) PROVE SoloInv'
  <2>1. pc[w] \in Busy /\ NextLease(w)
    BY <1>7 DEF FailCommit, DueAgain, Release, Busy
  <2>2. \A f \in Events : f # Head(batch[w]).event =>
           status'[f] = status[f] /\ leasedBy'[f] = leasedBy[f]
    BY <1>7 DEF FailCommit, DueAgain, Release, IInv, TypeOK
  <2> QED  BY <2>1, <2>2, SoloNextLease
<1>8. ASSUME NEW w \in Workers, FailOverflow(w) \/ Stop(w) PROVE SoloInv'
  <2>1. UNCHANGED row /\ pc' = [pc EXCEPT ![w] = "stopped"] /\ batch' = [batch EXCEPT ![w] = <<>>]
    BY <1>8 DEF FailOverflow, Stop, Leave
  <2>2. DOMAIN batch'[w] = {} /\ \A v \in Workers \ {w} : batch'[v] = batch[v] /\ pc'[v] = pc[v]
    BY <2>1 DEF IInv, TypeOK
  <2>3. pc'[w] = "stopped"
    BY <2>1 DEF IInv, TypeOK
  <2> QED  BY <2>1, <2>2, <2>3 DEF SoloInv, Live, Owns, row
<1>9. CASE Tick \/ UNCHANGED vars
  BY <1>9 DEF Tick, vars, SoloInv, Live, Owns, row
<1> QED  BY <1>1, <1>2, <1>3, <1>4, <1>5, <1>6, <1>7, <1>8, <1>9 DEF Next

THEOREM SoloInvariance ==
    ASSUME Solo
    PROVE  Spec => []SoloInv
<1>1. IInv /\ SoloInv /\ [Next]_vars => SoloInv'
  BY SoloStep
<1> QED  BY <1>1, SoloInit, Invariance, PTL DEF Spec

-----------------------------------------------------------------------------
(* The refinement: each step of the queue is a step of DurableWork or       *)
(* leaves the promise's variables as they are.                              *)
Mapped == [e \in Events |-> Outcome(status[e])]

LEMMA OutcomeSteps ==
    ASSUME TypeOK, NEW e \in Events, NEW s, status' = [status EXCEPT ![e] = s]
    PROVE  Mapped' = [Mapped EXCEPT ![e] = Outcome(s)]
BY DEF Mapped, TypeOK, Outcome

LEMMA RefineInit == Init => Promise!Init
BY DEF Init, Promise!Init, Outcome

LEMMA RefineStep ==
    ASSUME Solo, IInv, SoloInv, [Next]_vars
    PROVE  [Promise!Next]_Promise!vars
<1> USE DEF Promise!vars
<1>0. TypeOK
  BY DEF IInv
<1>1. ASSUME NEW e \in Events, Store(e) PROVE Promise!Next
  <2>1. Mapped' = [Mapped EXCEPT ![e] = "accepted"]
    <3>1. Mapped' = [Mapped EXCEPT ![e] = Outcome("pending")]
      BY <1>0, <1>1, OutcomeSteps DEF Store
    <3>2. Outcome("pending") = "accepted"
      BY DEF Outcome
    <3> QED  BY <3>1, <3>2
  <2>2. Mapped[e] = "none" /\ UNCHANGED applied
    BY <1>1 DEF Mapped, Store, Outcome
  <2>3. Promise!Accept(e)
    BY <2>1, <2>2 DEF Promise!Accept, Mapped
  <2> QED  BY <2>3 DEF Promise!Next
<1>2. ASSUME NEW w \in Workers, Claim(w) PROVE UNCHANGED Promise!vars
  <2>1. PICK now \in Nows : \E n \in 1..BatchSize : \E b \in [1..n -> Claimable(now)] :
           Grant(w, b, now)
    BY <1>2, ClaimGrants
  <2>2. PICK n \in 1..BatchSize : \E b \in [1..n -> Claimable(now)] : Grant(w, b, now)
    BY <2>1
  <2>3. PICK b \in [1..n -> Claimable(now)] : Grant(w, b, now)
    BY <2>2
  <2>4. \A e \in Events : \/ status'[e] = status[e]
                          \/ e \in Claimable(now) /\ status'[e] = "processing"
    BY <2>3 DEF Grant, NextAttempt
  <2>5. \A e \in Events : Outcome(status'[e]) = Outcome(status[e])
    BY <2>4 DEF Claimable, Outcome
  <2> QED  BY <1>2, <2>5 DEF Claim
<1>3. ASSUME NEW w \in Workers, Succeed(w) PROVE Promise!Next
  <2> DEFINE e == Head(batch[w]).event
  <2>1. pc[w] \in Busy /\ UNCHANGED status /\ applied' = applied \cup {e}
    BY <1>3 DEF Succeed, Busy, row
  <2>2. e \in Events /\ Owns(w, e)
    BY <2>1, BusyHead, SoloHead DEF Lease
  <2> HIDE DEF e
  <2>3. Mapped[e] = "accepted" /\ UNCHANGED Mapped
    BY <2>1, <2>2 DEF Mapped, Owns, Outcome
  <2>4. Promise!Apply(e)
    BY <2>1, <2>3 DEF Promise!Apply, Mapped
  <2> QED  BY <2>2, <2>4 DEF Promise!Next
<1>4. ASSUME NEW w \in Workers, Complete(w) PROVE Promise!Next
  <2> DEFINE e == Head(batch[w]).event
  <2>1. pc[w] \in Busy /\ pc[w] = "completing" /\ UNCHANGED applied
    BY <1>4 DEF Complete, Release, Busy
  <2>2. e \in Events /\ Owns(w, e) /\ e \in applied
    BY <2>1, BusyHead, SoloHead DEF Lease, IInv, CompletingApplied
  <2>3. status' = [status EXCEPT ![e] = "processed"]
    BY <1>4, <2>2 DEF Complete, Release
  <2> HIDE DEF e
  <2>4. Mapped' = [Mapped EXCEPT ![e] = "done"] /\ Mapped[e] = "accepted"
    BY <1>0, <2>2, <2>3, OutcomeSteps DEF Owns, Outcome, Mapped
  <2>5. Promise!Finish(e)
    BY <2>1, <2>2, <2>4 DEF Promise!Finish, Mapped
  <2> QED  BY <2>2, <2>5 DEF Promise!Next
<1>5. ASSUME NEW w \in Workers, FailCommit(w) PROVE Promise!Next \/ UNCHANGED Promise!vars
  <2> DEFINE e == Head(batch[w]).event
  <2>1. pc[w] \in Busy /\ UNCHANGED applied
    BY <1>5 DEF FailCommit, DueAgain, Release, Busy
  <2>2. e \in Events /\ Owns(w, e)
    BY <2>1, BusyHead, SoloHead DEF Lease
  <2>3. status' = [status EXCEPT ![e] = IF Exhausted(w) THEN "dead_letter" ELSE "retry"]
    BY <1>5 DEF FailCommit, DueAgain, Release
  <2> HIDE DEF e
  <2>4. Mapped[e] = "accepted"
    BY <2>2 DEF Owns, Outcome, Mapped
  <2>5. CASE Exhausted(w)
    <3>1. Mapped' = [Mapped EXCEPT ![e] = "given_up"]
      BY <1>0, <2>2, <2>3, <2>5, OutcomeSteps DEF Outcome
    <3>2. Promise!GiveUp(e)
      BY <2>1, <2>4, <3>1 DEF Promise!GiveUp, Mapped
    <3> QED  BY <2>2, <3>2 DEF Promise!Next
  <2>6. CASE ~Exhausted(w)
    <3>1. Mapped' = [Mapped EXCEPT ![e] = "accepted"]
      <4>1. status' = [status EXCEPT ![e] = "retry"]
        BY <2>3, <2>6
      <4>2. Mapped' = [Mapped EXCEPT ![e] = Outcome("retry")]
        BY <1>0, <2>2, <4>1, OutcomeSteps
      <4>3. Outcome("retry") = "accepted"
        BY DEF Outcome
      <4> QED  BY <4>2, <4>3
    <3>2. Mapped' = Mapped
      BY <2>4, <3>1 DEF Mapped
    <3> QED  BY <2>1, <3>2 DEF Mapped
  <2> QED  BY <2>5, <2>6
<1>6. ASSUME NEW w \in Workers,
             Start(w) \/ Raise(w) \/ FailSelect(w) \/ FailOverflow(w) \/ Stop(w)
      PROVE  UNCHANGED Promise!vars
  BY <1>6 DEF Start, Raise, FailSelect, FailOverflow, Stop, Leave, row
<1>7. CASE Tick \/ UNCHANGED vars
  BY <1>7 DEF Tick, vars, row
<1> QED  BY <1>1, <1>2, <1>3, <1>4, <1>5, <1>6, <1>7 DEF Next

(* With one worker at a time, whatever crashes, overruns and retries there  *)
(* are, the queue never breaks DurableWork's promise (its safety part).     *)
THEOREM SoloKeepsPromise ==
    ASSUME Solo
    PROVE  Spec => Promise!Spec
<1>1. IInv /\ SoloInv /\ [Next]_vars => [Promise!Next]_Promise!vars
  BY RefineStep
<1> QED  BY <1>1, RefineInit, Invariance, SoloInvariance, PTL DEF Spec, Promise!Spec

(* In particular settled work stays settled.                                *)
THEOREM SoloSettledIsFinal ==
    ASSUME Solo
    PROVE  Spec => SettledIsFinal
<1>1. ASSUME IInv, SoloInv, [Next]_vars, NEW e \in Events, Settled(e)
      PROVE  status'[e] = status[e]
  <2> SUFFICES ASSUME status'[e] # status[e] PROVE FALSE
    OBVIOUS
  <2>1. PICK w \in Workers : FailCommit(w) /\ Head(batch[w]).event = e
    BY <1>1, StatusChange DEF Settled, Owns
  <2>2. Owns(w, e)
    BY <1>1, <2>1, SoloHead DEF FailCommit, DueAgain, Release, Busy
  <2> QED  BY <1>1, <2>2 DEF Owns, Settled
<1>2. IInv /\ SoloInv /\ [Next]_vars => [\A e \in Events : Settled(e) => status'[e] = status[e]]_vars
  BY <1>1
<1> QED  BY <1>2, Invariance, SoloInvariance, PTL DEF Spec, SettledIsFinal

-----------------------------------------------------------------------------
(* What the attempts past the limit cost.  An event owes a fault            *)
(*   - for each attempt past the limit,                                     *)
(*   - for each open fail that will write what it read of a lease that is   *)
(*     no longer the event's, if that is "try again",                       *)
(*   - while its lease is abandoned,                                        *)
(*   - while it waits for a further attempt although it has had them all.   *)
Extra(e) == IF attempts[e] > MaxAttempts THEN attempts[e] - MaxAttempts ELSE 0

Writes(w, e, attempt) ==
    pc[w] = "writing" /\ Head(batch[w]).event = e /\ seen[w].attempts = attempt

Late(e) ==
    {attempt \in 1..(MaxAttempts - 1) :
        \E w \in Workers :
            /\ Writes(w, e, attempt)
            /\ attempt < attempts[e] \/ status[e] # "processing"}

Abandoned(e) ==
    /\ status[e] = "processing"
    /\ leaseExpiresAt[e] <= clock \/ ~Live(leasedBy[e])

Revived(e) == status[e] \in {"pending", "retry"} /\ attempts[e] >= MaxAttempts

Count(b) == IF b THEN 1 ELSE 0

Owes(e) == Extra(e) + Cardinality(Late(e)) + Count(Abandoned(e)) + Count(Revived(e))

(* An event that no worker has claimed has had no attempt. *)
Unclaimed == \A e \in Events : status[e] \in {"absent", "pending"} => attempts[e] = 0

PaidInv ==
    /\ IInv
    /\ Unclaimed
    /\ faults \in Nat
    /\ \A e \in Events : Owes(e) <= faults

(* The sets of late attempts that the steps compare. *)
LEMMA LateSets ==
    ASSUME NEW S \in SUBSET (1..(MaxAttempts - 1)), NEW T \in SUBSET (1..(MaxAttempts - 1))
    PROVE  /\ Cardinality(S) \in Nat /\ Cardinality(T) \in Nat
           /\ S \subseteq T => Cardinality(S) <= Cardinality(T)
           /\ \A a : S \subseteq T \cup {a} => Cardinality(S) <= Cardinality(T) + 1
           /\ \A a \in T : S \subseteq T \ {a} => Cardinality(S) + 1 <= Cardinality(T)
           /\ \A a \in T : \A b : S \subseteq (T \ {a}) \cup {b} => Cardinality(S) <= Cardinality(T)
<1>1. IsFiniteSet(1..(MaxAttempts - 1))
  BY SettingsAssumption, FS_Interval
<1>2. IsFiniteSet(S) /\ IsFiniteSet(T)
  BY <1>1, FS_Subset
<1>3. Cardinality(S) \in Nat /\ Cardinality(T) \in Nat
  BY <1>2, FS_CardinalityType
<1>4. ASSUME NEW U, IsFiniteSet(U), S \subseteq U
      PROVE  Cardinality(S) <= Cardinality(U)
  BY <1>4, FS_Subset
<1>5. ASSUME NEW U, IsFiniteSet(U), NEW a
      PROVE  /\ IsFiniteSet(U \cup {a}) /\ Cardinality(U) \in Nat /\ Cardinality(U \cup {a}) \in Nat
             /\ Cardinality(U \cup {a}) <= Cardinality(U) + 1
  <2>1. /\ IsFiniteSet(U \cup {a})
        /\ Cardinality(U \cup {a}) = IF a \in U THEN Cardinality(U) ELSE Cardinality(U) + 1
    BY <1>5, FS_AddElement
  <2>2. Cardinality(U) \in Nat
    BY <1>5, FS_CardinalityType
  <2> QED  BY <2>1, <2>2
<1>6. ASSUME NEW a \in T
      PROVE  /\ IsFiniteSet(T \ {a}) /\ Cardinality(T \ {a}) \in Nat
             /\ Cardinality(T \ {a}) = Cardinality(T) - 1
  BY <1>2, <1>6, FS_RemoveElement, FS_CardinalityType
<1>7. ASSUME NEW a, S \subseteq T \cup {a} PROVE Cardinality(S) <= Cardinality(T) + 1
  <2>1. /\ IsFiniteSet(T \cup {a}) /\ Cardinality(T \cup {a}) \in Nat
        /\ Cardinality(T \cup {a}) <= Cardinality(T) + 1
    BY <1>2, <1>5
  <2>2. Cardinality(S) <= Cardinality(T \cup {a})
    BY <1>4, <1>7, <2>1
  <2> QED  BY <1>3, <2>1, <2>2
<1>8. ASSUME NEW a \in T, S \subseteq T \ {a} PROVE Cardinality(S) + 1 <= Cardinality(T)
  <2>1. /\ IsFiniteSet(T \ {a}) /\ Cardinality(T \ {a}) \in Nat
        /\ Cardinality(T \ {a}) = Cardinality(T) - 1
    BY <1>6
  <2>2. Cardinality(S) <= Cardinality(T \ {a})
    BY <1>4, <1>8, <2>1
  <2> QED  BY <1>3, <2>1, <2>2
<1>9. ASSUME NEW a \in T, NEW b, S \subseteq (T \ {a}) \cup {b} PROVE Cardinality(S) <= Cardinality(T)
  <2>1. IsFiniteSet(T \ {a}) /\ Cardinality(T \ {a}) = Cardinality(T) - 1
    BY <1>6
  <2> DEFINE U == (T \ {a}) \cup {b}
  <2>2. IsFiniteSet(U) /\ Cardinality(U) \in Nat /\ Cardinality(U) <= Cardinality(T \ {a}) + 1
    BY <1>5, <2>1
  <2> HIDE DEF U
  <2>3. Cardinality(S) <= Cardinality(U)
    BY <1>4, <1>9, <2>2 DEF U
  <2> QED  BY <1>3, <2>1, <2>2, <2>3
<1> QED  BY <1>2, <1>3, <1>4, <1>7, <1>8, <1>9

(* The summands, before and after a step. *)
LEMMA OwesParts ==
    ASSUME IInv, IInv', NEW e \in Events
    PROVE  /\ attempts[e] \in Nat /\ attempts'[e] \in Nat /\ MaxAttempts \in Nat /\ MaxAttempts > 0
           /\ Extra(e) \in Nat /\ Extra(e)' \in Nat
           /\ Cardinality(Late(e)) \in Nat /\ Cardinality(Late(e)') \in Nat
           /\ Owes(e)' = Extra(e)' + Cardinality(Late(e)') + Count(Abandoned(e)') + Count(Revived(e)')
           /\ Owes(e) = Extra(e) + Cardinality(Late(e)) + Count(Abandoned(e)) + Count(Revived(e))
<1>1. attempts[e] \in Nat /\ attempts'[e] \in Nat /\ MaxAttempts \in Nat /\ MaxAttempts > 0
  BY SettingsAssumption DEF IInv, TypeOK
<1>2. Extra(e) \in Nat /\ Extra(e)' \in Nat
  BY <1>1 DEF Extra
<1>3. Late(e) \in SUBSET (1..(MaxAttempts - 1)) /\ Late(e)' \in SUBSET (1..(MaxAttempts - 1))
  BY DEF Late
<1>4. Cardinality(Late(e)) \in Nat /\ Cardinality(Late(e)') \in Nat
  BY <1>3, LateSets
<1> QED  BY <1>1, <1>2, <1>4 DEF Owes, Count

(* A step that brings no late write, does not abandon the lease of e and    *)
(* leaves its attempts alone costs nothing.                                 *)
LEMMA CostsNothing ==
    ASSUME PaidInv, IInv', NEW e \in Events,
           attempts'[e] = attempts[e],
           Late(e)' \subseteq Late(e),
           Abandoned(e)' => Abandoned(e),
           Revived(e)' => Revived(e)
    PROVE  Owes(e)' <= faults
<1>1. /\ attempts[e] \in Nat /\ MaxAttempts \in Nat
      /\ Extra(e) \in Nat /\ Extra(e)' \in Nat
      /\ Cardinality(Late(e)) \in Nat /\ Cardinality(Late(e)') \in Nat
      /\ Owes(e)' = Extra(e)' + Cardinality(Late(e)') + Count(Abandoned(e)') + Count(Revived(e)')
      /\ Owes(e) = Extra(e) + Cardinality(Late(e)) + Count(Abandoned(e)) + Count(Revived(e))
  BY OwesParts DEF PaidInv
<1>2. Extra(e)' = Extra(e)
  BY DEF Extra
<1>3. Cardinality(Late(e)') <= Cardinality(Late(e))
  <2>1. Late(e) \in SUBSET (1..(MaxAttempts - 1)) /\ Late(e)' \in SUBSET (1..(MaxAttempts - 1))
    BY DEF Late
  <2> QED  BY <2>1, LateSets
<1>4. Count(Abandoned(e)') <= Count(Abandoned(e)) /\ Count(Revived(e)') <= Count(Revived(e))
  BY DEF Count
<1>5. Owes(e) <= faults /\ faults \in Nat
  BY DEF PaidInv
<1>6. \A p, q \in BOOLEAN : Count(p) \in Nat /\ Count(q) \in Nat
  BY DEF Count
<1> QED  BY <1>1, <1>2, <1>3, <1>4, <1>5 DEF Count

(* The row of e and its open fails are what they were. *)
LEMMA SameLate ==
    ASSUME NEW e \in Events, attempts'[e] = attempts[e], status'[e] = status[e],
           \A w \in Workers : pc'[w] = "writing" =>
               pc[w] = "writing" /\ Head(batch'[w]) = Head(batch[w]) /\ seen'[w] = seen[w]
    PROVE  Late(e)' \subseteq Late(e)
BY DEF Late, Writes

(* Each action, for the event e: what it owes is paid for. *)
LEMMA StorePaid ==
    ASSUME PaidInv, IInv', NEW e \in Events, NEW f \in Events, Store(f)
    PROVE  /\ Owes(e)' <= faults
           /\ status'[e] \in {"absent", "pending"} => attempts'[e] = 0
<1>1. UNCHANGED <<clock, attempts, leasedBy, leaseExpiresAt, pc, batch, seen>>
  BY DEF Store
<1>2. status[f] = "absent" /\ status' = [status EXCEPT ![f] = "pending"] /\ status \in [Events -> Statuses]
  BY DEF Store, PaidInv, IInv, TypeOK
<1>3. status'[e] = status[e] \/ (status[e] = "absent" /\ status'[e] = "pending")
  BY <1>2
<1>4. status[e] \in {"absent", "pending"} => attempts[e] = 0
  BY DEF PaidInv, Unclaimed
<1>5. Late(e)' \subseteq Late(e)
  BY <1>1, <1>3 DEF Late, Writes
<1>6. Abandoned(e)' => Abandoned(e)
  BY <1>1, <1>3 DEF Abandoned, Live
<1>7. Revived(e)' => Revived(e)
  BY <1>1, <1>3, <1>4, SettingsAssumption DEF Revived
<1>8. Owes(e)' <= faults
  BY <1>1, <1>5, <1>6, <1>7, CostsNothing
<1> QED  BY <1>1, <1>3, <1>4, <1>8

(* A worker moves, writing before or after, and no row changes. *)
LEMMA MovePaid ==
    ASSUME PaidInv, IInv', NEW e \in Events, NEW w \in Workers,
           Start(w) \/ Succeed(w) \/ Raise(w)
    PROVE  Owes(e)' <= faults
<1>1. UNCHANGED <<clock, row, batch, seen>>
  BY DEF Start, Succeed, Raise
<1>2. /\ pc[w] # "writing" /\ pc'[w] # "writing" /\ pc'[w] # "new" /\ pc'[w] # "stopped"
      /\ \A v \in Workers \ {w} : pc'[v] = pc[v]
  BY DEF Start, Succeed, Raise, PaidInv, IInv, TypeOK
<1>3. Late(e)' \subseteq Late(e)
  BY <1>1, <1>2, SameLate DEF row
<1>4. Abandoned(e)' => Abandoned(e)
  <2>1. status[e] = "processing" => leasedBy[e] \in Workers
    BY DEF PaidInv, IInv, TypeOK, LeaseColumns
  <2> QED  BY <1>1, <1>2, <2>1 DEF Abandoned, Live, row
<1>5. Revived(e)' => Revived(e)
  BY <1>1 DEF Revived, row
<1>6. attempts'[e] = attempts[e]
  BY <1>1 DEF row
<1> QED  BY <1>3, <1>4, <1>5, <1>6, CostsNothing

LEMMA CompletePaid ==
    ASSUME PaidInv, IInv', NEW e \in Events, NEW w \in Workers, Complete(w)
    PROVE  /\ Owes(e)' <= faults
           /\ status'[e] \in {"absent", "pending"} => attempts'[e] = 0
<1> DEFINE f == Head(batch[w]).event
<1>1. /\ TypeOK /\ pc[w] = "completing" /\ pc[w] \in Busy /\ NextLease(w) /\ Len(batch[w]) > 0
      /\ f \in Events /\ UNCHANGED <<clock, attempts, seen>>
  BY BusyHead DEF Complete, Busy, Release, PaidInv, IInv, row, Lease
<1>2. /\ \A v \in Workers \ {w} : batch'[v] = batch[v] /\ pc'[v] = pc[v]
      /\ pc'[w] \in {"polling", "working"}
  BY <1>1, NextLeaseBatch
<1>3. \/ UNCHANGED row
      \/ /\ Owns(w, f) /\ status' = [status EXCEPT ![f] = "processed"]
         /\ leaseExpiresAt' = [leaseExpiresAt EXCEPT ![f] = Null]
         /\ leasedBy' = [leasedBy EXCEPT ![f] = Null]
  BY DEF Complete, Release
<1> HIDE DEF f
<1>4. CASE status'[e] = status[e] /\ leaseExpiresAt'[e] = leaseExpiresAt[e] /\ leasedBy'[e] = leasedBy[e]
  <2>1. Late(e)' \subseteq Late(e)
    BY <1>1, <1>2, <1>4, SameLate
  <2>2. Abandoned(e)' => Abandoned(e)
    <3>1. status[e] = "processing" => leasedBy[e] \in Workers
      BY DEF PaidInv, IInv, TypeOK, LeaseColumns
    <3> QED  BY <1>1, <1>2, <1>4, <3>1 DEF Abandoned, Live
  <2>3. Revived(e)' => Revived(e)
    BY <1>1, <1>4 DEF Revived
  <2> QED  BY <1>1, <1>4, <2>1, <2>2, <2>3, CostsNothing DEF PaidInv, Unclaimed
<1>5. CASE e = f /\ Owns(w, f) /\ status'[e] = "processed"
  <2>1. /\ Head(batch[w]).attempt = attempts[f]
        /\ \A v \in Workers \ {w} :
              pc[v] \in Busy /\ Head(batch[v]).event = f => Head(batch[v]).attempt # attempts[f]
    BY <1>1, <1>5, OwnerToken DEF f, PaidInv
  <2>2. ASSUME NEW v \in Workers, NEW a \in 1..(MaxAttempts - 1), pc'[v] = "writing",
               Head(batch'[v]).event = e, seen'[v].attempts = a
        PROVE  Writes(v, e, a) /\ a < attempts[e]
    <3>1. v # w /\ Writes(v, e, a)
      BY <1>1, <1>2, <2>2 DEF Writes
    <3>2. seen[v].attempts = Head(batch[v]).attempt
      BY <3>1 DEF PaidInv, IInv, ReadCurrent, Writes
    <3>3. a # attempts[e]
      BY <1>5, <2>1, <3>1, <3>2 DEF Writes, Busy
    <3>4. a <= attempts[e]
      <4>1. Head(batch[v]) = batch[v][1] /\ 1 \in DOMAIN batch[v]
        BY <1>1, <3>1, BusyHead, BatchDomain DEF PaidInv, Busy, Writes
      <4>2. batch[v][1].attempt \in 1..attempts[batch[v][1].event]
        BY <4>1 DEF PaidInv, IInv, LeasesUnique
      <4> QED  BY <3>1, <3>2, <4>1, <4>2 DEF Writes
    <3>5. attempts[e] \in Nat
      BY <1>1 DEF TypeOK
    <3> QED  BY <3>1, <3>3, <3>4, <3>5
  <2>3. Late(e)' \subseteq Late(e)
    BY <2>2 DEF Late, Writes
  <2>4. ~Abandoned(e)' /\ ~Revived(e)' /\ attempts'[e] = attempts[e]
    BY <1>1, <1>5 DEF Abandoned, Revived
  <2> QED  BY <1>5, <2>3, <2>4, CostsNothing
<1> QED  BY <1>1, <1>3, <1>4, <1>5 DEF row, TypeOK

LEMMA FailSelectPaid ==
    ASSUME PaidInv, IInv', NEW e \in Events, NEW w \in Workers, FailSelect(w)
    PROVE  Owes(e)' <= faults
<1> DEFINE f == Head(batch[w]).event
<1>1. /\ TypeOK /\ pc[w] = "failing" /\ pc[w] \in Busy /\ Len(batch[w]) > 0
      /\ f \in Events /\ UNCHANGED <<clock, row>>
  BY BusyHead DEF FailSelect, Busy, PaidInv, IInv, Lease
<1>2. status[e] = "processing" => leasedBy[e] \in Workers
  BY DEF PaidInv, IInv, TypeOK, LeaseColumns
<1>3. Revived(e)' => Revived(e)
  BY <1>1 DEF Revived, row
<1>4. CASE NextLease(w) /\ UNCHANGED seen
  <2>1. /\ \A v \in Workers \ {w} : batch'[v] = batch[v] /\ pc'[v] = pc[v]
        /\ pc'[w] \in {"polling", "working"}
    BY <1>1, <1>4, NextLeaseBatch
  <2>2. Late(e)' \subseteq Late(e)
    BY <1>1, <1>4, <2>1, SameLate DEF row
  <2>3. Abandoned(e)' => Abandoned(e)
    BY <1>1, <1>2, <2>1 DEF Abandoned, Live, row
  <2> QED  BY <1>1, <1>3, <2>2, <2>3, CostsNothing DEF row
<1>5. CASE /\ Owns(w, f) /\ pc' = [pc EXCEPT ![w] = "writing"] /\ UNCHANGED batch
           /\ \E now \in Nows : seen' = [seen EXCEPT ![w] = [attempts |-> attempts[f], now |-> now]]
  <2>1. /\ pc'[w] = "writing" /\ seen'[w].attempts = attempts[f]
        /\ \A v \in Workers \ {w} : pc'[v] = pc[v] /\ seen'[v] = seen[v]
    BY <1>1, <1>5 DEF TypeOK
  <2>2. Late(e)' \subseteq Late(e)
    <3> SUFFICES ASSUME NEW a \in 1..(MaxAttempts - 1), NEW v \in Workers, Writes(v, e, a)',
                        a < attempts[e] \/ status[e] # "processing"
                 PROVE  Writes(v, e, a)
      BY <1>1 DEF Late, row
    <3>1. v # w
      <4> SUFFICES ASSUME v = w PROVE FALSE
        OBVIOUS
      <4>1. e = f /\ a = attempts[e] /\ attempts[e] \in Nat
        BY <1>1, <1>5, <2>1 DEF Writes, TypeOK
      <4> QED  BY <1>5, <4>1 DEF Owns
    <3> QED  BY <1>5, <2>1, <3>1 DEF Writes
  <2>3. Abandoned(e)' => Abandoned(e)
    BY <1>1, <1>2, <2>1 DEF Abandoned, Live, row
  <2> QED  BY <1>1, <1>3, <2>2, <2>3, CostsNothing DEF row
<1> QED  BY <1>4, <1>5 DEF FailSelect

(* A fail that has read of an earlier lease hands the row back, or settles   *)
(* it, as if that were the current one: it was owed for as long as it was    *)
(* open, and now the row may be waiting for one attempt too many, or the     *)
(* holder of the current lease may be late.                                  *)
LEMMA FailCommitPaid ==
    ASSUME PaidInv, IInv', NEW e \in Events, NEW w \in Workers, FailCommit(w)
    PROVE  /\ Owes(e)' <= faults
           /\ status'[e] \in {"absent", "pending"} => attempts'[e] = 0
<1> DEFINE f == Head(batch[w]).event
           mine == seen[w].attempts
<1>1. /\ TypeOK /\ pc[w] = "writing" /\ pc[w] \in Busy /\ NextLease(w) /\ Len(batch[w]) > 0
      /\ f \in Events /\ UNCHANGED <<clock, attempts>>
      /\ seen' = [seen EXCEPT ![w] = Null]
  BY BusyHead DEF FailCommit, DueAgain, Busy, Release, PaidInv, IInv, Lease
<1>2. /\ \A v \in Workers \ {w} : batch'[v] = batch[v] /\ pc'[v] = pc[v] /\ seen'[v] = seen[v]
      /\ pc'[w] \in {"polling", "working"}
  BY <1>1, NextLeaseBatch DEF TypeOK
<1>3. /\ status' = [status EXCEPT ![f] = IF Exhausted(w) THEN "dead_letter" ELSE "retry"]
      /\ leaseExpiresAt' = [leaseExpiresAt EXCEPT ![f] = Null]
      /\ leasedBy' = [leasedBy EXCEPT ![f] = Null]
  BY DEF FailCommit, DueAgain, Release
<1>4. CASE e # f
  <2>1. status'[e] = status[e] /\ leaseExpiresAt'[e] = leaseExpiresAt[e] /\ leasedBy'[e] = leasedBy[e]
    BY <1>1, <1>3, <1>4 DEF TypeOK
  <2>2. Late(e)' \subseteq Late(e)
    BY <1>1, <1>2, <2>1, SameLate
  <2>3. Abandoned(e)' => Abandoned(e)
    <3>1. status[e] = "processing" => leasedBy[e] \in Workers
      BY DEF PaidInv, IInv, TypeOK, LeaseColumns
    <3> QED  BY <1>1, <1>2, <2>1, <3>1 DEF Abandoned, Live
  <2>4. Revived(e)' => Revived(e)
    BY <1>1, <2>1 DEF Revived
  <2> QED  BY <1>1, <2>1, <2>2, <2>3, <2>4, CostsNothing DEF PaidInv, Unclaimed
<1>5. CASE e = f
  <2>1. /\ status'[e] = IF Exhausted(w) THEN "dead_letter" ELSE "retry"
        /\ Exhausted(w) <=> mine >= MaxAttempts
    BY <1>1, <1>3, <1>5 DEF TypeOK, Exhausted
  <2>2. ASSUME NEW v \in Workers, pc[v] = "writing", Head(batch[v]).event = e
        PROVE  /\ seen[v].attempts \in 1..attempts[e]
               /\ v # w => seen[v].attempts # mine
    <3>1. /\ Head(batch[v]) = batch[v][1] /\ 1 \in DOMAIN batch[v]
          /\ Head(batch[w]) = batch[w][1] /\ 1 \in DOMAIN batch[w]
      BY <1>1, <2>2, BusyHead, BatchDomain DEF PaidInv, Busy
    <3>2. seen[v].attempts = batch[v][1].attempt /\ mine = batch[w][1].attempt
      BY <1>1, <2>2, <3>1 DEF PaidInv, IInv, ReadCurrent
    <3>3. batch[v][1].attempt \in 1..attempts[e]
      BY <2>2, <3>1 DEF PaidInv, IInv, LeasesUnique
    <3>4. v # w => batch[v][1].attempt # batch[w][1].attempt
      BY <1>5, <2>2, <3>1 DEF PaidInv, IInv, LeasesUnique
    <3> QED  BY <3>2, <3>3, <3>4
  <2> HIDE DEF f
  <2>3. mine \in 1..attempts[e] /\ attempts[e] \in Nat /\ attempts'[e] = attempts[e]
    BY <1>1, <1>5, <2>2 DEF TypeOK, f
  <2>4. Late(e)' \subseteq (Late(e) \cup {attempts[e]}) \ {mine}
    <3> SUFFICES ASSUME NEW a \in 1..(MaxAttempts - 1), NEW v \in Workers, Writes(v, e, a)'
                 PROVE  a \in (Late(e) \cup {attempts[e]}) \ {mine}
      BY DEF Late
    <3>1. v # w /\ Writes(v, e, a)
      BY <1>2 DEF Writes
    <3>2. a \in 1..attempts[e] /\ a # mine
      BY <2>2, <3>1 DEF Writes
    <3>3. a < attempts[e] => a \in Late(e)
      BY <3>1 DEF Late
    <3> QED  BY <2>3, <3>2, <3>3
  <2>5. mine < attempts[e] /\ mine < MaxAttempts => mine \in Late(e)
    <3>1. MaxAttempts \in Nat
      BY SettingsAssumption
    <3>2. Writes(w, e, mine)
      BY <1>1, <1>5 DEF Writes, f
    <3> QED  BY <2>3, <3>1, <3>2 DEF Late
  <2>6. ~Abandoned(e)' /\ (Revived(e)' => attempts[e] >= MaxAttempts /\ mine < MaxAttempts)
    <3>1. MaxAttempts \in Nat
      BY SettingsAssumption
    <3> QED  BY <2>1, <2>3, <3>1 DEF Abandoned, Revived
  <2>7. CASE Late(e)' \subseteq Late(e) /\ ~Revived(e)'
    BY <2>3, <2>6, <2>7, CostsNothing, <2>1
  <2>8. CASE ~(Late(e)' \subseteq Late(e) /\ ~Revived(e)')
    <3>1. /\ MaxAttempts \in Nat /\ Extra(e) \in Nat /\ Extra(e)' \in Nat
          /\ Cardinality(Late(e)) \in Nat /\ Cardinality(Late(e)') \in Nat
          /\ Owes(e)' = Extra(e)' + Cardinality(Late(e)') + Count(Abandoned(e)') + Count(Revived(e)')
          /\ Owes(e) = Extra(e) + Cardinality(Late(e)) + Count(Abandoned(e)) + Count(Revived(e))
      BY OwesParts DEF PaidInv
    <3>2. Late(e) \in SUBSET (1..(MaxAttempts - 1)) /\ Late(e)' \in SUBSET (1..(MaxAttempts - 1))
      BY DEF Late
    <3>3. Extra(e)' = Extra(e)
      BY <2>3 DEF Extra
    <3>4. Owes(e) <= faults /\ faults \in Nat
      BY DEF PaidInv
    <3>5. mine \in Late(e)
      <4>1. CASE Revived(e)'
        BY <2>3, <2>5, <2>6, <3>1, <4>1
      <4>2. CASE ~(Late(e)' \subseteq Late(e))
        <5>1. attempts[e] \in Late(e)' /\ attempts[e] # mine
          BY <2>4, <4>2
        <5>2. attempts[e] < MaxAttempts
          BY <2>3, <3>1, <3>2, <5>1
        <5> QED  BY <2>3, <2>5, <3>1, <5>1, <5>2
      <4> QED  BY <2>8, <4>1, <4>2
    <3>6. CASE Revived(e)'
      <4>1. Late(e)' \subseteq Late(e) \ {mine}
        <5>1. attempts[e] \notin Late(e)'
          BY <2>3, <2>6, <3>1, <3>2, <3>6
        <5> QED  BY <2>4, <5>1
      <4>2. Cardinality(Late(e)') + 1 <= Cardinality(Late(e))
        BY <3>2, <3>5, <4>1, LateSets
      <4>3. Count(Abandoned(e)') = 0 /\ Count(Revived(e)') = 1
        BY <2>6, <3>6 DEF Count
      <4>4. Count(Abandoned(e)) \in Nat /\ Count(Revived(e)) \in Nat
        BY DEF Count
      <4> QED  BY <2>1, <3>1, <3>3, <3>4, <4>2, <4>3, <4>4
    <3>7. CASE ~Revived(e)'
      <4>1. Late(e)' \subseteq (Late(e) \ {mine}) \cup {attempts[e]}
        BY <2>4
      <4>2. Cardinality(Late(e)') <= Cardinality(Late(e))
        BY <3>2, <3>5, <4>1, LateSets
      <4>3. Count(Abandoned(e)') = 0 /\ Count(Revived(e)') = 0
        BY <2>6, <3>7 DEF Count
      <4>4. Count(Abandoned(e)) \in Nat /\ Count(Revived(e)) \in Nat
        BY DEF Count
      <4> QED  BY <2>1, <3>1, <3>3, <3>4, <4>2, <4>3, <4>4
    <3> QED  BY <3>6, <3>7
  <2> QED  BY <2>7, <2>8
<1> QED  BY <1>4, <1>5

(* A worker that stops abandons its leases, and is a fault. *)
LEMMA LeavePaid ==
    ASSUME PaidInv, IInv', NEW e \in Events, NEW w \in Workers, Leave(w)
    PROVE  Owes(e)' <= faults + 1
<1>1. TypeOK /\ UNCHANGED <<clock, row>> /\ pc' = [pc EXCEPT ![w] = "stopped"]
  BY DEF Leave, PaidInv, IInv
<1>2. /\ pc'[w] = "stopped"
      /\ \A v \in Workers \ {w} : pc'[v] = pc[v] /\ batch'[v] = batch[v] /\ seen'[v] = seen[v]
  BY <1>1 DEF Leave, TypeOK
<1>3. Late(e)' \subseteq Late(e)
  BY <1>1, <1>2, SameLate DEF row
<1>4. /\ Extra(e) \in Nat /\ Extra(e)' \in Nat
      /\ Cardinality(Late(e)) \in Nat /\ Cardinality(Late(e)') \in Nat
      /\ Owes(e)' = Extra(e)' + Cardinality(Late(e)') + Count(Abandoned(e)') + Count(Revived(e)')
      /\ Owes(e) = Extra(e) + Cardinality(Late(e)) + Count(Abandoned(e)) + Count(Revived(e))
  BY OwesParts DEF PaidInv
<1>5. Extra(e)' = Extra(e) /\ (Revived(e)' <=> Revived(e))
  BY <1>1 DEF Extra, Revived, row
<1>6. Cardinality(Late(e)') <= Cardinality(Late(e))
  <2>1. Late(e) \in SUBSET (1..(MaxAttempts - 1)) /\ Late(e)' \in SUBSET (1..(MaxAttempts - 1))
    BY DEF Late
  <2> QED  BY <1>3, <2>1, LateSets
<1>7. /\ Count(Abandoned(e)') <= 1 /\ Count(Abandoned(e)') \in Nat /\ Count(Abandoned(e)) \in Nat
      /\ Count(Revived(e)') = Count(Revived(e)) /\ Count(Revived(e)) \in Nat
  BY <1>5 DEF Count
<1>8. Owes(e) <= faults /\ faults \in Nat
  BY DEF PaidInv
<1> QED  BY <1>4, <1>5, <1>6, <1>7, <1>8

(* So is a tick that lets a lease of a worker at work run out. *)
LEMMA TickPaid ==
    ASSUME PaidInv, IInv', NEW e \in Events, MCTick
    PROVE  Owes(e)' <= faults'
<1>1. UNCHANGED <<row, pc, batch, seen>> /\ clock' = clock + 1 /\ clock \in Nat
  BY DEF MCTick, Tick, PaidInv, IInv, TypeOK
<1>2. Late(e)' = Late(e) /\ (Revived(e)' <=> Revived(e)) /\ attempts'[e] = attempts[e]
  BY <1>1 DEF Late, Writes, Revived, row
<1>3. faults \in Nat /\ Owes(e) <= faults
  BY DEF PaidInv
<1>4. CASE Overrun
  <2>1. faults' = faults + 1
    BY <1>4 DEF MCTick, Fault
  <2>2. /\ Extra(e) \in Nat /\ Extra(e)' = Extra(e)
        /\ Cardinality(Late(e)) \in Nat /\ Cardinality(Late(e)') = Cardinality(Late(e))
        /\ Owes(e)' = Extra(e)' + Cardinality(Late(e)') + Count(Abandoned(e)') + Count(Revived(e)')
        /\ Owes(e) = Extra(e) + Cardinality(Late(e)) + Count(Abandoned(e)) + Count(Revived(e))
    BY <1>2, OwesParts DEF PaidInv, Extra
  <2>3. /\ Count(Abandoned(e)') <= 1 /\ Count(Abandoned(e)') \in Nat /\ Count(Abandoned(e)) \in Nat
        /\ Count(Revived(e)') = Count(Revived(e)) /\ Count(Revived(e)) \in Nat
    BY <1>2 DEF Count
  <2> QED  BY <1>3, <2>1, <2>2, <2>3
<1>5. CASE ~Overrun
  <2>1. faults' = faults
    BY <1>5 DEF MCTick, NoFault
  <2>2. Abandoned(e)' => Abandoned(e)
    <3> SUFFICES ASSUME Abandoned(e)', ~Abandoned(e) PROVE FALSE
      OBVIOUS
    <3>1. /\ status[e] = "processing" /\ leaseExpiresAt[e] <= clock + 1
          /\ ~(leaseExpiresAt[e] <= clock) /\ Live(leasedBy[e])
      BY <1>1 DEF Abandoned, Live, row
    <3>2. leaseExpiresAt[e] \in Nat /\ leasedBy[e] \in Workers
      BY <3>1 DEF PaidInv, IInv, TypeOK, LeaseColumns
    <3>3. leaseExpiresAt[e] = clock + 1
      BY <1>1, <3>1, <3>2
    <3> QED  BY <1>5, <3>1, <3>2, <3>3 DEF Overrun
  <2> QED  BY <1>2, <2>1, <2>2, CostsNothing
<1> QED  BY <1>4, <1>5

(* A claim grants leases that have not run out.  It pays for an attempt past *)
(* the limit with what was owed for the abandoned lease or the revived row,  *)
(* and for a fail that still writes for the old lease with the former.       *)
LEMMA ClaimPaid ==
    ASSUME ClockLag < LeaseSeconds,
           PaidInv, IInv', NEW e \in Events, NEW w \in Workers, Claim(w)
    PROVE  /\ Owes(e)' <= faults
           /\ status'[e] \in {"absent", "pending"} => attempts'[e] = 0
<1>1. /\ TypeOK /\ UNCHANGED <<clock, seen>> /\ pc[w] = "polling" /\ pc'[w] = "working"
      /\ \A v \in Workers \ {w} : pc'[v] = pc[v]
  BY DEF Claim, PaidInv, IInv, TypeOK
<1>2. PICK now \in Nows : \E n \in 1..BatchSize : \E b \in [1..n -> Claimable(now)] :
         Grant(w, b, now)
  BY ClaimGrants
<1>3. PICK n \in 1..BatchSize : \E b \in [1..n -> Claimable(now)] : Grant(w, b, now)
  BY <1>2
<1>4. PICK b \in [1..n -> Claimable(now)] : Grant(w, b, now)
  BY <1>3
<1>5. /\ \A v \in Workers \ {w} : batch'[v] = batch[v]
      /\ \A f \in Events :
            \/ \E i \in 1..n : f = b[i]
            \/ /\ status'[f] = status[f]
               /\ attempts'[f] = attempts[f]
               /\ leasedBy'[f] = leasedBy[f]
               /\ leaseExpiresAt'[f] = leaseExpiresAt[f]
      /\ \A i \in 1..n : b[i] \in Claimable(now)
  <2>1. n \in Nat \ {0}
    BY SettingsAssumption
  <2> QED  BY <1>1, <1>4, <2>1, GrantBatch
<1>6. CASE /\ status'[e] = status[e] /\ attempts'[e] = attempts[e]
           /\ leasedBy'[e] = leasedBy[e] /\ leaseExpiresAt'[e] = leaseExpiresAt[e]
  <2>1. Late(e)' \subseteq Late(e)
    BY <1>1, <1>5, <1>6, SameLate
  <2>2. Abandoned(e)' => Abandoned(e)
    <3>1. status[e] = "processing" => leasedBy[e] \in Workers
      BY DEF PaidInv, IInv, TypeOK, LeaseColumns
    <3> QED  BY <1>1, <1>6, <3>1 DEF Abandoned, Live
  <2>3. Revived(e)' => Revived(e)
    BY <1>6 DEF Revived
  <2> QED  BY <1>6, <2>1, <2>2, <2>3, CostsNothing DEF PaidInv, Unclaimed
<1>7. CASE \E i \in 1..n : e = b[i]
  <2>1. PICK i \in 1..n : e = b[i]
    BY <1>7
  <2>2. /\ status'[e] = "processing" /\ attempts'[e] = attempts[e] + 1
        /\ leaseExpiresAt'[e] = now + LeaseSeconds /\ leasedBy'[e] = w
    BY <1>4, <2>1 DEF Grant, NextAttempt
  <2>3. ~Abandoned(e)' /\ ~Revived(e)'
    <3>1. /\ clock \in Nat /\ now \in Nat /\ clock - now <= ClockLag
          /\ ClockLag \in Nat /\ LeaseSeconds \in Nat
      BY <1>1, SettingsAssumption DEF TypeOK, Nows
    <3>2. ~(now + LeaseSeconds <= clock)
      BY <3>1
    <3> QED  BY <1>1, <2>2, <3>2 DEF Abandoned, Revived, Live
  <2>4. e \in Claimable(now)
    BY <1>5, <2>1
  <2>5. status[e] = "processing" => Abandoned(e)
    <3>1. status[e] = "processing" => leaseExpiresAt[e] \in Nat /\ leaseExpiresAt[e] <= now
      BY <2>4 DEF Claimable, PaidInv, IInv, TypeOK, LeaseColumns
    <3>2. now \in Nat /\ clock \in Nat /\ now <= clock
      BY <1>1 DEF TypeOK, Nows
    <3> QED  BY <3>1, <3>2 DEF Abandoned
  <2>6. /\ attempts[e] \in Nat /\ MaxAttempts \in Nat /\ MaxAttempts > 0
        /\ Extra(e) \in Nat /\ Extra(e)' \in Nat
        /\ Cardinality(Late(e)) \in Nat /\ Cardinality(Late(e)') \in Nat
        /\ Owes(e)' = Extra(e)' + Cardinality(Late(e)') + Count(Abandoned(e)') + Count(Revived(e)')
        /\ Owes(e) = Extra(e) + Cardinality(Late(e)) + Count(Abandoned(e)) + Count(Revived(e))
    BY OwesParts DEF PaidInv
  <2>7. Count(Abandoned(e)') = 0 /\ Count(Revived(e)') = 0
    BY <2>3 DEF Count
  <2>8. Extra(e)' = IF attempts[e] >= MaxAttempts THEN Extra(e) + 1 ELSE Extra(e)
    BY <2>2, <2>6 DEF Extra
  <2>9. Late(e) \in SUBSET (1..(MaxAttempts - 1)) /\ Late(e)' \in SUBSET (1..(MaxAttempts - 1))
    BY DEF Late
  <2>10. ASSUME NEW a \in Late(e)'
         PROVE  a \in Late(e) \/ (a = attempts[e] /\ status[e] = "processing")
    <3>1. PICK v \in Workers : Writes(v, e, a)'
      BY DEF Late
    <3>2. v # w /\ Writes(v, e, a)
      BY <1>1, <1>5, <3>1 DEF Writes
    <3>3. a <= attempts[e] /\ a \in Nat
      <4>1. Head(batch[v]) = batch[v][1] /\ 1 \in DOMAIN batch[v]
        BY <1>1, <3>2, BusyHead, BatchDomain DEF PaidInv, Busy, Writes
      <4>2. seen[v].attempts = batch[v][1].attempt
        BY <3>2, <4>1 DEF PaidInv, IInv, ReadCurrent, Writes
      <4>3. batch[v][1].attempt \in 1..attempts[batch[v][1].event]
        BY <4>1 DEF PaidInv, IInv, LeasesUnique
      <4> QED  BY <3>2, <4>1, <4>2, <4>3 DEF Writes
    <3>4. a \in 1..(MaxAttempts - 1)
      BY <2>9
    <3> QED  BY <2>6, <3>2, <3>3, <3>4 DEF Late
  <2>11. Owes(e) <= faults /\ faults \in Nat
    BY DEF PaidInv
  <2>12. Count(Abandoned(e)) \in Nat /\ Count(Revived(e)) \in Nat
    BY DEF Count
  <2>13. CASE status[e] # "processing"
    <3>1. Cardinality(Late(e)') <= Cardinality(Late(e))
      BY <2>9, <2>10, <2>13, LateSets
    <3>2. attempts[e] >= MaxAttempts => Count(Revived(e)) = 1
      BY <2>4, <2>13 DEF Claimable, Revived, Count
    <3> QED  BY <2>2, <2>6, <2>7, <2>8, <2>11, <2>12, <3>1, <3>2
  <2>14. CASE status[e] = "processing" /\ attempts[e] >= MaxAttempts
    <3>1. Late(e)' \subseteq Late(e)
      BY <2>6, <2>9, <2>10, <2>14
    <3>2. Cardinality(Late(e)') <= Cardinality(Late(e))
      BY <2>9, <3>1, LateSets
    <3>3. Count(Abandoned(e)) = 1
      BY <2>5, <2>14 DEF Count
    <3> QED  BY <2>2, <2>6, <2>7, <2>8, <2>11, <2>12, <3>2, <3>3
  <2>15. CASE status[e] = "processing" /\ ~(attempts[e] >= MaxAttempts)
    <3>1. Late(e)' \subseteq Late(e) \cup {attempts[e]}
      BY <2>10
    <3>2. Cardinality(Late(e)') <= Cardinality(Late(e)) + 1
      BY <2>9, <3>1, LateSets
    <3>3. Count(Abandoned(e)) = 1
      BY <2>5, <2>15 DEF Count
    <3> QED  BY <2>2, <2>6, <2>7, <2>8, <2>11, <2>12, <2>15, <3>2, <3>3
  <2> QED  BY <2>13, <2>14, <2>15
<1> QED  BY <1>5, <1>6, <1>7

LEMMA PaidInit == MCInit => PaidInv
<1> SUFFICES ASSUME MCInit PROVE PaidInv
  OBVIOUS
<1>1. IInv /\ faults = 0
  BY InitIInv DEF MCInit
<1>2. ASSUME NEW e \in Events PROVE Owes(e) <= faults
  <2>1. Late(e) = {}
    BY DEF MCInit, Init, Late, Writes
  <2>2. ~Abandoned(e) /\ ~Revived(e) /\ Extra(e) = 0
    BY SettingsAssumption DEF MCInit, Init, Abandoned, Revived, Extra
  <2> QED  BY <1>1, <2>1, <2>2, FS_EmptySet DEF Owes, Count
<1>3. Unclaimed
  BY DEF MCInit, Init, Unclaimed
<1> QED  BY <1>1, <1>2, <1>3 DEF PaidInv

LEMMA PaidStep ==
    ASSUME ClockLag < LeaseSeconds, PaidInv, [MCNext]_mcvars
    PROVE  PaidInv'
<1>1. [Next]_vars
  BY DEF MCNext, MCStart, MCTick, Next, mcvars
<1>2. IInv'
  BY <1>1, InductiveStep DEF PaidInv
<1>3. faults' \in Nat
  BY DEF PaidInv, MCNext, MCTick, Fault, NoFault, mcvars
<1>4. ASSUME NEW e \in Events
      PROVE  /\ Owes(e)' <= faults'
             /\ status'[e] \in {"absent", "pending"} => attempts'[e] = 0
  <2>0. status[e] \in {"absent", "pending"} => attempts[e] = 0
    BY DEF PaidInv, Unclaimed
  <2>1. ASSUME NEW f \in Events, Store(f), NoFault
        PROVE  Owes(e)' <= faults' /\ (status'[e] \in {"absent", "pending"} => attempts'[e] = 0)
    BY <1>2, <2>1, StorePaid DEF NoFault
  <2>2. ASSUME NEW w \in Workers, Start(w) \/ Succeed(w) \/ Raise(w), NoFault
        PROVE  Owes(e)' <= faults' /\ (status'[e] \in {"absent", "pending"} => attempts'[e] = 0)
    <3>1. Owes(e)' <= faults
      BY <1>2, <2>2, MovePaid
    <3>2. UNCHANGED <<status, attempts>>
      BY <2>2 DEF Start, Succeed, Raise, row
    <3> QED  BY <2>0, <2>2, <3>1, <3>2 DEF NoFault
  <2>3. ASSUME NEW w \in Workers, Claim(w), NoFault
        PROVE  Owes(e)' <= faults' /\ (status'[e] \in {"absent", "pending"} => attempts'[e] = 0)
    BY <1>2, <2>3, ClaimPaid DEF NoFault
  <2>4. ASSUME NEW w \in Workers, Complete(w), NoFault
        PROVE  Owes(e)' <= faults' /\ (status'[e] \in {"absent", "pending"} => attempts'[e] = 0)
    BY <1>2, <2>4, CompletePaid DEF NoFault
  <2>5. ASSUME NEW w \in Workers, FailSelect(w), NoFault
        PROVE  Owes(e)' <= faults' /\ (status'[e] \in {"absent", "pending"} => attempts'[e] = 0)
    <3>1. Owes(e)' <= faults
      BY <1>2, <2>5, FailSelectPaid
    <3>2. UNCHANGED <<status, attempts>>
      BY <2>5 DEF FailSelect, row
    <3> QED  BY <2>0, <2>5, <3>1, <3>2 DEF NoFault
  <2>6. ASSUME NEW w \in Workers, FailCommit(w), NoFault
        PROVE  Owes(e)' <= faults' /\ (status'[e] \in {"absent", "pending"} => attempts'[e] = 0)
    BY <1>2, <2>6, FailCommitPaid DEF NoFault
  <2>7. ASSUME NEW w \in Workers, Leave(w), faults' = faults + 1
        PROVE  Owes(e)' <= faults' /\ (status'[e] \in {"absent", "pending"} => attempts'[e] = 0)
    <3>1. Owes(e)' <= faults + 1
      BY <1>2, <2>7, LeavePaid
    <3>2. UNCHANGED <<status, attempts>>
      BY <2>7 DEF Leave, row
    <3> QED  BY <2>0, <2>7, <3>1, <3>2
  <2>8. CASE MCTick
    <3>1. Owes(e)' <= faults'
      BY <1>2, <2>8, TickPaid
    <3>2. UNCHANGED <<status, attempts>>
      BY <2>8 DEF MCTick, Tick, row
    <3> QED  BY <2>0, <3>1, <3>2
  <2>9. CASE UNCHANGED mcvars
    <3>1. UNCHANGED <<status, attempts, leaseExpiresAt, leasedBy, clock, pc, batch, seen, faults>>
      BY <2>9 DEF mcvars, vars, row
    <3>2. Late(e)' \subseteq Late(e) /\ (Abandoned(e)' => Abandoned(e)) /\ (Revived(e)' => Revived(e))
      BY <3>1 DEF Late, Writes, Abandoned, Live, Revived
    <3> QED  BY <1>2, <2>0, <3>1, <3>2, CostsNothing
  <2> QED
    BY <2>1, <2>2, <2>3, <2>4, <2>5, <2>6, <2>7, <2>8, <2>9
       DEF MCNext, MCStart, Stop, FailOverflow, Fault
<1>5. Unclaimed' /\ \A e \in Events : Owes(e)' <= faults'
  BY <1>4 DEF Unclaimed
<1> QED  BY <1>2, <1>3, <1>5 DEF PaidInv

(* Retries are bounded by crashes: however many workers there are, however  *)
(* they interleave and however often late fails hand rows back, an event is *)
(* attempted at most once more than max_attempts for each worker that has   *)
(* stopped and each lease that has run out under a worker at work.  Clocks  *)
(* must lag by less than a lease lasts: else a lease can be granted that     *)
(* has already run out.                                                     *)
THEOREM AttemptsArePaidFor ==
    ASSUME ClockLag < LeaseSeconds
    PROVE  MCSpec => []ExtraAttemptsAreReclaims
<1>1. MCInit => PaidInv
  BY PaidInit
<1>2. PaidInv /\ [MCNext]_mcvars => PaidInv'
  BY PaidStep
<1>3. PaidInv => ExtraAttemptsAreReclaims
  <2> SUFFICES ASSUME PaidInv, NEW e \in Events PROVE attempts[e] <= MaxAttempts + faults
    BY DEF ExtraAttemptsAreReclaims
  <2>1. /\ attempts[e] \in Nat /\ MaxAttempts \in Nat /\ faults \in Nat /\ Owes(e) <= faults
    BY SettingsAssumption DEF PaidInv, IInv, TypeOK
  <2>2. Cardinality(Late(e)) \in Nat
    <3>1. Late(e) \in SUBSET (1..(MaxAttempts - 1))
      BY DEF Late
    <3> QED  BY <3>1, LateSets
  <2>3. Extra(e) <= faults /\ Extra(e) \in Nat
    BY <2>1, <2>2 DEF Owes, Count, Extra
  <2> QED  BY <2>1, <2>3 DEF Extra
<1> QED  BY <1>1, <1>2, <1>3, PTL DEF MCSpec
=============================================================================
