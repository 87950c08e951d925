---------------------------- MODULE Outbox_proofs ----------------------------
(***************************************************************************)
(* Proofs about Outbox, for every set of events and workers, every budget, *)
(* backoff, visibility timeout and batch limit.                            *)
(***************************************************************************)
EXTENDS Outbox, FiniteSetTheorems, TLAPS

-----------------------------------------------------------------------------
(***************************************************************************)
(* The pure transitions, on any record.                                    *)
(***************************************************************************)

\* A power of two is a natural number: it counts the subsets of an interval.
LEMMA PowerOfTwo == ASSUME NEW n \in Nat PROVE 2 ^ n \in Nat
<1>1. IsFiniteSet(1..n) /\ Cardinality(1..n) = n
  BY FS_Interval
<1>2. IsFiniteSet(SUBSET (1..n)) /\ Cardinality(SUBSET (1..n)) = 2 ^ n
  BY <1>1, FS_SUBSET
<1>3. QED
  BY <1>2, FS_CardinalityType

\* backoffMs never waits longer than the cap, and always some natural time.
LEMMA BackoffBounded ==
  ASSUME NEW attempts \in Nat
  PROVE  BackoffMs(attempts) \in Nat /\ BackoffMs(attempts) <= MaxBackoff
<1> DEFINE doublings == IF attempts > 0 THEN attempts - 1 ELSE 0
           power == 2 ^ doublings
<1>1. doublings \in Nat
  OBVIOUS
<1>2. power \in Nat
  BY <1>1, PowerOfTwo
<1> HIDE DEF power
<1>3. BaseBackoff * power \in Nat
  BY <1>2, TimingAssumption
<1>4. BackoffMs(attempts) = AtMost(BaseBackoff * power, MaxBackoff)
  BY DEF BackoffMs, power
<1>5. QED
  BY <1>3, <1>4, TimingAssumption DEF AtMost

\* A record whose fields are replaced one at a time stays a record.
LEMMA FieldReplaced ==
  ASSUME NEW r \in Row
  PROVE  /\ \A s \in {"absent", "pending", "processing", "failed"} \cup Terminal :
              [r EXCEPT !.status = s] \in Row
         /\ \A n \in Nat : [r EXCEPT !.attempts = n] \in Row
         /\ \A t \in Int : [r EXCEPT !.due = t] \in Row
         /\ \A w \in Workers \cup {NoWorker} : [r EXCEPT !.lockedBy = w] \in Row
         /\ \A t \in 0..VisibilityTimeout : [r EXCEPT !.age = t] \in Row
         /\ \A reason \in Reasons : [r EXCEPT !.lastError = reason] \in Row
BY DEF Row

LEMMA ZeroAge == 0 \in 0..VisibilityTimeout
BY TimingAssumption

\* Claiming, completing, returning and ageing a record leave it a record.
LEMMA ClaimedIsRow ==
  ASSUME NEW r \in Row, NEW w \in Workers PROVE Claimed(r, w) \in Row
<1> DEFINE r1 == [r EXCEPT !.status = "processing"]
           r2 == [r1 EXCEPT !.attempts = r.attempts + 1]
           r3 == [r2 EXCEPT !.lockedBy = w]
<1>1. Claimed(r, w) = [r3 EXCEPT !.age = 0]
  BY Zenon DEF Claimed
<1>2. r1 \in Row
  BY FieldReplaced
<1>3. r2 \in Row
  <2>1. r.attempts + 1 \in Nat
    BY DEF Row
  <2> HIDE DEF r1
  <2>2. QED
    BY <1>2, <2>1, FieldReplaced
<1> HIDE DEF r2
<1>4. r3 \in Row
  BY <1>3, FieldReplaced
<1> HIDE DEF r3
<1>5. QED
  BY <1>1, <1>4, FieldReplaced, ZeroAge

LEMMA CompletedIsRow == ASSUME NEW r \in Row PROVE Completed(r) \in Row
<1> DEFINE r1 == [r EXCEPT !.status = "processed"]
           r2 == [r1 EXCEPT !.lockedBy = NoWorker]
<1>1. Completed(r) = [r2 EXCEPT !.age = 0]
  BY Zenon DEF Completed
<1>2. r1 \in Row
  BY FieldReplaced DEF Terminal
<1> HIDE DEF r1
<1>3. r2 \in Row
  BY <1>2, FieldReplaced
<1> HIDE DEF r2
<1>4. QED
  BY <1>1, <1>3, FieldReplaced, ZeroAge

LEMMA ReturnedIsRow ==
  ASSUME NEW r \in Row, NEW delay \in Int, NEW reason \in Reasons
  PROVE  Returned(r, delay, reason) \in Row
<1> DEFINE status == IF Exhausted(r) THEN "dead_letter" ELSE "failed"
           wait == IF Exhausted(r) THEN r.due ELSE delay
           r1 == [r EXCEPT !.status = status]
           r2 == [r1 EXCEPT !.due = wait]
           r3 == [r2 EXCEPT !.lastError = reason]
           r4 == [r3 EXCEPT !.lockedBy = NoWorker]
<1>1. Returned(r, delay, reason) = [r4 EXCEPT !.age = 0]
  BY Zenon DEF Returned
<1>2. status \in {"failed"} \cup Terminal /\ wait \in Int
  BY DEF Terminal, Row
<1> HIDE DEF status, wait
<1>3. r1 \in Row
  BY <1>2, FieldReplaced
<1> HIDE DEF r1
<1>4. r2 \in Row
  BY <1>2, <1>3, FieldReplaced
<1> HIDE DEF r2
<1>5. r3 \in Row
  BY <1>4, FieldReplaced
<1> HIDE DEF r3
<1>6. r4 \in Row
  BY <1>5, FieldReplaced
<1> HIDE DEF r4
<1>7. QED
  BY <1>1, <1>6, FieldReplaced, ZeroAge

LEMMA FailedIsRow == ASSUME NEW r \in Row PROVE Failed(r) \in Row
<1>1. r.attempts \in Nat
  BY DEF Row
<1>2. BackoffMs(r.attempts) \in Int
  BY <1>1, BackoffBounded
<1>3. QED
  BY <1>2, ReturnedIsRow DEF Failed, Reasons

LEMMA ExpiredIsRow == ASSUME NEW r \in Row PROVE Expired(r) \in Row
<1> DEFINE reason == IF r.lastError = "none" THEN "lock expired" ELSE r.lastError
<1>1. reason \in Reasons
  BY DEF Row, Reasons
<1> HIDE DEF reason
<1>2. Returned(r, 0, reason) \in Row
  BY <1>1, ReturnedIsRow
<1>3. QED
  BY <1>2 DEF Expired, reason

LEMMA AgedIsRow == ASSUME NEW r \in Row PROVE Aged(r) \in Row
<1> DEFINE due == IF r.status \in {"pending", "failed"} /\ -MaxOverdue < r.due
                  THEN r.due - 1 ELSE r.due
           age == IF r.status = "processing" /\ r.age < VisibilityTimeout
                  THEN r.age + 1 ELSE r.age
           r1 == [r EXCEPT !.due = due]
<1>1. Aged(r) = [r1 EXCEPT !.age = age]
  BY Zenon DEF Aged
<1>2. due \in Int /\ age \in 0..VisibilityTimeout
  BY TimingAssumption DEF Row
<1> HIDE DEF due, age
<1>3. r1 \in Row
  BY <1>2, FieldReplaced
<1> HIDE DEF r1
<1>4. QED
  BY <1>1, <1>2, <1>3, FieldReplaced

-----------------------------------------------------------------------------
(***************************************************************************)
(* Type correctness.                                                       *)
(***************************************************************************)

LEMMA InitType == Init => TypeOK
BY TimingAssumption DEF Init, TypeOK, Row, Reasons, HoldsNothing, Terminal

LEMMA NextType == TypeOK /\ [Next]_vars => TypeOK'
<1> SUFFICES ASSUME TypeOK, [Next]_vars PROVE TypeOK'
  OBVIOUS
<1> USE DEF TypeOK
<1>1. ASSUME NEW e \in Events, Enqueue(e) PROVE TypeOK'
  BY <1>1 DEF Enqueue, Row
<1>2. ASSUME NEW w \in Workers, Reap(w) PROVE TypeOK'
  <2> PICK chosen \in SUBSET Events : ReapExpired(w, chosen)
    BY <1>2 DEF Reap
  <2>1. row' \in [Events -> Row]
    BY ExpiredIsRow DEF ReapExpired
  <2>2. QED
    BY <2>1 DEF ReapExpired
<1>3. ASSUME NEW w \in Workers, Claim(w) PROVE TypeOK'
  <2> PICK chosen \in SUBSET Events : ClaimBatch(w, chosen)
    BY <1>3 DEF Claim
  <2>1. row' \in [Events -> Row]
    BY ClaimedIsRow DEF ClaimBatch
  <2>2. held' \in [Workers -> [Events -> {"no", "working", "succeeded", "failed"}]]
    BY DEF ClaimBatch
  <2>3. QED
    BY <2>1, <2>2 DEF ClaimBatch
<1>4. ASSUME NEW w \in Workers, Handles(w) PROVE TypeOK'
  BY <1>4 DEF Handles, Handle
<1>5. ASSUME NEW w \in Workers, Mark(w) PROVE TypeOK'
  <2> PICK e \in Events : MarkProcessed(w, e) \/ MarkFailed(w, e)
    BY <1>5 DEF Mark
  <2>1. CASE MarkProcessed(w, e)
    BY <2>1, CompletedIsRow DEF MarkProcessed
  <2>2. CASE MarkFailed(w, e)
    BY <2>2, FailedIsRow DEF MarkFailed, Reasons
  <2>3. QED
    BY <2>1, <2>2
<1>6. ASSUME NEW w \in Workers, Crash(w) \/ Restart(w) PROVE TypeOK'
  <2>1. HoldsNothing \in [Events -> {"no", "working", "succeeded", "failed"}]
    BY DEF HoldsNothing
  <2>2. CASE Crash(w)
    BY <2>1, <2>2 DEF Crash
  <2>3. CASE Restart(w)
    BY <2>3 DEF Restart
  <2>4. QED
    BY <1>6, <2>2, <2>3
<1>7. CASE Tick
  BY <1>7, AgedIsRow DEF Tick
<1>8. CASE UNCHANGED vars
  BY <1>8 DEF vars
<1>9. QED
  BY <1>1, <1>2, <1>3, <1>4, <1>5, <1>6, <1>7, <1>8 DEF Next

\* Every row is an outbox record at every moment: every handler, reaper and
\* clock step of the outbox leaves statuses, locks and times well formed.
THEOREM TypeCorrect == Spec => []TypeOK
<1>1. QED
  BY InitType, NextType, PTL DEF Spec

-----------------------------------------------------------------------------
(***************************************************************************)
(* What one step does to one row.  Everything below rests on this: the     *)
(* repository changes rows by the pure transitions only, each from the     *)
(* statuses it accepts.                                                    *)
(***************************************************************************)

RowStep(r, s) ==
  \/ s = r
  \/ r.status = "absent" /\ s = [r EXCEPT !.status = "pending"]
  \/ Due(r) /\ \E w \in Workers : s = Claimed(r, w)
  \/ r.status = "processing" /\ s = Completed(r)
  \/ r.status = "processing" /\ s = Failed(r)
  \/ LockExpired(r) /\ s = Expired(r)
  \/ s = Aged(r)

LEMMA NextRows ==
  ASSUME TypeOK, [Next]_vars, NEW e \in Events
  PROVE  RowStep(row[e], row'[e])
<1> USE DEF RowStep
<1>0. row \in [Events -> Row]
  BY DEF TypeOK
<1>1. ASSUME NEW d \in Events, Enqueue(d) PROVE RowStep(row[e], row'[e])
  BY <1>0, <1>1 DEF Enqueue
<1>2. ASSUME NEW w \in Workers, Reap(w) PROVE RowStep(row[e], row'[e])
  <2> PICK chosen \in SUBSET Events : ReapExpired(w, chosen)
    BY <1>2 DEF Reap
  <2>1. \A d \in chosen : LockExpired(row[d])
    BY DEF ReapExpired, FirstRows
  <2>2. QED
    BY <1>0, <2>1 DEF ReapExpired
<1>3. ASSUME NEW w \in Workers, Claim(w) PROVE RowStep(row[e], row'[e])
  <2> PICK chosen \in SUBSET Events : ClaimBatch(w, chosen)
    BY <1>3 DEF Claim
  <2>1. \A d \in chosen : Due(row[d])
    BY DEF ClaimBatch, FirstRows
  <2>2. QED
    BY <1>0, <2>1 DEF ClaimBatch
<1>4. ASSUME NEW w \in Workers, Mark(w) PROVE RowStep(row[e], row'[e])
  BY <1>0, <1>4 DEF Mark, MarkProcessed, MarkFailed
<1>5. ASSUME NEW w \in Workers, Handles(w) \/ Crash(w) \/ Restart(w)
      PROVE  RowStep(row[e], row'[e])
  BY <1>5 DEF Handles, Handle, Crash, Restart
<1>6. CASE Tick
  BY <1>6 DEF Tick
<1>7. CASE UNCHANGED vars
  BY <1>7 DEF vars
<1>8. QED
  BY <1>1, <1>2, <1>3, <1>4, <1>5, <1>6, <1>7 DEF Next

\* The fields of a record after each transition.
LEMMA RowStepFields ==
  ASSUME NEW r \in Row, NEW s, RowStep(r, s)
  PROVE  \/ s = r
         \/ /\ r.status = "absent" /\ s.status = "pending"
            /\ s.attempts = r.attempts /\ s.lockedBy = r.lockedBy
         \/ /\ r.status \in {"pending", "failed"} /\ s.status = "processing"
            /\ s.attempts = r.attempts + 1 /\ s.lockedBy \in Workers
         \/ /\ r.status = "processing" /\ s.status = "processed"
            /\ s.attempts = r.attempts /\ s.lockedBy = NoWorker
         \/ /\ r.status = "processing"
            /\ s.status = IF r.attempts >= MaxAttempts THEN "dead_letter" ELSE "failed"
            /\ s.attempts = r.attempts /\ s.lockedBy = NoWorker
            /\ s.lastError # "none"
         \/ /\ r.status \in {"pending", "failed", "processing"} /\ s.status = r.status
            /\ s.attempts = r.attempts /\ s.lockedBy = r.lockedBy
            /\ s.lastError = r.lastError
<1>1. CASE r.status = "absent" /\ s = [r EXCEPT !.status = "pending"]
  BY <1>1 DEF Row
<1>2. CASE Due(r) /\ \E w \in Workers : s = Claimed(r, w)
  BY <1>2 DEF Row, Due, Claimed
<1>3. CASE r.status = "processing" /\ s = Completed(r)
  BY <1>3 DEF Row, Completed
<1>4. ASSUME r.status = "processing", NEW delay, NEW reason, reason # "none",
             s = Returned(r, delay, reason)
      PROVE  /\ s.status = IF r.attempts >= MaxAttempts THEN "dead_letter" ELSE "failed"
             /\ s.attempts = r.attempts /\ s.lockedBy = NoWorker
             /\ s.lastError # "none"
  BY <1>4 DEF Row, Returned, Exhausted
<1>5. CASE r.status = "processing" /\ s = Failed(r)
  BY <1>4, <1>5 DEF Failed
<1>6. CASE LockExpired(r) /\ s = Expired(r)
  <2>1. (IF r.lastError = "none" THEN "lock expired" ELSE r.lastError) # "none"
    OBVIOUS
  <2>2. r.status = "processing"
    BY <1>6 DEF LockExpired
  <2>3. QED
    BY <1>4, <1>6, <2>1, <2>2 DEF Expired
<1>7. CASE s = Aged(r)
  <2>1. CASE r.status \in {"pending", "failed", "processing"}
    BY <1>7, <2>1 DEF Aged, Row
  <2>2. CASE r.status \notin {"pending", "failed", "processing"}
    <3> DEFINE r1 == [r EXCEPT !.due = r.due]
    <3>1. s = [r1 EXCEPT !.age = r.age]
      BY <1>7, <2>2 DEF Aged
    <3>2. r1 = r
      BY DEF Row
    <3>3. [r EXCEPT !.age = r.age] = r
      BY DEF Row
    <3>4. QED
      BY <3>1, <3>2, <3>3
  <2>3. QED
    BY <2>1, <2>2
<1>8. QED
  BY <1>1, <1>2, <1>3, <1>5, <1>6, <1>7 DEF RowStep

-----------------------------------------------------------------------------
(***************************************************************************)
(* The attempt budget.  AttemptBudget is inductive as it stands, with the  *)
(* types: a row only gains an attempt when it is claimed, and it is only   *)
(* claimed with an attempt left.                                           *)
(***************************************************************************)

LEMMA InitBudget == Init => AttemptBudget
BY TimingAssumption DEF Init, AttemptBudget

LEMMA NextBudget == TypeOK /\ AttemptBudget /\ [Next]_vars => AttemptBudget'
<1> SUFFICES ASSUME TypeOK, AttemptBudget, [Next]_vars, NEW e \in Events
             PROVE  /\ row'[e].attempts <= MaxAttempts
                    /\ row'[e].status \in {"absent", "pending"} => row'[e].attempts = 0
                    /\ row'[e].status = "failed" => row'[e].attempts < MaxAttempts
                    /\ row'[e].status = "dead_letter" =>
                         row'[e].attempts = MaxAttempts /\ row'[e].lastError # "none"
  BY DEF AttemptBudget
<1> DEFINE r == row[e]
           s == row'[e]
<1>1. r \in Row /\ r.attempts \in Nat
  BY DEF TypeOK, Row
<1>2. RowStep(r, s)
  BY NextRows
<1>3. /\ r.attempts <= MaxAttempts
      /\ r.status \in {"absent", "pending"} => r.attempts = 0
      /\ r.status = "failed" => r.attempts < MaxAttempts
      /\ r.status = "dead_letter" => r.attempts = MaxAttempts /\ r.lastError # "none"
  BY DEF AttemptBudget
<1> HIDE DEF r, s
<1>4. QED
  BY <1>1, <1>2, <1>3, RowStepFields, TimingAssumption DEF r, s

\* No interleaving of claims, late marks, reaped locks and crashes takes a
\* record over maxAttempts, dead-letters it early, or leaves it waiting with no
\* attempt left (fail and expireLock of transitions.ts agree on the budget).
THEOREM AttemptsWithinBudget == Spec => []AttemptBudget
<1>1. QED
  BY InitBudget, NextBudget, TypeCorrect, PTL DEF Spec

-----------------------------------------------------------------------------
(***************************************************************************)
(* Settled records.                                                        *)
(***************************************************************************)

LEMMA NextSettled ==
  ASSUME TypeOK, [Next]_vars, NEW e \in Events
  PROVE  /\ row[e].status \in Terminal => row'[e] = row[e]
         /\ row'[e].attempts >= row[e].attempts
<1> DEFINE r == row[e]
           s == row'[e]
<1>1. r \in Row /\ r.attempts \in Nat
  BY DEF TypeOK, Row
<1>2. RowStep(r, s)
  BY NextRows
<1> HIDE DEF r, s
<1>3. QED
  BY <1>1, <1>2, RowStepFields DEF r, s, Terminal

\* A processed or dead-lettered row is never written again, whatever late
\* answer arrives, and no attempt is ever handed back.
THEOREM SettledRowsStay == Spec => SettledForGood
<1>1. TypeOK /\ [Next]_vars =>
        [\A e \in Events :
           /\ row[e].status \in Terminal => row'[e] = row[e]
           /\ row'[e].attempts >= row[e].attempts]_vars
  BY NextSettled
<1>2. QED
  BY <1>1, TypeCorrect, PTL DEF Spec, SettledForGood

-----------------------------------------------------------------------------
(***************************************************************************)
(* Delivery.  A row becomes processed through a worker that remembers a    *)
(* successful handler run, so what workers remember joins the invariant.   *)
(***************************************************************************)

SuccessIsDelivered ==
  \A w \in Workers, e \in Events : held[w][e] = "succeeded" => e \in delivered

LEMMA InitDelivery == Init => SuccessIsDelivered /\ ProcessedWasDelivered
BY DEF Init, SuccessIsDelivered, ProcessedWasDelivered, HoldsNothing

LEMMA NextSuccess == TypeOK /\ SuccessIsDelivered /\ [Next]_vars => SuccessIsDelivered'
<1> SUFFICES ASSUME TypeOK, SuccessIsDelivered, [Next]_vars PROVE SuccessIsDelivered'
  OBVIOUS
<1> USE DEF SuccessIsDelivered, TypeOK
<1>1. ASSUME NEW e \in Events, Enqueue(e) PROVE SuccessIsDelivered'
  BY <1>1 DEF Enqueue
<1>2. ASSUME NEW w \in Workers, Reap(w) PROVE SuccessIsDelivered'
  BY <1>2 DEF Reap, ReapExpired
<1>3. ASSUME NEW w \in Workers, Claim(w) PROVE SuccessIsDelivered'
  BY <1>3 DEF Claim, ClaimBatch
<1>4. ASSUME NEW w \in Workers, Handles(w) PROVE SuccessIsDelivered'
  BY <1>4 DEF Handles, Handle
<1>5. ASSUME NEW w \in Workers, Mark(w) PROVE SuccessIsDelivered'
  <2>1. PICK e \in Events : held' = [held EXCEPT ![w][e] = "no"]
    BY <1>5 DEF Mark, MarkProcessed, MarkFailed
  <2>2. delivered' = delivered
    BY <1>5 DEF Mark, MarkProcessed, MarkFailed
  <2>3. QED
    BY <2>1, <2>2
<1>6. ASSUME NEW w \in Workers, Crash(w) \/ Restart(w) PROVE SuccessIsDelivered'
  <2>1. \A e \in Events : HoldsNothing[e] # "succeeded"
    BY DEF HoldsNothing
  <2>2. CASE Crash(w)
    BY <2>1, <2>2 DEF Crash
  <2>3. CASE Restart(w)
    BY <2>3 DEF Restart
  <2>4. QED
    BY <1>6, <2>2, <2>3
<1>7. CASE Tick \/ UNCHANGED vars
  BY <1>7 DEF Tick, vars
<1>8. QED
  BY <1>1, <1>2, <1>3, <1>4, <1>5, <1>6, <1>7 DEF Next

\* A row that becomes processed was marked by a worker whose run succeeded.
LEMMA ProcessedByMark ==
  ASSUME TypeOK, [Next]_vars, NEW e \in Events,
         row'[e].status = "processed", row[e].status # "processed"
  PROVE  \E w \in Workers : held[w][e] = "succeeded"
<1>0. row \in [Events -> Row] /\ row[e] \in Row
  BY DEF TypeOK
<1>1. row[e].status = "processing" /\ row'[e].lockedBy = NoWorker
  BY <1>0, NextRows, RowStepFields
<1>2. ~ \E d \in Events : Enqueue(d)
  BY <1>0, <1>1 DEF Enqueue
<1>3. ASSUME NEW w \in Workers, Reap(w) PROVE FALSE
  <2> PICK chosen \in SUBSET Events : ReapExpired(w, chosen)
    BY <1>3 DEF Reap
  <2>1. row'[e] = row[e] \/ row'[e] = Expired(row[e])
    BY <1>0 DEF ReapExpired
  <2>2. Expired(row[e]).status \in {"dead_letter", "failed"}
    BY <1>0 DEF Expired, Returned, Row
  <2>3. QED
    BY <2>1, <2>2
<1>4. ASSUME NEW w \in Workers, Claim(w) PROVE FALSE
  <2> PICK chosen \in SUBSET Events : ClaimBatch(w, chosen)
    BY <1>4 DEF Claim
  <2>1. row'[e] = row[e] \/ row'[e] = Claimed(row[e], w)
    BY <1>0 DEF ClaimBatch
  <2>2. Claimed(row[e], w).status = "processing"
    BY <1>0 DEF Claimed, Row
  <2>3. QED
    BY <2>1, <2>2
<1>5. ASSUME NEW w \in Workers, Mark(w) PROVE held[w][e] = "succeeded"
  <2> PICK d \in Events : MarkProcessed(w, d) \/ MarkFailed(w, d)
    BY <1>5 DEF Mark
  <2>1. CASE MarkProcessed(w, d)
    BY <1>0, <2>1 DEF MarkProcessed
  <2>2. CASE MarkFailed(w, d)
    <3>1. row'[e] = row[e] \/ row'[e] = Failed(row[e])
      BY <1>0, <2>2 DEF MarkFailed
    <3>2. Failed(row[e]).status \in {"dead_letter", "failed"}
      BY <1>0 DEF Failed, Returned, Row
    <3>3. QED
      BY <3>1, <3>2
  <2>3. QED
    BY <2>1, <2>2
<1>6. ASSUME NEW w \in Workers, Handles(w) \/ Crash(w) \/ Restart(w) PROVE FALSE
  BY <1>6 DEF Handles, Handle, Crash, Restart
<1>7. ASSUME Tick PROVE FALSE
  <2>1. row'[e] = Aged(row[e])
    BY <1>7 DEF Tick
  <2>2. Aged(row[e]).status = row[e].status
    BY <1>0 DEF Aged, Row
  <2>3. QED
    BY <2>1, <2>2
<1>8. ~ UNCHANGED vars
  BY DEF vars
<1>9. QED
  BY <1>2, <1>3, <1>4, <1>5, <1>6, <1>7, <1>8 DEF Next

LEMMA DeliveredGrows == [Next]_vars => delivered \subseteq delivered'
BY DEF Next, vars, Enqueue, Reap, ReapExpired, Claim, ClaimBatch, Handles, Handle,
       Mark, MarkProcessed, MarkFailed, Crash, Restart, Tick

LEMMA NextDelivery ==
  TypeOK /\ SuccessIsDelivered /\ ProcessedWasDelivered /\ [Next]_vars
    => ProcessedWasDelivered'
BY ProcessedByMark, DeliveredGrows DEF ProcessedWasDelivered, SuccessIsDelivered

\* Nothing is lost by being marked done: markProcessed never looks at who holds
\* the lock, and still a processed row had a handler run that succeeded.
THEOREM ProcessedRowsWereDelivered == Spec => []ProcessedWasDelivered
<1>1. Spec => []SuccessIsDelivered
  BY InitDelivery, NextSuccess, TypeCorrect, PTL DEF Spec
<1>2. QED
  BY <1>1, InitDelivery, NextDelivery, TypeCorrect, PTL DEF Spec

-----------------------------------------------------------------------------
(***************************************************************************)
(* Locks.  A worker about to claim holds nothing, so a claim never drops a *)
(* record the worker still has locked.                                     *)
(***************************************************************************)

ClaimingHoldsNothing == \A w \in Workers : pc[w] = "claim" => held[w] = HoldsNothing

LEMMA InitLocks == Init => ClaimingHoldsNothing /\ LockAgreesWithHolder
BY WorkersAssumption DEF Init, ClaimingHoldsNothing, LockAgreesWithHolder

LEMMA NextClaiming == TypeOK /\ ClaimingHoldsNothing /\ [Next]_vars => ClaimingHoldsNothing'
<1> SUFFICES ASSUME TypeOK, ClaimingHoldsNothing, [Next]_vars PROVE ClaimingHoldsNothing'
  OBVIOUS
<1> USE DEF ClaimingHoldsNothing, TypeOK
<1>1. ASSUME NEW w \in Workers, Reap(w) PROVE ClaimingHoldsNothing'
  BY <1>1 DEF Reap, ReapExpired
<1>2. ASSUME NEW w \in Workers, Claim(w) PROVE ClaimingHoldsNothing'
  BY <1>2 DEF Claim, ClaimBatch
<1>3. ASSUME NEW w \in Workers, Handles(w) \/ Mark(w) PROVE ClaimingHoldsNothing'
  <2>1. PICK e \in Events : held[w][e] # "no"
    BY <1>3 DEF Handles, Handle, Mark, MarkProcessed, MarkFailed
  <2>2. held[w] # HoldsNothing
    BY <2>1 DEF HoldsNothing
  <2>3. pc' = pc /\ \A v \in Workers \ {w} : held'[v] = held[v]
    BY <1>3 DEF Handles, Handle, Mark, MarkProcessed, MarkFailed
  <2>4. QED
    BY <2>2, <2>3
<1>4. ASSUME NEW w \in Workers, Crash(w) \/ Restart(w) PROVE ClaimingHoldsNothing'
  BY <1>4 DEF Crash, Restart
<1>5. CASE UNCHANGED <<held, pc>>
  BY <1>5
<1>6. QED
  BY <1>1, <1>2, <1>3, <1>4, <1>5 DEF Next, Enqueue, Tick, vars

LEMMA NextLocks ==
  TypeOK /\ ClaimingHoldsNothing /\ LockAgreesWithHolder /\ [Next]_vars
    => LockAgreesWithHolder'
<1> SUFFICES ASSUME TypeOK, ClaimingHoldsNothing, LockAgreesWithHolder, [Next]_vars,
                    NEW e \in Events
             PROVE  /\ (row'[e].status = "processing") <=> (row'[e].lockedBy # NoWorker)
                    /\ \A w \in Workers :
                         row'[e].lockedBy = w /\ crashes' = 0 => held'[w][e] # "no"
  BY DEF LockAgreesWithHolder
<1>0. /\ row \in [Events -> Row] /\ row[e] \in Row /\ crashes \in Nat
      /\ held \in [Workers -> [Events -> {"no", "working", "succeeded", "failed"}]]
  BY DEF TypeOK
<1>1. /\ (row[e].status = "processing") <=> (row[e].lockedBy # NoWorker)
      /\ \A w \in Workers : row[e].lockedBy = w /\ crashes = 0 => held[w][e] # "no"
  BY DEF LockAgreesWithHolder
<1>2. (row'[e].status = "processing") <=> (row'[e].lockedBy # NoWorker)
  <2> DEFINE r == row[e]
             s == row'[e]
  <2>1. r \in Row /\ RowStep(r, s) /\ ((r.status = "processing") <=> (r.lockedBy # NoWorker))
    BY <1>0, <1>1, NextRows
  <2> HIDE DEF r, s
  <2>2. (s.status = "processing") <=> (s.lockedBy # NoWorker)
    BY <2>1, RowStepFields, WorkersAssumption
  <2>3. QED
    BY <2>2 DEF s
<1>3. ASSUME NEW w \in Workers, row'[e].lockedBy = w, crashes' = 0
      PROVE  held'[w][e] # "no"
  <2>0. w # NoWorker
    BY WorkersAssumption
  <2>1. ASSUME row'[e].lockedBy = row[e].lockedBy \/ row'[e].lockedBy = NoWorker,
               held'[w] = held[w], crashes' = crashes
        PROVE  held'[w][e] # "no"
    BY <1>1, <1>3, <2>0, <2>1
  <2>2. ASSUME NEW d \in Events, Enqueue(d) PROVE held'[w][e] # "no"
    <3>1. row'[e].lockedBy = row[e].lockedBy
      BY <1>0, <2>2 DEF Enqueue, Row
    <3>2. QED
      BY <2>1, <2>2, <3>1 DEF Enqueue
  <2>3. ASSUME NEW v \in Workers, Reap(v) PROVE held'[w][e] # "no"
    <3> PICK chosen \in SUBSET Events : ReapExpired(v, chosen)
      BY <2>3 DEF Reap
    <3>1. row'[e] = row[e] \/ row'[e] = Expired(row[e])
      BY <1>0 DEF ReapExpired
    <3>2. Expired(row[e]).lockedBy = NoWorker
      BY <1>0 DEF Expired, Returned, Row
    <3>3. QED
      BY <2>1, <3>1, <3>2 DEF ReapExpired
  <2>4. ASSUME NEW v \in Workers, Claim(v) PROVE held'[w][e] # "no"
    <3> PICK chosen \in SUBSET Events : ClaimBatch(v, chosen)
      BY <2>4 DEF Claim
    <3>1. CASE e \in chosen
      <4>1. row'[e] = Claimed(row[e], v)
        BY <1>0, <3>1 DEF ClaimBatch
      <4>2. Claimed(row[e], v).lockedBy = v
        BY <1>0 DEF Claimed, Row
      <4>3. held'[v][e] = "working"
        BY <1>0, <3>1 DEF ClaimBatch
      <4>4. QED
        BY <1>3, <4>1, <4>2, <4>3
    <3>2. CASE e \notin chosen
      <4>1. row'[e] = row[e] /\ crashes' = crashes
        BY <1>0, <3>2 DEF ClaimBatch
      <4>2. held[w][e] # "no"
        BY <1>1, <1>3, <4>1
      <4>3. held[v][e] = "no"
        BY DEF ClaimBatch, ClaimingHoldsNothing, HoldsNothing
      <4>4. held'[w] = held[w]
        BY <1>0, <4>2, <4>3 DEF ClaimBatch
      <4>5. QED
        BY <4>2, <4>4
    <3>3. QED
      BY <3>1, <3>2
  <2>5. ASSUME NEW v \in Workers, Handles(v) PROVE held'[w][e] # "no"
    <3>1. held[w][e] # "no"
      BY <1>1, <1>3, <2>5 DEF Handles, Handle
    <3>2. QED
      BY <1>0, <2>5, <3>1 DEF Handles, Handle
  <2>6. ASSUME NEW v \in Workers, Mark(v) PROVE held'[w][e] # "no"
    <3> PICK d \in Events : MarkProcessed(v, d) \/ MarkFailed(v, d)
      BY <2>6 DEF Mark
    <3>1. CASE d = e
      <4>1. row[e].status # "processing" => row'[e] = row[e]
        BY <1>0, <3>1 DEF MarkProcessed, MarkFailed
      <4>2. row[e].status = "processing" =>
              row'[e] = Completed(row[e]) \/ row'[e] = Failed(row[e])
        BY <1>0, <3>1 DEF MarkProcessed, MarkFailed
      <4>3. Completed(row[e]).lockedBy = NoWorker /\ Failed(row[e]).lockedBy = NoWorker
        BY <1>0 DEF Completed, Failed, Returned, Row
      <4>4. row'[e].lockedBy = NoWorker
        BY <1>1, <4>1, <4>2, <4>3
      <4>5. QED
        BY <1>3, <2>0, <4>4
    <3>2. CASE d # e
      <4>1. row'[e] = row[e] /\ crashes' = crashes
        BY <1>0, <3>2 DEF MarkProcessed, MarkFailed
      <4>2. held' = [held EXCEPT ![v][d] = "no"]
        BY DEF MarkProcessed, MarkFailed
      <4>3. held'[w][e] = held[w][e]
        BY <1>0, <3>2, <4>2
      <4>4. QED
        BY <1>1, <1>3, <4>1, <4>3
    <3>3. QED
      BY <3>1, <3>2
  <2>7. ASSUME NEW v \in Workers, Crash(v) \/ Restart(v) PROVE held'[w][e] # "no"
    <3>1. ~ Crash(v)
      BY <1>0, <1>3 DEF Crash
    <3>2. QED
      BY <2>1, <2>7, <3>1 DEF Restart
  <2>8. ASSUME Tick PROVE held'[w][e] # "no"
    <3>1. row'[e] = Aged(row[e])
      BY <2>8 DEF Tick
    <3>2. Aged(row[e]).lockedBy = row[e].lockedBy
      BY <1>0 DEF Aged, Row
    <3>3. QED
      BY <2>1, <2>8, <3>1, <3>2 DEF Tick
  <2>9. ASSUME UNCHANGED vars PROVE held'[w][e] # "no"
    BY <2>1, <2>9 DEF vars
  <2>10. QED
    BY <2>2, <2>3, <2>4, <2>5, <2>6, <2>7, <2>8, <2>9 DEF Next
<1>4. QED
  BY <1>2, <1>3

\* Locks and statuses agree at every moment, and until a worker crashes the
\* holder of a lock knows of it: no poll forgets a record it claimed.
THEOREM LocksAgree == Spec => []LockAgreesWithHolder
<1>1. Spec => []ClaimingHoldsNothing
  BY InitLocks, NextClaiming, TypeCorrect, PTL DEF Spec
<1>2. QED
  BY <1>1, InitLocks, NextLocks, TypeCorrect, PTL DEF Spec

=============================================================================
