------------------------------- MODULE Outbox -------------------------------
(***************************************************************************)
(* The transactional outbox: the records of packages/shared/src/outbox,    *)
(* their PostgreSQL repository (packages/database/src/repositories/        *)
(* outbox.ts), and the workers that drain it.  The worker is a stub in     *)
(* this repository; its loop is the one the OutboxRepository contract      *)
(* demands: on each poll reapExpired, then claimBatch, then one handler    *)
(* run and one mark per claimed record.                                    *)
(*                                                                         *)
(* A repository method is one transaction holding the locks of the rows it *)
(* touches, so it is one action, and SKIP LOCKED has nothing to skip.      *)
(* Workers crash between any two actions and forget what they hold.  Times *)
(* are kept relative to now, in ticks: due is nextAttemptAt - now, age is  *)
(* now - lockedAt; both stop counting where more makes no difference.  All *)
(* workers read the same clock.                                            *)
(***************************************************************************)
EXTENDS Integers, FiniteSets

CONSTANTS
  Events,             \* event ids; a row carries one event
  Workers,
  NoWorker,           \* lockedBy = null
  MaxAttempts,        \* OutboxRecord.maxAttempts
  BaseBackoff,        \* BASE_BACKOFF_MS, in ticks
  MaxBackoff,         \* MAX_BACKOFF_MS, in ticks
  VisibilityTimeout,  \* VISIBILITY_TIMEOUT_MS, in ticks
  BatchLimit,         \* the limit argument of claimBatch and reapExpired
  MaxOverdue,         \* bound: how long overdue a row is told from another
  MaxCrashes          \* bound: worker crashes in a behaviour

ASSUME WorkersAssumption == NoWorker \notin Workers

ASSUME TimingAssumption ==
  /\ MaxAttempts \in Nat \ {0}
  /\ BaseBackoff \in Nat \ {0}
  /\ MaxBackoff \in Nat /\ BaseBackoff <= MaxBackoff
  /\ VisibilityTimeout \in Nat \ {0}

ASSUME BoundsAssumption ==
  BatchLimit \in Nat \ {0} /\ MaxOverdue \in Nat /\ MaxCrashes \in Nat

VARIABLES
  row,        \* the outbox table, by event
  held,       \* [worker][event]: what the worker knows of a record it claimed
  pc,         \* where each worker is in its poll
  crashes,    \* crashes so far
  delivered   \* events some handler run has succeeded for (history)

vars == <<row, held, pc, crashes, delivered>>

Terminal == {"processed", "dead_letter"}

Reasons == {"none", "handler failed", "lock expired"}

Row ==
  [status : {"absent", "pending", "processing", "failed"} \cup Terminal,
   attempts : Nat, due : Int, lockedBy : Workers \cup {NoWorker},
   age : 0..VisibilityTimeout, lastError : Reasons]

TypeOK ==
  /\ row \in [Events -> Row]
  /\ held \in [Workers -> [Events -> {"no", "working", "succeeded", "failed"}]]
  /\ pc \in [Workers -> {"reap", "claim", "down"}]
  /\ crashes \in Nat
  /\ delivered \subseteq Events

HoldsNothing == [e \in Events |-> "no"]

Init ==
  /\ row = [e \in Events |->
       [status |-> "absent", attempts |-> 0, due |-> 0,
        lockedBy |-> NoWorker, age |-> 0, lastError |-> "none"]]
  /\ held = [w \in Workers |-> HoldsNothing]
  /\ pc = [w \in Workers |-> "reap"]
  /\ crashes = 0
  /\ delivered = {}

-----------------------------------------------------------------------------
(***************************************************************************)
(* outbox.v1.0.0, the pure transitions on one record.                      *)
(***************************************************************************)

AtMost(x, y) == IF x <= y THEN x ELSE y

\* Exponential backoff after the given number of attempts, capped.
BackoffMs(attempts) ==
  LET doublings == IF attempts > 0 THEN attempts - 1 ELSE 0
  IN  AtMost(BaseBackoff * 2 ^ doublings, MaxBackoff)

\* Mutant: a failed record is never due again.
DueOnce(r) == r.status = "pending" /\ r.due <= 0

Due(r) == r.status \in {"pending", "failed"} /\ r.due <= 0

Claimed(r, w) ==
  [r EXCEPT !.status = "processing", !.attempts = @ + 1, !.lockedBy = w, !.age = 0]

Completed(r) ==
  [r EXCEPT !.status = "processed", !.lockedBy = NoWorker, !.age = 0]

\* Mutant: one attempt too many.
ExhaustedLate(r) == r.attempts > MaxAttempts

Exhausted(r) == r.attempts >= MaxAttempts

\* Back to the retry path in `delay` ticks, or dead once attempts run out.
Returned(r, delay, reason) ==
  [r EXCEPT !.status = IF Exhausted(r) THEN "dead_letter" ELSE "failed",
            !.due = IF Exhausted(r) THEN @ ELSE delay,
            !.lastError = reason, !.lockedBy = NoWorker, !.age = 0]

Failed(r) == Returned(r, BackoffMs(r.attempts), "handler failed")

LockExpired(r) == r.status = "processing" /\ r.age >= VisibilityTimeout

\* An expired lock keeps the reason of an earlier failure.
Expired(r) ==
  Returned(r, 0, IF r.lastError = "none" THEN "lock expired" ELSE r.lastError)

-----------------------------------------------------------------------------
(***************************************************************************)
(* The repository.                                                         *)
(***************************************************************************)

\* The `limit` first rows of a set, by a time; rows of equal time in any order.
FirstRows(candidates, chosen, time) ==
  /\ chosen \subseteq candidates
  /\ Cardinality(chosen) = AtMost(BatchLimit, Cardinality(candidates))
  /\ \A e \in chosen, other \in candidates \ chosen : time[e] <= time[other]

\* The producer's transaction commits; it inserts nothing for a known event.
Enqueue(e) ==
  /\ row[e].status = "absent"
  /\ row' = [row EXCEPT ![e].status = "pending"]
  /\ UNCHANGED <<held, pc, crashes, delivered>>

\* reapExpired: the rows longest locked first.
ReapExpired(w, chosen) ==
  LET longestLocked == [e \in Events |-> 0 - row[e].age]
  IN  /\ pc[w] = "reap"
      /\ held[w] = HoldsNothing
      /\ FirstRows({e \in Events : LockExpired(row[e])}, chosen, longestLocked)
      /\ row' = [e \in Events |-> IF e \in chosen THEN Expired(row[e]) ELSE row[e]]
      /\ pc' = [pc EXCEPT ![w] = "claim"]
      /\ UNCHANGED <<held, crashes, delivered>>

\* claimBatch: the rows longest due first.
ClaimBatch(w, chosen) ==
  LET longestDue == [e \in Events |-> row[e].due]
  IN  /\ pc[w] = "claim"
      /\ FirstRows({e \in Events : Due(row[e])}, chosen, longestDue)
      /\ row' = [e \in Events |-> IF e \in chosen THEN Claimed(row[e], w) ELSE row[e]]
      /\ held' = [held EXCEPT ![w] = [e \in Events |-> IF e \in chosen THEN "working" ELSE "no"]]
      /\ pc' = [pc EXCEPT ![w] = "reap"]
      /\ UNCHANGED <<crashes, delivered>>

\* The worker runs the handler of a record it claimed.
Handle(w, e, succeeds) ==
  /\ held[w][e] = "working"
  /\ held' = [held EXCEPT ![w][e] = IF succeeds THEN "succeeded" ELSE "failed"]
  /\ delivered' = IF succeeds THEN delivered \cup {e} ELSE delivered
  /\ UNCHANGED <<row, pc, crashes>>

\* Mutant: the record is marked before its handler has run.
MarkBeforeHandling(w, e) ==
  /\ held[w][e] # "no"
  /\ row' = IF row[e].status = "processing"
            THEN [row EXCEPT ![e] = Completed(@)] ELSE row
  /\ held' = [held EXCEPT ![w][e] = "no"]
  /\ UNCHANGED <<pc, crashes, delivered>>

\* markProcessed: looks at the status of the row, not at who locked it; throws
\* when the row is not processing, and the worker drops the record.
MarkProcessed(w, e) ==
  /\ held[w][e] = "succeeded"
  /\ row' = IF row[e].status = "processing"
            THEN [row EXCEPT ![e] = Completed(@)] ELSE row
  /\ held' = [held EXCEPT ![w][e] = "no"]
  /\ UNCHANGED <<pc, crashes, delivered>>

\* Mutant: a late failure is written whatever the row has become.
MarkFailedBlindly(w, e) ==
  /\ held[w][e] = "failed"
  /\ row' = [row EXCEPT ![e] = Failed(@)]
  /\ held' = [held EXCEPT ![w][e] = "no"]
  /\ UNCHANGED <<pc, crashes, delivered>>

\* markFailed: the same.
MarkFailed(w, e) ==
  /\ held[w][e] = "failed"
  /\ row' = IF row[e].status = "processing"
            THEN [row EXCEPT ![e] = Failed(@)] ELSE row
  /\ held' = [held EXCEPT ![w][e] = "no"]
  /\ UNCHANGED <<pc, crashes, delivered>>

Crash(w) ==
  /\ crashes < MaxCrashes
  /\ pc[w] # "down"
  /\ crashes' = crashes + 1
  /\ pc' = [pc EXCEPT ![w] = "down"]
  /\ held' = [held EXCEPT ![w] = HoldsNothing]
  /\ UNCHANGED <<row, delivered>>

Restart(w) ==
  /\ pc[w] = "down"
  /\ pc' = [pc EXCEPT ![w] = "reap"]
  /\ UNCHANGED <<row, held, crashes, delivered>>

\* One tick of time for every row that is waiting or locked.
Aged(r) ==
  [r EXCEPT !.due = IF r.status \in {"pending", "failed"} /\ -MaxOverdue < r.due
                    THEN @ - 1 ELSE @,
            !.age = IF r.status = "processing" /\ r.age < VisibilityTimeout
                    THEN @ + 1 ELSE @]

Tick ==
  /\ row' = [e \in Events |-> Aged(row[e])]
  /\ row' # row
  /\ UNCHANGED <<held, pc, crashes, delivered>>

-----------------------------------------------------------------------------

Reap(w) == \E chosen \in SUBSET Events : ReapExpired(w, chosen)
Claim(w) == \E chosen \in SUBSET Events : ClaimBatch(w, chosen)
Mark(w) == \E e \in Events : MarkProcessed(w, e) \/ MarkFailed(w, e)
Handles(w) == \E e \in Events, succeeds \in BOOLEAN : Handle(w, e, succeeds)

Next ==
  \/ \E e \in Events : Enqueue(e)
  \/ \E w \in Workers : Reap(w) \/ Claim(w) \/ Handles(w) \/ Mark(w) \/ Crash(w) \/ Restart(w)
  \/ Tick

Spec == Init /\ [][Next]_vars

(***************************************************************************)
(* Time passes; a worker that is up keeps polling (the outbox-dispatch job *)
(* runs every minute), its handlers end one way or the other, it marks     *)
(* what it handled, and a worker that crashed is restarted.  Nothing obliges *)
(* a producer to commit, a handler to succeed, or a worker to crash.       *)
(***************************************************************************)
Fairness ==
  /\ WF_vars(Tick)
  /\ \A w \in Workers :
       /\ WF_vars(Reap(w))
       /\ WF_vars(Claim(w))
       /\ WF_vars(Handles(w))
       /\ WF_vars(Mark(w))
       /\ WF_vars(Restart(w))

FairSpec == Spec /\ Fairness

-----------------------------------------------------------------------------
(***************************************************************************)
(* Properties.                                                             *)
(***************************************************************************)

\* Nothing is lost by being marked done: an event is processed only if some
\* handler run for it succeeded, also when the worker that marks it lost its
\* claim to another one long ago.
ProcessedWasDelivered ==
  \A e \in Events : row[e].status = "processed" => e \in delivered

\* The attempts of a record never run over its budget, and it is dead-lettered
\* exactly at the last one, with a reason, whether it failed or its worker
\* crashed: a waiting record always has an attempt left, so no record is
\* stranded between retrying and dead.
AttemptBudget ==
  \A e \in Events :
    /\ row[e].attempts <= MaxAttempts
    /\ row[e].status \in {"absent", "pending"} => row[e].attempts = 0
    /\ row[e].status = "failed" => row[e].attempts < MaxAttempts
    /\ row[e].status = "dead_letter" =>
         row[e].attempts = MaxAttempts /\ row[e].lastError # "none"

\* A record is locked exactly while it is processing, and a worker that is up
\* and still holds the lock of a record knows that it does.
LockAgreesWithHolder ==
  \A e \in Events :
    /\ (row[e].status = "processing") <=> (row[e].lockedBy # NoWorker)
    /\ \A w \in Workers :
         row[e].lockedBy = w /\ crashes = 0 => held[w][e] # "no"

\* No late answer revives or rewrites a settled record: processed and
\* dead-lettered rows never change, and attempts are never given back.
SettledForGood ==
  [][\A e \in Events :
       /\ row[e].status \in Terminal => row'[e] = row[e]
       /\ row'[e].attempts >= row[e].attempts]_vars

\* At-least-once: a committed event is eventually processed or dead-lettered,
\* through handler failures, crashes between claim and mark, and lost locks.
EveryEventSettles ==
  \A e \in Events : row[e].status = "pending" ~> row[e].status \in Terminal
=============================================================================
