---------------------------- MODULE ClientGoals ----------------------------
(***************************************************************************)
(* What a client works toward in AfloStore: goals, Wealth Academy lessons  *)
(* and the round-up simulator.  Synchronous calls by members; titles,      *)
(* dates and labels are valid, and left out with the audit log and the     *)
(* events.  A row is its place in its table.                               *)
(***************************************************************************)
EXTENDS ReadinessKernel

CONSTANTS
  Learners,      \* clients of the organization
  Triggers,      \* education triggers that occur
  Percents,      \* values of a goal's progress
  Amounts,       \* of hypothetical transactions, in cents
  RoundUps,      \* round-up boundaries that are configured, in cents
  GoalRows       \* bound: the goals, assignments and transactions of all clients

ASSUME GoalsAssumption ==
  /\ Percents \subseteq 0..100 /\ Amounts \subseteq Nat \ {0} /\ RoundUps \subseteq Nat \ {0}

VARIABLES
  goals,          \* goals
  lessons,        \* educationAssignments
  settings,       \* simulationSettings, by client
  transactions    \* virtualTransactions

goalVars == <<goals, lessons, settings, transactions>>

NoSettings == [enabled |-> "none"]

GoalsInit ==
  /\ goals = <<>> /\ lessons = <<>> /\ transactions = <<>>
  /\ settings = [c \in Learners |-> NoSettings]

TRIGGER_MAP ==
  [high_utilization |-> "lsn-utilization", incomplete_intake |-> "lsn-intake",
   missing_document |-> "lsn-documents", missed_action |-> "lsn-habits",
   appointment_preparation |-> "lsn-appointment", capital_readiness_preparation |-> "lsn-capital",
   possible_commingling |-> "lsn-commingling", roadmap_approved |-> "lsn-roadmap"]

\* The lessons of ACADEMY_LIBRARY that carry one.
HasKnowledgeCheck(lesson) == lesson \in {"lsn-utilization", "lsn-habits", "lsn-capital"}

\* scoreKnowledgeCheck, in thousandths.
KnowledgeScore(correct, total) ==
  IF total <= 0 \/ correct > total THEN 0 ELSE (2000 * correct + total) \div (2 * total)

-----------------------------------------------------------------------------

\* createGoal: a primary demotes the others of the client.
CreateGoal(c, primary) ==
  /\ goals' = Append(
       [k \in DOMAIN goals |->
          IF primary /\ goals[k].client = c THEN [goals[k] EXCEPT !.primary = FALSE] ELSE goals[k]],
       [client |-> c, primary |-> primary, progress |-> 0])
  /\ UNCHANGED <<lessons, settings, transactions>>

UpdateGoalProgress(k, percent) ==
  /\ goals' = [goals EXCEPT ![k].progress = percent]
  /\ UNCHANGED <<lessons, settings, transactions>>

SetPrimaryGoal(k) ==
  /\ goals' = [j \in DOMAIN goals |->
       IF goals[j].client = goals[k].client THEN [goals[j] EXCEPT !.primary = j = k] ELSE goals[j]]
  /\ UNCHANGED <<lessons, settings, transactions>>

OpenAssignments(c, lesson) ==
  {k \in DOMAIN lessons : lessons[k].client = c /\ lessons[k].lesson = lesson /\ ~lessons[k].completed}

\* assignEducation: an open assignment of the lesson is returned as it is.
AssignEducation(c, trigger) ==
  /\ OpenAssignments(c, TRIGGER_MAP[trigger]) = {}
  /\ lessons' = Append(lessons,
       [client |-> c, lesson |-> TRIGGER_MAP[trigger], completed |-> FALSE, score |-> <<>>])
  /\ UNCHANGED <<goals, settings, transactions>>

\* completeEducation: scored when the lesson has a check and it was taken.
CompleteEducation(k, taken, correct, total) ==
  /\ ~lessons[k].completed
  /\ lessons' = [lessons EXCEPT ![k].completed = TRUE,
       ![k].score = IF taken /\ HasKnowledgeCheck(lessons[k].lesson)
                    THEN <<KnowledgeScore(correct, total)>> ELSE <<>>]
  /\ UNCHANGED <<goals, settings, transactions>>

\* configureSimulation: the transactions keep the round-up they were given.
ConfigureSimulation(c, roundTo, multiplier, enabled) ==
  /\ settings' = [settings EXCEPT ![c] =
       [enabled |-> enabled, roundTo |-> roundTo, multiplier |-> multiplier]]
  /\ UNCHANGED <<goals, lessons, transactions>>

DEFAULT_SETTINGS == [enabled |-> TRUE, roundTo |-> 100, multiplier |-> 1]

\* addVirtualTransaction: under the settings of the client, opened if absent.
AddVirtualTransaction(c, amount) ==
  LET set == IF settings[c] = NoSettings THEN DEFAULT_SETTINGS ELSE settings[c]
  IN  /\ settings' = [settings EXCEPT ![c] = set]
      /\ transactions' = Append(transactions,
           [client |-> c, amount |-> amount,
            roundUp |-> RoundUpAmountCents(amount, set.roundTo, set.multiplier)])
      /\ UNCHANGED <<goals, lessons>>

RowsOfGoals == Len(goals) + Len(lessons) + Len(transactions)

GoalWrites ==
  \E c \in Learners :
    \/ \E primary \in BOOLEAN : CreateGoal(c, primary)
    \/ \E trigger \in Triggers : AssignEducation(c, trigger)
    \/ \E amount \in Amounts : AddVirtualTransaction(c, amount)

GoalMoves ==
  \/ \E k \in DOMAIN goals : SetPrimaryGoal(k) \/ \E p \in Percents : UpdateGoalProgress(k, p)
  \/ \E k \in DOMAIN lessons, taken \in BOOLEAN, correct \in 0..1 :
       CompleteEducation(k, taken, correct, 1)
  \/ \E c \in Learners, r \in RoundUps, e \in BOOLEAN : ConfigureSimulation(c, r, 1, e)

GoalsNext == (RowsOfGoals < GoalRows /\ GoalWrites) \/ GoalMoves

GoalsSpec == GoalsInit /\ [][GoalsNext]_goalVars

-----------------------------------------------------------------------------
(***************************************************************************)
(* Properties.                                                             *)
(***************************************************************************)

\* Every row belongs to a client, and a score goes with a completed lesson.
GoalsTypeOK ==
  /\ goals \in Seq([client : Learners, primary : BOOLEAN, progress : 0..100])
  /\ lessons \in Seq([client : Learners, lesson : {TRIGGER_MAP[t] : t \in Triggers},
                      completed : BOOLEAN, score : {<<>>} \cup {<<s>> : s \in 0..1000}])
  /\ \A k \in DOMAIN lessons : lessons[k].score # <<>> => lessons[k].completed
  /\ settings \in [Learners -> {NoSettings} \cup
                      [enabled : BOOLEAN, roundTo : Nat \ {0}, multiplier : {1}]]

\* A client never has two primary goals, by whichever call the last became
\* primary, nor two open assignments of one lesson.
OneOfEach ==
  \A c \in Learners :
    /\ \A j, k \in DOMAIN goals :
         goals[j].client = c /\ goals[k].client = c /\ goals[j].primary /\ goals[k].primary => j = k
    /\ \A t \in Triggers : \A j, k \in OpenAssignments(c, TRIGGER_MAP[t]) : j = k
=============================================================================
