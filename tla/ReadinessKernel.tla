--------------------------- MODULE ReadinessKernel ---------------------------
(***************************************************************************)
(* The deterministic rules of packages/rules that place a client in the    *)
(* readiness lifecycle, and the client-journey tables beside them.  Pure:  *)
(* no state.  Rates are kept as integers: percentages and months in        *)
(* tenths, as round1 leaves them, and the on-time rate in hundredths.      *)
(***************************************************************************)
EXTENDS Integers, Sequences

LIFECYCLE_STAGES ==
  <<"recovery", "stabilization", "credit_readiness", "capital_readiness",
    "acquisition", "maintenance", "growth", "legacy">>

LifecycleStage == {LIFECYCLE_STAGES[k] : k \in 1..8}

Rank ==
  [recovery |-> 1, stabilization |-> 2, credit_readiness |-> 3, capital_readiness |-> 4,
   acquisition |-> 5, maintenance |-> 6, growth |-> 7, legacy |-> 8]

READINESS_THRESHOLDS ==
  [minOnTimePaymentRate |-> 85, maxDerogatoryMarks |-> 3, maxStabilizationDtiPct |-> 450,
   minReserveMonths |-> 10, minCreditScore |-> 640, maxCreditUtilizationPct |-> 300,
   minCapitalScore |-> 680, maxCapitalUtilizationPct |-> 100,
   minCapitalReserveMonths |-> 30, maxCapitalDtiPct |-> 360]

T == READINESS_THRESHOLDS

\* No score was captured.  Scores are positive.
NoScore == 0

Incomes == {"unstable", "variable", "stable"}

ReadinessFacts ==
  [creditScore : Nat, utilizationPct : Nat, dtiPct : Nat, reserveMonths : Nat,
   derogatoryMarks : Nat, onTimePaymentRate : Nat, incomeStability : Incomes]

\* round1(100 * a / b), in tenths of a percent; Math.round rounds halves up.
Tenths(a, b) == (2000 * a + b) \div (2 * b)

UtilizationPct(balance, limit) ==
  IF limit > 0 THEN Tenths(balance, limit) ELSE IF balance > 0 THEN 1000 ELSE 0

DtiPct(payments, income) == IF income > 0 THEN Tenths(payments, income) ELSE 1000

\* round1(a / b), in tenths of a month.
ReserveMonths(savings, expenses) ==
  IF expenses > 0 THEN (20 * savings + expenses) \div (2 * expenses) ELSE 0

(***************************************************************************)
(* assessReadiness: the first gate with an open reason decides the stage.  *)
(***************************************************************************)
RecoveryReasons(f) ==
  [RC_INCOME_UNSTABLE      |-> f.incomeStability = "unstable",
   RC_PAYMENT_HISTORY_POOR |-> f.onTimePaymentRate < T.minOnTimePaymentRate,
   RC_DEROGATORY_HIGH      |-> f.derogatoryMarks > T.maxDerogatoryMarks]

StabilizationReasons(f) ==
  [RC_DTI_HIGH     |-> f.dtiPct > T.maxStabilizationDtiPct,
   RC_RESERVES_LOW |-> f.reserveMonths < T.minReserveMonths]

CreditReasons(f) ==
  [RC_SCORE_MISSING            |-> f.creditScore = NoScore,
   RC_SCORE_BELOW_CREDIT_FLOOR |-> f.creditScore # NoScore /\ f.creditScore < T.minCreditScore,
   RC_UTILIZATION_ABOVE_30     |-> f.utilizationPct > T.maxCreditUtilizationPct]

CapitalReasons(f) ==
  [RC_SCORE_BELOW_CAPITAL_FLOOR |-> f.creditScore # NoScore /\ f.creditScore < T.minCapitalScore,
   RC_UTILIZATION_ABOVE_10      |-> f.utilizationPct > T.maxCapitalUtilizationPct,
   RC_RESERVES_BELOW_3M         |-> f.reserveMonths < T.minCapitalReserveMonths,
   RC_DTI_ABOVE_36              |-> f.dtiPct > T.maxCapitalDtiPct]

ReasonCode ==
  {"RC_INCOME_UNSTABLE", "RC_PAYMENT_HISTORY_POOR", "RC_DEROGATORY_HIGH", "RC_DTI_HIGH",
   "RC_RESERVES_LOW", "RC_SCORE_MISSING", "RC_SCORE_BELOW_CREDIT_FLOOR",
   "RC_UTILIZATION_ABOVE_30", "RC_SCORE_BELOW_CAPITAL_FLOOR", "RC_UTILIZATION_ABOVE_10",
   "RC_RESERVES_BELOW_3M", "RC_DTI_ABOVE_36", "RC_ALL_ACQUISITION_GATES_MET"}

Open(reasons) == {r \in DOMAIN reasons : reasons[r]}

Assessed(stage, reasons) == [stage |-> stage, reasonCodes |-> Open(reasons)]

AssessReadiness(f) ==
  IF Open(RecoveryReasons(f)) # {} THEN Assessed("recovery", RecoveryReasons(f))
  ELSE IF Open(StabilizationReasons(f)) # {} THEN Assessed("stabilization", StabilizationReasons(f))
  ELSE IF Open(CreditReasons(f)) # {} THEN Assessed("credit_readiness", CreditReasons(f))
  ELSE IF Open(CapitalReasons(f)) # {} THEN Assessed("capital_readiness", CapitalReasons(f))
  ELSE [stage |-> "acquisition", reasonCodes |-> {"RC_ALL_ACQUISITION_GATES_MET"}]

ReviewReasonCode == {"RV_STAGE_REGRESSION", "RV_MULTI_STAGE_ADVANCE"}

\* assessmentReviewGate: the codes that ask for a human; "none" for no history.
AssessmentReviewGate(previous, next) ==
  {code \in ReviewReasonCode :
     /\ previous # "none"
     /\ code = "RV_STAGE_REGRESSION" => Rank[next] < Rank[previous]
     /\ code = "RV_MULTI_STAGE_ADVANCE" => Rank[next] - Rank[previous] >= 2}

READINESS_INPUT_KEYS ==
  {"creditScore", "utilizationPct", "dtiPct", "reserveMonths", "derogatoryMarks",
   "onTimePaymentRate", "incomeStability"}

REQUIRED_READINESS_INPUT_KEYS == READINESS_INPUT_KEYS \ {"creditScore"}

\* toReadinessInputPresence, for the profiles and the score that are on file.
CapturedKeys(financial, credit, score) ==
  (IF financial THEN {"dtiPct", "reserveMonths", "incomeStability"} ELSE {}) \cup
  (IF credit THEN {"utilizationPct", "derogatoryMarks", "onTimePaymentRate"} ELSE {}) \cup
  (IF credit /\ score # NoScore THEN {"creditScore"} ELSE {})

CanDiagnose(captured) == REQUIRED_READINESS_INPUT_KEYS \subseteq captured

\* roundUpAmountCents, for a whole multiplier.
RoundUpAmountCents(amount, roundTo, multiplier) ==
  IF amount < 0 \/ roundTo <= 0 \/ multiplier < 0 THEN 0
  ELSE multiplier * (roundTo - (amount % roundTo))
=============================================================================
