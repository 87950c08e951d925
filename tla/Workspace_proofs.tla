-------------------------- MODULE Workspace_proofs --------------------------
(***************************************************************************)
(* Proofs about the workspace around a client: the pipeline and intake     *)
(* (ClientIntake), goals and lessons (ClientGoals), the plan and its       *)
(* announcements (ClientPlan), referrals and handoff packages beside these *)
(* three (PartnerSharing), and conversations (Messaging).                  *)
(*                                                                         *)
(*   - A client past intake completed its required sections, and was       *)
(*     assessed only from then on; the stage events of a record lead, one  *)
(*     from the other, from where it entered to where it is.               *)
(*   - A package's contents stay true because what it counts only grows    *)
(*     and what it names never changes hands: each of the three parts it   *)
(*     reads keeps, step by step, the clients of its rows, the approved    *)
(*     documents and the recorded assessments.                             *)
(*   - A conversation's parties are fixed when its thread is opened; a     *)
(*     request carries, from its checks to its commit, a sender who is one *)
(*     of them, however the thread's status moves in between.              *)
(***************************************************************************)
EXTENDS Messaging, PartnerSharing, FiniteSetTheorems, WellFoundedInduction, TLAPS

-----------------------------------------------------------------------------
(***************************************************************************)
(* The greatest of a bounded set of indices, on which "the latest row of"  *)
(* rests.                                                                  *)
(***************************************************************************)

LEMMA NatLeast ==
  ASSUME NEW S, S \subseteq Nat, S # {}
  PROVE  \E x \in S : \A y \in S : x <= y
<1> DEFINE R == OpToRel(<, Nat)
<1>1. \A x, y \in Nat : <<y, x>> \in R <=> y < x
  BY DEF OpToRel
<1>2. IsWellFoundedOn(R, Nat)
  BY NatLessThanWellFounded
<1> HIDE DEF R
<1>3. \E x \in S : \A y \in S : ~(<<y, x>> \in R)
  BY <1>2, WFMin
<1>4. PICK x \in S : \A y \in S : ~(<<y, x>> \in R)
  BY <1>3
<1>5. ASSUME NEW y \in S PROVE x <= y
  <2>1. x \in Nat /\ y \in Nat /\ ~(y < x)
    BY <1>1, <1>4
  <2>2. QED
    BY <2>1
<1>6. QED
  BY <1>5

LEMMA MaxOf ==
  ASSUME NEW n \in Nat, NEW S \in SUBSET (1..n), S # {}
  PROVE  Max(S) \in S /\ \A y \in S : y <= Max(S)
<1> DEFINE D == {n - x : x \in S}
<1>1. D \subseteq Nat /\ D # {}
  <2>1. \A x \in S : x \in Int /\ n - x \in Nat
    OBVIOUS
  <2>2. QED
    BY <2>1
<1> HIDE DEF D
<1>2. PICK d \in D : \A e \in D : d <= e
  BY <1>1, NatLeast
<1>3. PICK x \in S : d = n - x
  BY <1>2 DEF D
<1>4. \A y \in S : x >= y
  <2> SUFFICES ASSUME NEW y \in S PROVE x >= y
    OBVIOUS
  <2>1. n - y \in D
    BY DEF D
  <2>2. QED
    BY <1>2, <1>3, <2>1
<1>5. Max(S) \in S /\ \A y \in S : Max(S) >= y
  BY <1>4 DEF Max
<1>6. QED
  BY <1>5

\* The greatest of a set with a new greatest element.
LEMMA MaxGrows ==
  ASSUME NEW n \in Nat, NEW S \in SUBSET (1..n)
  PROVE  Max(S \cup {n + 1}) = n + 1
<1>1. \A y \in S \cup {n + 1} : n + 1 >= y
  OBVIOUS
<1>2. \A x \in S \cup {n + 1} : (\A y \in S \cup {n + 1} : x >= y) => x = n + 1
  OBVIOUS
<1>3. QED
  BY <1>1, <1>2 DEF Max

-----------------------------------------------------------------------------
(***************************************************************************)
(* The pipeline.                                                           *)
(***************************************************************************)

LEMMA PipelineOrder ==
  /\ \A s \in StageIds : Order(s) \in DOMAIN PIPELINE /\ PIPELINE[Order(s)].id = s
  /\ \A k \in DOMAIN PIPELINE : PIPELINE[k].id \in StageIds /\ Order(PIPELINE[k].id) = k
  /\ DOMAIN PIPELINE = 1..Len(PIPELINE) /\ Len(PIPELINE) \in Nat
<1>1. \A s \in StageIds : Order(s) \in DOMAIN PIPELINE /\ PIPELINE[Order(s)].id = s
  BY DEF StageIds, Order
<1>2. \A j, k \in DOMAIN PIPELINE : PIPELINE[j].id = PIPELINE[k].id => j = k
  BY IntakeAssumption DEF ValidPipelineDefinition
<1>3. \A k \in DOMAIN PIPELINE : PIPELINE[k].id \in StageIds
  BY DEF StageIds
<1>4. \A k \in DOMAIN PIPELINE : Order(PIPELINE[k].id) = k
  BY <1>1, <1>2, <1>3
<1>5. DOMAIN PIPELINE = 1..Len(PIPELINE) /\ Len(PIPELINE) \in Nat
  BY IntakeAssumption DEF ValidPipelineDefinition
<1>6. QED
  BY <1>1, <1>3, <1>4, <1>5

LEMMA OrdersAreNaturals == \A s \in StageIds : Order(s) \in Nat
BY PipelineOrder

LEMMA NamedStages ==
  /\ "intake_started" \in StageIds /\ "intake_completed" \in StageIds
  /\ Order("intake_started") < Order("intake_completed")
  /\ PIPELINE[Order("intake_completed")].required
  /\ \A s \in StageIds : Activated(s) => Order(s) >= Order("intake_completed")
<1>1. /\ "intake_started" \in StageIds /\ "intake_completed" \in StageIds
      /\ Order("intake_started") < Order("intake_completed")
      /\ PIPELINE[Order("intake_completed")].required
  BY IntakeAssumption
<1>2. \A k \in DOMAIN PIPELINE : PIPELINE[k].terminal <=> k = Len(PIPELINE)
  BY IntakeAssumption DEF ValidPipelineDefinition
<1>3. \A s \in StageIds : Activated(s) => Order(s) >= Order("intake_completed")
  BY <1>1, <1>2, PipelineOrder DEF Activated
<1>4. QED
  BY <1>1, <1>3

-----------------------------------------------------------------------------
(***************************************************************************)
(* The intake and its types.                                               *)
(***************************************************************************)

Assessment ==
  [client : Clients, stage : LifecycleStage, previousStage : LifecycleStage \cup {"none"},
   reasonCodes : SUBSET ReasonCode, review : SUBSET ReviewReasonCode]

Move == [lead : Clients, from : StageIds, to : StageIds]

Record == [stage : StageIds, kind : {"lead", "client"}]

Intake == [status : {"none", "in_progress", "completed"}, done : SUBSET Sections]

LEMMA IntakeTypes ==
  IntakeTypeOK <=>
    /\ records \in [Clients -> Record] /\ intakes \in [Clients -> Intake]
    /\ moves \in Seq(Move) /\ assessments \in Seq(Assessment)
BY DEF IntakeTypeOK, Record, Intake, Move, Assessment

LEMMA StagesOfTheLifecycle ==
  LifecycleStage = {"recovery", "stabilization", "credit_readiness", "capital_readiness",
                    "acquisition", "maintenance", "growth", "legacy"}
BY DEF LifecycleStage, LIFECYCLE_STAGES

LEMMA AssessedTypes ==
  ASSUME NEW f
  PROVE  AssessReadiness(f).stage \in LifecycleStage
         /\ AssessReadiness(f).reasonCodes \in SUBSET ReasonCode
<1>1. \A stage, reasons : DOMAIN reasons \subseteq ReasonCode =>
        /\ Assessed(stage, reasons).stage = stage
        /\ Assessed(stage, reasons).reasonCodes \in SUBSET ReasonCode
  BY DEF Assessed, Open
<1>2. DOMAIN RecoveryReasons(f) \subseteq ReasonCode
  BY DEF RecoveryReasons, ReasonCode
<1>3. DOMAIN StabilizationReasons(f) \subseteq ReasonCode
  BY DEF StabilizationReasons, ReasonCode
<1>4. DOMAIN CreditReasons(f) \subseteq ReasonCode
  BY DEF CreditReasons, ReasonCode
<1>5. DOMAIN CapitalReasons(f) \subseteq ReasonCode
  BY DEF CapitalReasons, ReasonCode
<1>6. \A s \in {"recovery", "stabilization", "credit_readiness", "capital_readiness", "acquisition"} :
        s \in LifecycleStage
  BY StagesOfTheLifecycle
<1>7. CASE /\ Open(RecoveryReasons(f)) = {} /\ Open(StabilizationReasons(f)) = {}
           /\ Open(CreditReasons(f)) = {} /\ Open(CapitalReasons(f)) = {}
  BY <1>6, <1>7 DEF AssessReadiness, ReasonCode
<1>8. CASE ~ (/\ Open(RecoveryReasons(f)) = {} /\ Open(StabilizationReasons(f)) = {}
              /\ Open(CreditReasons(f)) = {} /\ Open(CapitalReasons(f)) = {})
  <2>1. AssessReadiness(f) \in
          {Assessed("recovery", RecoveryReasons(f)),
           Assessed("stabilization", StabilizationReasons(f)),
           Assessed("credit_readiness", CreditReasons(f)),
           Assessed("capital_readiness", CapitalReasons(f))}
    BY <1>8, Zenon DEF AssessReadiness
  <2>2. QED
    BY <1>1, <1>2, <1>3, <1>4, <1>5, <1>6, <2>1
<1>9. QED
  BY <1>7, <1>8

LEMMA LatestStageOf ==
  ASSUME IntakeTypeOK, NEW c \in Clients
  PROVE  \/ /\ \A k \in DOMAIN assessments : assessments[k].client # c
            /\ LatestStage(c) = EarlierStage[c]
         \/ \E k \in DOMAIN assessments :
              assessments[k].client = c /\ LatestStage(c) = assessments[k].stage
<1> DEFINE own == {k \in DOMAIN assessments : assessments[k].client = c}
<1>1. CASE own = {}
  BY <1>1 DEF LatestStage
<1>2. CASE own # {}
  <2>1. own \in SUBSET (1..Len(assessments)) /\ Len(assessments) \in Nat
    BY DEF IntakeTypeOK
  <2>2. Max(own) \in own
    BY <1>2, <2>1, MaxOf
  <2>3. LatestStage(c) = assessments[Max(own)].stage
    BY <1>2 DEF LatestStage
  <2>4. QED
    BY <2>2, <2>3
<1>3. QED
  BY <1>1, <1>2

LEMMA LatestStageType ==
  ASSUME IntakeTypeOK, NEW c \in Clients
  PROVE  LatestStage(c) \in LifecycleStage \cup {"none"}
<1>1. EarlierStage[c] \in LifecycleStage \cup {"none"}
  BY IntakeAssumption
<1>2. \A k \in DOMAIN assessments : assessments[k].stage \in LifecycleStage
  <2>1. \A k \in DOMAIN assessments : assessments[k] \in Assessment
    BY IntakeTypes
  <2>2. QED
    BY <2>1 DEF Assessment
<1>3. QED
  BY <1>1, <1>2, LatestStageOf

LEMMA IntakeTypesInit == IntakeInit => IntakeTypeOK
<1> SUFFICES ASSUME IntakeInit PROVE IntakeTypeOK
  OBVIOUS
<1>1. records \in [Clients -> Record]
  BY IntakeAssumption DEF IntakeInit, Record
<1>2. intakes \in [Clients -> Intake]
  BY IntakeAssumption DEF IntakeInit, Intake, NoIntake
<1>3. QED
  BY <1>1, <1>2, IntakeTypes DEF IntakeInit

LEMMA StageChangeType ==
  ASSUME IntakeTypeOK, NEW c \in Clients, NEW to \in StageIds, StageChange(c, to)
  PROVE  moves' \in Seq(Move)
<1> DEFINE m == [lead |-> c, from |-> records[c].stage, to |-> to]
<1>1. m \in Move
  BY IntakeTypes DEF Record, Move
<1>2. moves' = Append(moves, m)
  BY DEF StageChange
<1> HIDE DEF m
<1>3. QED
  BY <1>1, <1>2, IntakeTypes

LEMMA IntakeTypesNext ==
  ASSUME IntakeTypeOK, [IntakeNext]_intakeVars
  PROVE  IntakeTypeOK'
<1>0. /\ records \in [Clients -> Record] /\ intakes \in [Clients -> Intake]
      /\ moves \in Seq(Move) /\ assessments \in Seq(Assessment)
  BY IntakeTypes
<1>i. ASSUME /\ records' \in [Clients -> Record] /\ intakes' \in [Clients -> Intake]
             /\ moves' \in Seq(Move) /\ assessments' \in Seq(Assessment)
      PROVE  IntakeTypeOK'
  BY <1>i DEF IntakeTypeOK, Record, Intake, Move, Assessment
<1>1. ASSUME NEW c \in Clients, NEW to \in StageIds, NEW reversal \in BOOLEAN,
             AdvanceLead(c, to, reversal)
      PROVE  IntakeTypeOK'
  <2>1. moves' \in Seq(Move)
    BY <1>1, StageChangeType DEF AdvanceLead
  <2>2. records' \in [Clients -> Record]
    BY <1>0, <1>1 DEF AdvanceLead, Record
  <2>3. intakes' \in [Clients -> Intake]
    BY <1>0, <1>1 DEF AdvanceLead, Intake
  <2>4. assessments' \in Seq(Assessment)
    BY <1>0, <1>1 DEF AdvanceLead
  <2>5. QED
    BY <1>i, <2>1, <2>2, <2>3, <2>4
<1>2. ASSUME NEW c \in Clients, NEW s \in Sections, CompleteIntakeSection(c, s)
      PROVE  IntakeTypeOK'
  <2>1. intakes' \in [Clients -> Intake]
    <3>1. intakes' = [intakes EXCEPT ![c].done = @ \cup {s}]
      BY <1>2 DEF CompleteIntakeSection
    <3>2. [intakes[c] EXCEPT !.done = @ \cup {s}] \in Intake
      BY <1>0 DEF Intake
    <3>3. QED
      BY <1>0, <3>1, <3>2
  <2>2. QED
    BY <1>0, <1>i, <1>2, <2>1 DEF CompleteIntakeSection
<1>3. ASSUME NEW c \in Clients, CompleteIntake(c)
      PROVE  IntakeTypeOK'
  <2>1. intakes' \in [Clients -> Intake]
    BY <1>0, <1>3 DEF CompleteIntake, Intake
  <2>2. records' \in [Clients -> Record] /\ moves' \in Seq(Move)
    <3>1. CASE records[c].kind = "lead" /\ records[c].stage # "intake_completed"
      <4>1. moves' \in Seq(Move)
        BY <1>3, <3>1, StageChangeType, NamedStages DEF CompleteIntake
      <4>2. records' = [records EXCEPT ![c].stage = "intake_completed"]
        BY <1>3, <3>1 DEF CompleteIntake
      <4>3. QED
        BY <1>0, <4>1, <4>2, NamedStages DEF Record
    <3>2. QED
      BY <1>0, <1>3, <3>1 DEF CompleteIntake
  <2>3. QED
    BY <1>0, <1>i, <1>3, <2>1, <2>2 DEF CompleteIntake
<1>4. ASSUME NEW c \in Clients, RunReadinessAssessment(c)
      PROVE  IntakeTypeOK'
  <2> DEFINE a == [client |-> c, stage |-> AssessReadiness(FactsOf[c]).stage,
                   previousStage |-> LatestStage(c),
                   reasonCodes |-> AssessReadiness(FactsOf[c]).reasonCodes,
                   review |-> AssessmentReviewGate(LatestStage(c), AssessReadiness(FactsOf[c]).stage)]
  <2>1. AssessmentReviewGate(LatestStage(c), AssessReadiness(FactsOf[c]).stage) \in SUBSET ReviewReasonCode
    BY DEF AssessmentReviewGate
  <2>2. a \in Assessment
    BY <2>1, AssessedTypes, LatestStageType DEF Assessment
  <2>3. assessments' = Append(assessments, a)
    BY <1>4, Zenon DEF RunReadinessAssessment
  <2> HIDE DEF a
  <2>4. assessments' \in Seq(Assessment)
    BY <1>0, <2>2, <2>3
  <2>5. QED
    BY <1>0, <1>i, <1>4, <2>4 DEF RunReadinessAssessment
<1>5. CASE UNCHANGED intakeVars
  BY <1>0, <1>i, <1>5 DEF intakeVars
<1>6. QED
  BY <1>1, <1>2, <1>3, <1>4, <1>5, Zenon DEF IntakeNext

\* Records, intakes, stage events and assessments keep their types.
THEOREM IntakeTypeCorrect == IntakeSpec => []IntakeTypeOK
BY IntakeTypesInit, IntakeTypesNext, PTL DEF IntakeSpec


-----------------------------------------------------------------------------
(***************************************************************************)
(* An intake is complete beyond it.  Completed sections are given up only  *)
(* where the intake opens, which is before intake_completed; a completed   *)
(* intake never opens again.                                               *)
(***************************************************************************)

FullyDone(c) ==
  Order(records[c].stage) >= Order("intake_completed") \/ intakes[c].status = "completed" =>
    RequiredSections \subseteq intakes[c].done

AssessedWasReady ==
  \A k \in DOMAIN assessments :
    /\ assessments[k].client \in FinancialOnFile \cap CreditOnFile
    /\ intakes[assessments[k].client].status = "completed"

CompleteInv == (\A c \in Clients : FullyDone(c)) /\ AssessedWasReady

\* A forward move passes intake_completed only by standing there.
LEMMA PassesIntake ==
  ASSUME NEW from \in StageIds, NEW to \in StageIds, NEW reversal \in BOOLEAN,
         PipelineTransition(from, to, reversal),
         Order(to) >= Order("intake_completed"), to # "intake_completed"
  PROVE  Order(from) >= Order("intake_completed")
<1>1. Order(to) # Order("intake_completed")
  BY NamedStages, PipelineOrder
<1>2. /\ Order("intake_completed") \in DOMAIN PIPELINE
      /\ PIPELINE[Order("intake_completed")].required
      /\ Order("intake_completed") \in Nat /\ Order(from) \in Nat /\ Order(to) \in Nat
  BY NamedStages, PipelineOrder, OrdersAreNaturals
<1>3. ~SkipsRequired(from, to)
  BY DEF PipelineTransition
<1>4. ~(Order(from) < Order("intake_completed") /\ Order("intake_completed") < Order(to))
  BY <1>2, <1>3 DEF SkipsRequired
<1>5. QED
  BY <1>1, <1>2, <1>4

LEMMA CompleteInit == IntakeInit => CompleteInv
<1> SUFFICES ASSUME IntakeInit PROVE CompleteInv
  OBVIOUS
<1>1. ASSUME NEW c \in Clients,
             Order(records[c].stage) >= Order("intake_completed") \/ intakes[c].status = "completed"
      PROVE  RequiredSections \subseteq intakes[c].done
  <2>1. records[c].stage = FirstStage[c] /\ FirstStage[c] \in StageIds
    BY IntakeAssumption DEF IntakeInit
  <2>2. intakes[c] =
          IF Order(FirstStage[c]) < Order("intake_started") THEN NoIntake
          ELSE [status |-> IF Activated(FirstStage[c]) THEN "completed" ELSE "in_progress",
                done |-> FirstSections[c]]
    BY DEF IntakeInit
  <2>3. intakes[c].status = "completed" =>
          Activated(FirstStage[c]) /\ ~(Order(FirstStage[c]) < Order("intake_started"))
    BY <2>2 DEF NoIntake
  <2>4. Order(FirstStage[c]) >= Order("intake_completed")
    BY <1>1, <2>1, <2>3, NamedStages
  <2>5. ~(Order(FirstStage[c]) < Order("intake_started"))
    BY <2>1, <2>4, NamedStages, OrdersAreNaturals
  <2>6. QED
    BY <2>2, <2>4, <2>5, IntakeAssumption
<1>2. AssessedWasReady
  BY DEF IntakeInit, AssessedWasReady
<1>3. QED
  BY <1>1, <1>2 DEF CompleteInv, FullyDone

LEMMA CompleteNext ==
  ASSUME IntakeTypeOK, CompleteInv, [IntakeNext]_intakeVars
  PROVE  CompleteInv'
<1>0. /\ records \in [Clients -> Record] /\ intakes \in [Clients -> Intake]
      /\ assessments \in Seq(Assessment)
  BY IntakeTypes
<1>a. \A c \in Clients : FullyDone(c)
  BY DEF CompleteInv
<1>b. \A k \in DOMAIN assessments : assessments[k].client \in Clients
  <2>1. \A k \in DOMAIN assessments : assessments[k] \in Assessment
    BY <1>0
  <2>2. QED
    BY <2>1 DEF Assessment
<1>c. \A c \in Clients : records[c].stage \in StageIds
  BY <1>0 DEF Record
<1>d. ASSUME assessments' = assessments,
             \A c \in Clients : intakes[c].status = "completed" => intakes'[c].status = "completed"
      PROVE  AssessedWasReady'
  BY <1>b, <1>d DEF CompleteInv, AssessedWasReady
<1>1. ASSUME NEW c \in Clients, NEW to \in StageIds, NEW reversal \in BOOLEAN,
             AdvanceLead(c, to, reversal)
      PROVE  CompleteInv'
  <2> DEFINE opens == to = "intake_started" /\ ~reversal /\ intakes[c] = NoIntake
  <2>1. /\ PipelineTransition(records[c].stage, to, reversal)
        /\ to = "intake_completed" => IntakeComplete(intakes[c].done)
        /\ assessments' = assessments
    BY <1>1 DEF AdvanceLead
  <2>2. \A d \in Clients : records'[d].stage = IF d = c THEN to ELSE records[d].stage
    BY <1>0, <1>1 DEF AdvanceLead
  <2>3. \A d \in Clients :
          intakes'[d] = IF d = c /\ opens THEN [status |-> "in_progress", done |-> {}]
                        ELSE intakes[d]
    BY <1>0, <1>1 DEF AdvanceLead
  <2>4. opens => Order(to) < Order("intake_completed") /\ intakes[c].status = "none"
    BY NamedStages DEF NoIntake
  <2> HIDE DEF opens
  <2>5. FullyDone(c)'
    <3>1. CASE opens
      <4>1. /\ ~(Order(to) >= Order("intake_completed")) /\ intakes'[c].status = "in_progress"
            /\ records'[c].stage = to
        BY <2>2, <2>3, <2>4, <3>1, NamedStages, OrdersAreNaturals
      <4>2. QED
        BY <4>1 DEF FullyDone
    <3>2. CASE ~opens /\ to = "intake_completed"
      BY <2>1, <2>3, <3>2 DEF FullyDone, IntakeComplete
    <3>3. CASE ~opens /\ to # "intake_completed"
      <4>1. Order(to) >= Order("intake_completed") =>
              Order(records[c].stage) >= Order("intake_completed")
        BY <1>c, <2>1, <3>3, PassesIntake
      <4>2. intakes'[c] = intakes[c] /\ records'[c].stage = to
        BY <2>2, <2>3, <3>3
      <4>3. QED
        BY <1>a, <4>1, <4>2 DEF FullyDone
    <3>4. QED
      BY <3>1, <3>2, <3>3
  <2>6. \A d \in Clients \ {c} : FullyDone(d)'
    BY <1>a, <2>2, <2>3 DEF FullyDone
  <2>7. \A d \in Clients : intakes[d].status = "completed" => intakes'[d].status = "completed"
    BY <2>3, <2>4
  <2>8. QED
    BY <1>d, <2>1, <2>5, <2>6, <2>7 DEF CompleteInv
<1>2. ASSUME NEW c \in Clients, NEW s \in Sections, CompleteIntakeSection(c, s)
      PROVE  CompleteInv'
  <2>1. records' = records /\ assessments' = assessments
    BY <1>2 DEF CompleteIntakeSection
  <2>2. \A d \in Clients :
          intakes'[d].status = intakes[d].status /\ intakes[d].done \subseteq intakes'[d].done
    <3>1. intakes' = [intakes EXCEPT ![c].done = @ \cup {s}]
      BY <1>2 DEF CompleteIntakeSection
    <3>2. [intakes[c] EXCEPT !.done = @ \cup {s}].status = intakes[c].status
          /\ [intakes[c] EXCEPT !.done = @ \cup {s}].done = intakes[c].done \cup {s}
      BY <1>0 DEF Intake
    <3>3. QED
      BY <1>0, <3>1, <3>2
  <2>3. \A d \in Clients : FullyDone(d)'
    BY <1>a, <2>1, <2>2 DEF FullyDone
  <2>4. QED
    BY <1>d, <2>1, <2>2, <2>3 DEF CompleteInv
<1>3. ASSUME NEW c \in Clients, CompleteIntake(c)
      PROVE  CompleteInv'
  <2>1. assessments' = assessments /\ RequiredSections \subseteq intakes[c].done
    BY <1>3 DEF CompleteIntake, IntakeComplete
  <2>2. \A d \in Clients : intakes'[d].done = intakes[d].done
          /\ intakes'[d].status = IF d = c THEN "completed" ELSE intakes[d].status
    BY <1>0, <1>3 DEF CompleteIntake, Intake
  <2>3. \A d \in Clients \ {c} : records'[d] = records[d]
    BY <1>0, <1>3 DEF CompleteIntake
  <2>4. \A d \in Clients : FullyDone(d)'
    BY <1>a, <2>1, <2>2, <2>3 DEF FullyDone
  <2>5. QED
    BY <1>d, <2>1, <2>2, <2>4 DEF CompleteInv
<1>4. ASSUME NEW c \in Clients, RunReadinessAssessment(c)
      PROVE  CompleteInv'
  <2>1. /\ intakes[c].status = "completed" /\ c \in FinancialOnFile \cap CreditOnFile
        /\ records' = records /\ intakes' = intakes
    BY <1>4 DEF RunReadinessAssessment
  <2>2. PICK a : a.client = c /\ assessments' = Append(assessments, a)
    BY <1>4 DEF RunReadinessAssessment
  <2>3. \A k \in DOMAIN assessments' :
          assessments'[k] = a \/ (k \in DOMAIN assessments /\ assessments'[k] = assessments[k])
    BY <1>0, <2>2
  <2>4. AssessedWasReady'
    BY <2>1, <2>2, <2>3 DEF CompleteInv, AssessedWasReady
  <2>5. \A d \in Clients : FullyDone(d)'
    BY <1>a, <2>1 DEF FullyDone
  <2>6. QED
    BY <2>4, <2>5 DEF CompleteInv
<1>5. CASE UNCHANGED intakeVars
  BY <1>5 DEF intakeVars, CompleteInv, FullyDone, AssessedWasReady
<1>6. QED
  BY <1>1, <1>2, <1>3, <1>4, <1>5, Zenon DEF IntakeNext

\* By whichever door a record came past intake_completed its required sections
\* are done, and whoever was assessed may still be (advanceLead, completeIntake,
\* runReadinessAssessment and buildResolutionReadout).
THEOREM IntakesAreComplete == IntakeSpec => []BeyondIntakeIsComplete
<1>1. ASSUME IntakeTypeOK, CompleteInv PROVE BeyondIntakeIsComplete
  <2>1. \A c \in Clients : FullyDone(c)
    BY <1>1 DEF CompleteInv
  <2>2. ASSUME NEW k \in DOMAIN assessments
        PROVE  LET readout == ResolutionReadoutFor(assessments[k].client) IN
               /\ readout.canRunDiagnosis /\ readout.missingKeys \subseteq {"creditScore"}
               /\ readout.diagnosis # "none"
    <3> DEFINE c == assessments[k].client
               captured == CapturedKeys(c \in FinancialOnFile, c \in CreditOnFile,
                                        FactsOf[c].creditScore)
    <3>1. c \in Clients /\ assessments[k].stage \in LifecycleStage
      <4>1. assessments[k] \in Assessment
        BY <1>1, IntakeTypes
      <4>2. QED
        BY <4>1 DEF Assessment
    <3>2. c \in FinancialOnFile /\ c \in CreditOnFile /\ intakes[c].status = "completed"
      BY <1>1 DEF CompleteInv, AssessedWasReady
    <3>3. REQUIRED_READINESS_INPUT_KEYS \subseteq captured
      BY <3>2 DEF CapturedKeys, REQUIRED_READINESS_INPUT_KEYS, READINESS_INPUT_KEYS
    <3>4. READINESS_INPUT_KEYS \ captured \subseteq {"creditScore"}
      BY <3>3 DEF REQUIRED_READINESS_INPUT_KEYS
    <3>5. LatestStage(c) \in LifecycleStage
      <4>1. \A j \in DOMAIN assessments : assessments[j].stage \in LifecycleStage
        <5>1. \A j \in DOMAIN assessments : assessments[j] \in Assessment
          BY <1>1, IntakeTypes
        <5>2. QED
          BY <5>1 DEF Assessment
      <4>2. QED
        BY <1>1, <3>1, <4>1, LatestStageOf
    <3>6. "none" \notin LifecycleStage
      BY StagesOfTheLifecycle
    <3>7. QED
      BY <3>2, <3>3, <3>4, <3>5, <3>6 DEF ResolutionReadoutFor, CanDiagnose
  <2>3. QED
    BY <2>1, <2>2 DEF BeyondIntakeIsComplete, FullyDone
<1>2. QED
  BY <1>1, IntakeTypeCorrect, CompleteInit, CompleteNext, PTL DEF IntakeSpec

-----------------------------------------------------------------------------
(***************************************************************************)
(* The trail of a record.                                                  *)
(***************************************************************************)

Visited(c) == {FirstStage[c]} \cup {moves[k].to : k \in MovesOf(c)}

TrailOf(c) ==
  /\ records[c].stage = StageAfter(moves, Len(moves), c)
  /\ \A k \in MovesOf(c) : moves[k].from = StageAfter(moves, k - 1, c)
  /\ records[c].stage \in Visited(c)
  /\ \A k \in DOMAIN PIPELINE :
       /\ PIPELINE[k].required
       /\ Order(FirstStage[c]) < k /\ k < Order(records[c].stage)
       => PIPELINE[k].id \in Visited(c)

TrailInv == \A c \in Clients : TrailOf(c)

\* Where the first n events leave a record depends on them only.
LEMMA PastStageIsKept ==
  ASSUME NEW log, NEW longer, NEW n \in Nat, NEW c, \A k \in 1..n : longer[k] = log[k]
  PROVE  StageAfter(longer, n, c) = StageAfter(log, n, c)
<1> DEFINE own == {k \in 1..n : log[k].lead = c}
<1>1. {k \in 1..n : longer[k].lead = c} = own
  OBVIOUS
<1>2. CASE own = {}
  BY <1>1, <1>2 DEF StageAfter
<1>3. CASE own # {}
  <2>1. Max(own) \in own
    BY <1>3, MaxOf
  <2>2. longer[Max(own)] = log[Max(own)]
    BY <2>1
  <2>3. QED
    BY <1>1, <1>3, <2>2 DEF StageAfter
<1>4. QED
  BY <1>2, <1>3

LEMMA OneMoreMove ==
  ASSUME NEW log, NEW n \in Nat, NEW c
  PROVE  StageAfter(log, n + 1, c) =
           IF log[n + 1].lead = c THEN log[n + 1].to ELSE StageAfter(log, n, c)
<1> DEFINE own  == {k \in 1..n : log[k].lead = c}
           more == {k \in 1..(n + 1) : log[k].lead = c}
<1>1. CASE log[n + 1].lead = c
  <2>1. more = own \cup {n + 1} /\ own \in SUBSET (1..n) /\ more # {}
    BY <1>1
  <2>2. Max(more) = n + 1
    BY <2>1, MaxGrows
  <2>3. QED
    BY <1>1, <2>1, <2>2 DEF StageAfter
<1>2. CASE log[n + 1].lead # c
  <2>1. more = own
    BY <1>2
  <2>2. QED
    BY <1>2, <2>1 DEF StageAfter
<1>3. QED
  BY <1>1, <1>2

LEMMA TrailInit == IntakeInit => \A c \in Clients : TrailOf(c)
<1> SUFFICES ASSUME IntakeInit, NEW c \in Clients PROVE TrailOf(c)
  OBVIOUS
<1>1. moves = <<>> /\ Len(moves) = 0 /\ DOMAIN moves = {} /\ records[c].stage = FirstStage[c]
  BY DEF IntakeInit
<1>2. StageAfter(moves, 0, c) = FirstStage[c]
  BY DEF StageAfter
<1>3. FirstStage[c] \in StageIds
  BY IntakeAssumption
<1>4. \A k \in DOMAIN PIPELINE : ~(Order(FirstStage[c]) < k /\ k < Order(FirstStage[c]))
  BY <1>3, PipelineOrder
<1>5. QED
  BY <1>1, <1>2, <1>4 DEF TrailOf, Visited, MovesOf

\* A stage change, by either door, extends the trail of the record it moves and
\* skips nothing required.
LEMMA TrailGrows ==
  ASSUME IntakeTypeOK, \A c \in Clients : TrailOf(c),
         NEW c \in Clients, NEW to \in StageIds, NEW reversal \in BOOLEAN,
         PipelineTransition(records[c].stage, to, reversal), StageChange(c, to),
         records'[c].stage = to, \A d \in Clients \ {c} : records'[d] = records[d]
  PROVE  \A d \in Clients : TrailOf(d)'
<1> DEFINE m == [lead |-> c, from |-> records[c].stage, to |-> to]
<1>1. PICK n \in Nat : n = Len(moves)
  BY IntakeTypes
<1>2. /\ Len(moves') = n + 1 /\ moves'[n + 1] = m /\ DOMAIN moves' = 1..(n + 1)
      /\ DOMAIN moves = 1..n /\ \A k \in 1..n : moves'[k] = moves[k]
  BY <1>1, IntakeTypes DEF StageChange
<1>3. m.lead = c /\ m.from = records[c].stage /\ m.to = to
  OBVIOUS
<1> HIDE DEF m
<1>4. ASSUME NEW d \in Clients, NEW k \in 1..n
      PROVE  StageAfter(moves', k - 1, d) = StageAfter(moves, k - 1, d)
  <2>1. k - 1 \in Nat /\ \A j \in 1..(k - 1) : moves'[j] = moves[j]
    BY <1>2
  <2>2. QED
    BY <2>1, PastStageIsKept
<1>5. ASSUME NEW d \in Clients
      PROVE  /\ StageAfter(moves', n, d) = records[d].stage
             /\ StageAfter(moves', n + 1, d) = IF d = c THEN to ELSE records[d].stage
  <2>1. StageAfter(moves', n, d) = StageAfter(moves, n, d)
    BY <1>2, PastStageIsKept
  <2>2. StageAfter(moves, n, d) = records[d].stage
    BY <1>1 DEF TrailOf
  <2>3. StageAfter(moves', n + 1, d) =
          IF moves'[n + 1].lead = d THEN moves'[n + 1].to ELSE StageAfter(moves', n, d)
    BY OneMoreMove
  <2>4. QED
    BY <1>2, <1>3, <2>1, <2>2, <2>3
<1>6. ASSUME NEW d \in Clients
      PROVE  MovesOf(d)' = IF d = c THEN MovesOf(d) \cup {n + 1} ELSE MovesOf(d)
  BY <1>2, <1>3 DEF MovesOf
<1>7. \A d \in Clients : MovesOf(d) \subseteq 1..n
  BY <1>2 DEF MovesOf
<1>8. ASSUME NEW d \in Clients
      PROVE  Visited(d)' = IF d = c THEN Visited(d) \cup {to} ELSE Visited(d)
  BY <1>2, <1>3, <1>6, <1>7 DEF Visited
<1>9. ASSUME NEW d \in Clients
      PROVE  \A k \in MovesOf(d)' : moves'[k].from = StageAfter(moves', k - 1, d)
  <2> SUFFICES ASSUME NEW k \in MovesOf(d)'
               PROVE  moves'[k].from = StageAfter(moves', k - 1, d)
    OBVIOUS
  <2>1. CASE k \in 1..n
    <3>1. k \in MovesOf(d)
      BY <1>2, <2>1 DEF MovesOf
    <3>2. QED
      BY <1>2, <1>4, <2>1, <3>1 DEF TrailOf
  <2>2. CASE k \notin 1..n
    <3>1. k = n + 1 /\ d = c /\ k - 1 = n
      BY <1>6, <1>7, <2>2
    <3>2. QED
      BY <1>2, <1>3, <1>5, <3>1
  <2>3. QED
    BY <2>1, <2>2
<1>10. ASSUME NEW k \in DOMAIN PIPELINE, PIPELINE[k].required,
              Order(FirstStage[c]) < k, k < Order(to)
       PROVE  PIPELINE[k].id \in Visited(c)
  <2>1. records[c].stage \in StageIds
    BY IntakeTypes DEF Record
  <2>2. CASE k < Order(records[c].stage)
    BY <1>10, <2>2 DEF TrailOf
  <2>3. CASE k = Order(records[c].stage)
    <3>1. PIPELINE[k].id = records[c].stage
      BY <2>1, <2>3, PipelineOrder
    <3>2. QED
      BY <3>1 DEF TrailOf
  <2>4. CASE Order(records[c].stage) < k
    BY <1>10, <2>4 DEF PipelineTransition, SkipsRequired
  <2>5. k \in Nat /\ Order(records[c].stage) \in Nat
    BY <2>1, PipelineOrder, OrdersAreNaturals
  <2>6. QED
    BY <2>2, <2>3, <2>4, <2>5
<1>11. ASSUME NEW d \in Clients PROVE TrailOf(d)'
  <2>1. records'[d].stage = StageAfter(moves', Len(moves'), d)
    BY <1>2, <1>5
  <2>2. CASE d = c
    <3>1. records'[d].stage = to /\ Visited(d)' = Visited(c) \cup {to}
      BY <1>8, <2>2
    <3>2. QED
      BY <1>9, <1>10, <2>1, <2>2, <3>1 DEF TrailOf
  <2>3. CASE d # c
    <3>1. records'[d] = records[d] /\ Visited(d)' = Visited(d)
      BY <1>8, <2>3
    <3>2. QED
      BY <1>9, <2>1, <2>3, <3>1 DEF TrailOf
  <2>4. QED
    BY <2>2, <2>3
<1>12. QED
  BY <1>11

LEMMA TrailNext ==
  ASSUME IntakeTypeOK, \A c \in Clients : TrailOf(c), [IntakeNext]_intakeVars
  PROVE  \A c \in Clients : TrailOf(c)'
<1>0. records \in [Clients -> Record]
  BY IntakeTypes
<1>1. ASSUME UNCHANGED <<records, moves>>
      PROVE  \A c \in Clients : TrailOf(c)'
  BY <1>1 DEF TrailOf, Visited, MovesOf
<1>2. ASSUME NEW c \in Clients, NEW to \in StageIds, NEW reversal \in BOOLEAN,
             AdvanceLead(c, to, reversal)
      PROVE  \A d \in Clients : TrailOf(d)'
  <2>1. /\ PipelineTransition(records[c].stage, to, reversal) /\ StageChange(c, to)
        /\ records'[c].stage = to /\ \A d \in Clients \ {c} : records'[d] = records[d]
    BY <1>0, <1>2 DEF AdvanceLead
  <2>2. QED
    BY <2>1, TrailGrows
<1>3. ASSUME NEW c \in Clients, CompleteIntake(c)
      PROVE  \A d \in Clients : TrailOf(d)'
  <2>1. CASE records[c].kind = "lead" /\ records[c].stage # "intake_completed"
    <3>1. /\ PipelineTransition(records[c].stage, "intake_completed", FALSE)
          /\ StageChange(c, "intake_completed")
          /\ records'[c].stage = "intake_completed"
          /\ \A d \in Clients \ {c} : records'[d] = records[d]
      BY <1>0, <1>3, <2>1 DEF CompleteIntake, Record
    <3>2. QED
      BY <3>1, NamedStages, TrailGrows
  <2>2. CASE ~(records[c].kind = "lead" /\ records[c].stage # "intake_completed")
    BY <1>1, <1>3, <2>2 DEF CompleteIntake
  <2>3. QED
    BY <2>1, <2>2
<1>4. ASSUME NEW c \in Clients, NEW s \in Sections, CompleteIntakeSection(c, s)
      PROVE  \A d \in Clients : TrailOf(d)'
  BY <1>1, <1>4 DEF CompleteIntakeSection
<1>5. ASSUME NEW c \in Clients, RunReadinessAssessment(c)
      PROVE  \A d \in Clients : TrailOf(d)'
  BY <1>1, <1>5 DEF RunReadinessAssessment
<1>6. CASE UNCHANGED intakeVars
  BY <1>1, <1>6 DEF intakeVars
<1>7. QED
  BY <1>2, <1>3, <1>4, <1>5, <1>6, Zenon DEF IntakeNext

\* The stage events of a record, which two operations write beside the stage
\* itself, tell without a gap how it came to stand where it does, over every
\* required stage (advanceLead and completeIntake).
THEOREM TrailsLeadHere == IntakeSpec => []TrailLeadsHere
<1>1. TrailInv => TrailLeadsHere
  BY DEF TrailInv, TrailOf, Visited, TrailLeadsHere
<1>2. IntakeInit => TrailInv
  BY TrailInit DEF TrailInv
<1>3. IntakeTypeOK /\ TrailInv /\ [IntakeNext]_intakeVars => TrailInv'
  BY TrailNext DEF TrailInv
<1>4. QED
  BY <1>1, <1>2, <1>3, IntakeTypeCorrect, PTL DEF IntakeSpec


-----------------------------------------------------------------------------
(***************************************************************************)
(* Goals and lessons.                                                      *)
(***************************************************************************)

Goal == [client : Learners, primary : BOOLEAN, progress : 0..100]

Lesson ==
  [client : Learners, lesson : {TRIGGER_MAP[t] : t \in Triggers},
   completed : BOOLEAN, score : {<<>>} \cup {<<s>> : s \in 0..1000}]

Setting == [enabled : BOOLEAN, roundTo : Nat \ {0}, multiplier : {1}]

LEMMA GoalsTypes ==
  GoalsTypeOK <=>
    /\ goals \in Seq(Goal) /\ lessons \in Seq(Lesson)
    /\ \A k \in DOMAIN lessons : lessons[k].score # <<>> => lessons[k].completed
    /\ settings \in [Learners -> {NoSettings} \cup Setting]
BY DEF GoalsTypeOK, Goal, Lesson, Setting

LEMMA RowsRewritten ==
  ASSUME NEW S, NEW s \in Seq(S), NEW t, DOMAIN t = DOMAIN s, t = [k \in DOMAIN s |-> t[k]],
         \A k \in DOMAIN s : t[k] \in S
  PROVE  t \in Seq(S) /\ Len(t) = Len(s)
<1>1. Len(s) \in Nat /\ DOMAIN s = 1..Len(s)
  OBVIOUS
<1>2. t \in [1..Len(s) -> S]
  BY <1>1
<1>3. QED
  BY <1>1, <1>2

LEMMA ScoreType ==
  ASSUME NEW correct \in 0..1
  PROVE  KnowledgeScore(correct, 1) \in 0..1000
<1>1. CASE correct = 0
  BY <1>1 DEF KnowledgeScore
<1>2. CASE correct = 1
  BY <1>2 DEF KnowledgeScore
<1>3. QED
  BY <1>1, <1>2

\* At most one goal of a client is its primary one, and one lesson of each kind open.
OnePrimary(c) ==
  \A j, k \in DOMAIN goals :
    goals[j].client = c /\ goals[k].client = c /\ goals[j].primary /\ goals[k].primary => j = k

OneOpen(c) ==
  \A j, k \in DOMAIN lessons :
    /\ lessons[j].client = c /\ lessons[k].client = c /\ lessons[j].lesson = lessons[k].lesson
    /\ ~lessons[j].completed /\ ~lessons[k].completed
    => j = k

\* A step keeps whose goal each is.
GoalsKept == \A k \in DOMAIN goals : k \in DOMAIN goals' /\ goals'[k].client = goals[k].client

GoalsInv == GoalsTypeOK /\ \A c \in Learners : OnePrimary(c) /\ OneOpen(c)

LEMMA GoalsInitInv == GoalsInit => GoalsInv
<1> SUFFICES ASSUME GoalsInit PROVE GoalsInv
  OBVIOUS
<1>1. GoalsTypeOK
  BY GoalsTypes DEF GoalsInit
<1>2. QED
  BY <1>1 DEF GoalsInit, GoalsInv, OnePrimary, OneOpen

LEMMA CreateGoalStep ==
  ASSUME GoalsInv, NEW c \in Learners, NEW primary \in BOOLEAN, CreateGoal(c, primary)
  PROVE  GoalsInv' /\ GoalsKept
<1> DEFINE g == [client |-> c, primary |-> primary, progress |-> 0]
           before == [k \in DOMAIN goals |->
             IF primary /\ goals[k].client = c THEN [goals[k] EXCEPT !.primary = FALSE]
             ELSE goals[k]]
<1>0. goals \in Seq(Goal) /\ \A k \in DOMAIN goals : goals[k] \in Goal
  BY GoalsTypes DEF GoalsInv
<1>1. g \in Goal /\ g.client = c /\ g.primary = primary
  BY DEF Goal
<1>2. \A k \in DOMAIN goals : before[k] \in Goal /\ before[k].client = goals[k].client
        /\ before[k].primary = (goals[k].primary /\ ~(primary /\ goals[k].client = c))
  BY <1>0 DEF Goal
<1>3. DOMAIN before = DOMAIN goals /\ before = [k \in DOMAIN goals |-> before[k]]
  OBVIOUS
<1>4. goals' = Append(before, g) /\ UNCHANGED <<lessons, settings>>
  BY DEF CreateGoal
<1> HIDE DEF g, before
<1>13. before \in Seq(Goal) /\ Len(before) = Len(goals)
  BY <1>0, <1>2, <1>3, RowsRewritten
<1>5. goals' \in Seq(Goal)
  BY <1>1, <1>4, <1>13
<1>6. PICK n \in Nat : n = Len(goals)
  BY <1>0
<1>7. /\ DOMAIN goals = 1..n /\ DOMAIN goals' = 1..(n + 1) /\ goals'[n + 1] = g
      /\ \A k \in 1..n : goals'[k] = before[k]
  BY <1>0, <1>1, <1>4, <1>6, <1>13
<1>8. GoalsTypeOK'
  BY <1>4, <1>5 DEF GoalsTypeOK, GoalsInv, Goal
<1>9. ASSUME NEW d \in Learners PROVE OnePrimary(d)'
  <2>1. OnePrimary(d)
    BY DEF GoalsInv
  <2>2. \A k \in 1..(n + 1) : goals'[k].client = d /\ goals'[k].primary =>
          \/ k = n + 1 /\ d = c /\ primary
          \/ k \in 1..n /\ goals[k].client = d /\ goals[k].primary /\ ~(primary /\ d = c)
    <3>1. goals'[n + 1].client = c /\ goals'[n + 1].primary = primary
      BY <1>1, <1>7
    <3>2. \A k \in 1..n : /\ goals'[k].client = goals[k].client
                          /\ goals'[k].primary = (goals[k].primary /\ ~(primary /\ goals[k].client = c))
      BY <1>2, <1>7
    <3>3. \A k \in 1..(n + 1) : k = n + 1 \/ k \in 1..n
      OBVIOUS
    <3>4. QED
      BY <3>1, <3>2, <3>3
  <2>3. QED
    BY <1>7, <2>1, <2>2 DEF OnePrimary
<1>10. GoalsKept
  BY <1>2, <1>7 DEF GoalsKept
<1>11. \A d \in Learners : OneOpen(d)'
  BY <1>4 DEF GoalsInv, OneOpen
<1>12. QED
  BY <1>8, <1>9, <1>10, <1>11 DEF GoalsInv

LEMMA SetPrimaryStep ==
  ASSUME GoalsInv, NEW p \in DOMAIN goals, SetPrimaryGoal(p)
  PROVE  GoalsInv' /\ GoalsKept
<1>0. goals \in Seq(Goal) /\ \A k \in DOMAIN goals : goals[k] \in Goal
  BY GoalsTypes DEF GoalsInv
<1>1. /\ goals' = [j \in DOMAIN goals |->
           IF goals[j].client = goals[p].client THEN [goals[j] EXCEPT !.primary = j = p]
           ELSE goals[j]]
      /\ UNCHANGED <<lessons, settings>>
  BY DEF SetPrimaryGoal
<1>2. \A k \in DOMAIN goals : goals'[k] \in Goal /\ goals'[k].client = goals[k].client
        /\ goals'[k].primary =
             IF goals[k].client = goals[p].client THEN k = p ELSE goals[k].primary
  BY <1>0, <1>1 DEF Goal
<1>3. goals' \in Seq(Goal) /\ DOMAIN goals' = DOMAIN goals
  BY <1>0, <1>1, <1>2, RowsRewritten
<1>4. GoalsTypeOK'
  BY <1>1, <1>3 DEF GoalsTypeOK, GoalsInv, Goal
<1>5. ASSUME NEW d \in Learners PROVE OnePrimary(d)'
  <2>1. OnePrimary(d)
    BY DEF GoalsInv
  <2>2. QED
    BY <1>2, <1>3, <2>1 DEF OnePrimary
<1>6. GoalsKept
  BY <1>2, <1>3 DEF GoalsKept
<1>7. \A d \in Learners : OneOpen(d)'
  BY <1>1 DEF GoalsInv, OneOpen
<1>8. QED
  BY <1>4, <1>5, <1>6, <1>7 DEF GoalsInv

LEMMA ProgressStep ==
  ASSUME GoalsInv, NEW p \in DOMAIN goals, NEW percent \in Percents, UpdateGoalProgress(p, percent)
  PROVE  GoalsInv' /\ GoalsKept
<1>0. goals \in Seq(Goal) /\ \A k \in DOMAIN goals : goals[k] \in Goal
  BY GoalsTypes DEF GoalsInv
<1>1. goals' = [goals EXCEPT ![p].progress = percent] /\ UNCHANGED <<lessons, settings>>
  BY DEF UpdateGoalProgress
<1>2. [goals[p] EXCEPT !.progress = percent] \in Goal
      /\ [goals[p] EXCEPT !.progress = percent].client = goals[p].client
      /\ [goals[p] EXCEPT !.progress = percent].primary = goals[p].primary
  BY <1>0, GoalsAssumption DEF Goal
<1>3. \A k \in DOMAIN goals : goals'[k] \in Goal /\ goals'[k].client = goals[k].client
        /\ goals'[k].primary = goals[k].primary
  BY <1>0, <1>1, <1>2
<1>4. goals' \in Seq(Goal) /\ DOMAIN goals' = DOMAIN goals
  BY <1>0, <1>1, <1>3, RowsRewritten
<1>5. GoalsTypeOK'
  BY <1>1, <1>4 DEF GoalsTypeOK, GoalsInv, Goal
<1>6. \A d \in Learners : OnePrimary(d)' /\ OneOpen(d)'
  BY <1>1, <1>3, <1>4 DEF GoalsInv, OnePrimary, OneOpen
<1>7. GoalsKept
  BY <1>3, <1>4 DEF GoalsKept
<1>8. QED
  BY <1>5, <1>6, <1>7 DEF GoalsInv

LEMMA AssignStep ==
  ASSUME GoalsInv, NEW c \in Learners, NEW trigger \in Triggers, AssignEducation(c, trigger)
  PROVE  GoalsInv' /\ GoalsKept
<1> DEFINE e == [client |-> c, lesson |-> TRIGGER_MAP[trigger], completed |-> FALSE, score |-> <<>>]
<1>0. lessons \in Seq(Lesson)
  BY GoalsTypes DEF GoalsInv
<1>1. e \in Lesson /\ e.client = c /\ e.lesson = TRIGGER_MAP[trigger] /\ ~e.completed /\ e.score = <<>>
  BY DEF Lesson
<1>2. /\ lessons' = Append(lessons, e) /\ UNCHANGED <<goals, settings>>
      /\ OpenAssignments(c, TRIGGER_MAP[trigger]) = {}
  BY DEF AssignEducation
<1> HIDE DEF e
<1>3. PICK n \in Nat : n = Len(lessons)
  BY <1>0
<1>4. /\ DOMAIN lessons = 1..n /\ DOMAIN lessons' = 1..(n + 1) /\ lessons'[n + 1] = e
      /\ \A k \in 1..n : lessons'[k] = lessons[k]
      /\ lessons' \in Seq(Lesson)
  BY <1>0, <1>1, <1>2, <1>3
<1>5. \A k \in DOMAIN lessons' : lessons'[k].score # <<>> => lessons'[k].completed
  BY <1>1, <1>4 DEF GoalsInv, GoalsTypeOK
<1>6. GoalsTypeOK'
  BY <1>2, <1>4, <1>5 DEF GoalsTypeOK, GoalsInv, Lesson
<1>7. ASSUME NEW d \in Learners PROVE OneOpen(d)'
  <2>1. OneOpen(d)
    BY DEF GoalsInv
  <2>2. \A k \in 1..n : ~(lessons[k].client = c /\ lessons[k].lesson = e.lesson /\ ~lessons[k].completed)
    BY <1>1, <1>2, <1>4 DEF OpenAssignments
  <2>3. QED
    BY <1>1, <1>4, <2>1, <2>2 DEF OneOpen
<1>8. \A d \in Learners : OnePrimary(d)'
  BY <1>2 DEF GoalsInv, OnePrimary
<1>9. GoalsKept
  BY <1>2 DEF GoalsKept
<1>10. QED
  BY <1>6, <1>7, <1>8, <1>9 DEF GoalsInv

LEMMA CompleteEducationStep ==
  ASSUME GoalsInv, NEW p \in DOMAIN lessons, NEW taken \in BOOLEAN, NEW correct \in 0..1,
         CompleteEducation(p, taken, correct, 1)
  PROVE  GoalsInv' /\ GoalsKept
<1> DEFINE score == IF taken /\ HasKnowledgeCheck(lessons[p].lesson)
                    THEN <<KnowledgeScore(correct, 1)>> ELSE <<>>
           e == [lessons[p] EXCEPT !.completed = TRUE, !.score = score]
<1>0. lessons \in Seq(Lesson) /\ \A k \in DOMAIN lessons : lessons[k] \in Lesson
  BY GoalsTypes DEF GoalsInv
<1>1. score \in {<<>>} \cup {<<s>> : s \in 0..1000}
  BY ScoreType
<1>2. lessons' = [lessons EXCEPT ![p].completed = TRUE, ![p].score = score]
      /\ UNCHANGED <<goals, settings>>
  BY DEF CompleteEducation
<1> HIDE DEF score
<1>3. e \in Lesson /\ e.client = lessons[p].client /\ e.lesson = lessons[p].lesson /\ e.completed
  <2> DEFINE Scores == {<<>>} \cup {<<s>> : s \in 0..1000}
  <2>1. lessons[p] \in [client : Learners, lesson : {TRIGGER_MAP[t] : t \in Triggers},
                       completed : BOOLEAN, score : Scores] /\ score \in Scores
    BY <1>0, <1>1 DEF Lesson
  <2> HIDE DEF Scores
  <2>2. e.client = lessons[p].client /\ e.lesson = lessons[p].lesson /\ e.completed
    BY <2>1
  <2>3. e \in [client : Learners, lesson : {TRIGGER_MAP[t] : t \in Triggers},
             completed : BOOLEAN, score : Scores]
    BY <2>1
  <2>4. QED
    BY <2>2, <2>3 DEF Lesson, Scores
<1>4. lessons' = [lessons EXCEPT ![p] = e]
  BY <1>2
<1> HIDE DEF e
<1>5. \A k \in DOMAIN lessons : lessons'[k] = IF k = p THEN e ELSE lessons[k]
  BY <1>0, <1>4
<1>6. lessons' \in Seq(Lesson) /\ DOMAIN lessons' = DOMAIN lessons
  BY <1>0, <1>3, <1>4
<1>7. \A k \in DOMAIN lessons' : lessons'[k].score # <<>> => lessons'[k].completed
  BY <1>3, <1>5, <1>6 DEF GoalsInv, GoalsTypeOK
<1>8. GoalsTypeOK'
  BY <1>2, <1>6, <1>7 DEF GoalsTypeOK, GoalsInv, Lesson
<1>9. ASSUME NEW d \in Learners PROVE OneOpen(d)'
  <2>1. OneOpen(d)
    BY DEF GoalsInv
  <2>2. QED
    BY <1>3, <1>5, <1>6, <2>1 DEF OneOpen
<1>10. \A d \in Learners : OnePrimary(d)'
  BY <1>2 DEF GoalsInv, OnePrimary
<1>11. GoalsKept
  BY <1>2 DEF GoalsKept
<1>12. QED
  BY <1>8, <1>9, <1>10, <1>11 DEF GoalsInv

LEMMA SimulationStep ==
  ASSUME GoalsInv, NEW c \in Learners,
         \/ \E r \in RoundUps, e \in BOOLEAN : ConfigureSimulation(c, r, 1, e)
         \/ \E amount \in Amounts : AddVirtualTransaction(c, amount)
  PROVE  GoalsInv' /\ GoalsKept
<1>1. UNCHANGED <<goals, lessons>>
  BY Zenon DEF ConfigureSimulation, AddVirtualTransaction
<1>2. settings \in [Learners -> {NoSettings} \cup Setting]
  BY GoalsTypes DEF GoalsInv
<1>3. settings' \in [Learners -> {NoSettings} \cup Setting]
  <2>1. ASSUME NEW r \in RoundUps, NEW e \in BOOLEAN, ConfigureSimulation(c, r, 1, e)
        PROVE  settings' \in [Learners -> {NoSettings} \cup Setting]
    <3>1. [enabled |-> e, roundTo |-> r, multiplier |-> 1] \in Setting
      BY GoalsAssumption DEF Setting
    <3>2. QED
      BY <1>2, <2>1, <3>1 DEF ConfigureSimulation
  <2>2. ASSUME NEW amount \in Amounts, AddVirtualTransaction(c, amount)
        PROVE  settings' \in [Learners -> {NoSettings} \cup Setting]
    <3>1. DEFAULT_SETTINGS \in Setting
      BY DEF DEFAULT_SETTINGS, Setting
    <3>2. QED
      BY <1>2, <2>2, <3>1 DEF AddVirtualTransaction
  <2>3. QED
    BY <2>1, <2>2
<1>4. GoalsTypeOK'
  BY <1>1, <1>3 DEF GoalsInv, GoalsTypeOK, Setting
<1>5. QED
  BY <1>1, <1>4 DEF GoalsInv, GoalsKept, OnePrimary, OneOpen

LEMMA GoalsStep ==
  ASSUME GoalsInv, [GoalsNext]_goalVars
  PROVE  GoalsInv' /\ GoalsKept
<1>1. CASE UNCHANGED goalVars
  BY <1>1 DEF goalVars, GoalsInv, GoalsTypeOK, OnePrimary, OneOpen, GoalsKept
<1>2. CASE GoalWrites
  BY <1>2, CreateGoalStep, AssignStep, SimulationStep, Zenon DEF GoalWrites
<1>3. CASE GoalMoves
  BY <1>3, SetPrimaryStep, ProgressStep, CompleteEducationStep, SimulationStep, Zenon DEF GoalMoves
<1>4. QED
  BY <1>1, <1>2, <1>3 DEF GoalsNext

LEMMA GoalsHold == GoalsSpec => []GoalsInv
<1>1. GoalsInv /\ [GoalsNext]_goalVars => GoalsInv'
  BY GoalsStep
<1>2. QED
  BY <1>1, GoalsInitInv, PTL DEF GoalsSpec

\* Goals, lessons and simulation settings keep their types.
THEOREM GoalsTypeCorrect == GoalsSpec => []GoalsTypeOK
<1>1. GoalsInv => GoalsTypeOK
  BY DEF GoalsInv
<1>2. QED
  BY <1>1, GoalsHold, PTL

\* A client has one primary goal at most, by whichever call it became primary,
\* and one open assignment of a lesson (createGoal, setPrimaryGoal and
\* assignEducation).
THEOREM OneGoalIsPrimary == GoalsSpec => []OneOfEach
<1>1. GoalsInv => OneOfEach
  BY DEF GoalsInv, OnePrimary, OneOpen, OneOfEach, OpenAssignments
<1>2. QED
  BY <1>1, GoalsHold, PTL


-----------------------------------------------------------------------------
(***************************************************************************)
(* The plan, documents and announcements.                                  *)
(***************************************************************************)

Action == [client : Members, status : DOMAIN ACTION_ALLOWED]
Document == [client : Members, status : DOMAIN DOCUMENT_ALLOWED]
Appointment == [client : Members, at : Nat \ {0}]
Note(now) == [client : Members, at : 0..now]
Preference(now) ==
  [user : Members, type : {p[1] : p \in Preferable}, channel : {p[2] : p \in Preferable},
   enabled : BOOLEAN, at : 0..now]
Announced ==
  UNION {[NOTIFICATION_DEFAULT_CHANNELS[t] -> DeliveryOutcome] :
         t \in DOMAIN NOTIFICATION_DEFAULT_CHANNELS}
Communication ==
  [user : Members, type : DOMAIN NOTIFICATION_DEFAULT_CHANNELS, outcome : Announced]

LEMMA PlanTypes ==
  PlanTypeOK <=>
    /\ clock \in 0..MaxTime /\ actions \in Seq(Action) /\ documents \in Seq(Document)
    /\ appointments \in Seq(Appointment) /\ notes \in Seq(Note(clock))
    /\ preferences \in Seq(Preference(clock)) /\ communications \in Seq(Communication)
BY DEF PlanTypeOK, Action, Document, Appointment, Note, Preference, Communication, Announced

\* Preferences are recorded in the order of their times.
PreferencesInOrder ==
  \A j, k \in DOMAIN preferences : j <= k => preferences[j].at <= preferences[k].at

PlanInv == PlanTypeOK /\ PreferencesInOrder

\* A step keeps whose document each is, and what was approved.
DocumentsKept ==
  \A k \in DOMAIN documents :
    /\ k \in DOMAIN documents' /\ documents'[k].client = documents[k].client
    /\ documents[k].status = "approved" => documents'[k].status = "approved"

LEMMA SeqWider ==
  ASSUME NEW S, NEW W, S \subseteq W, NEW s \in Seq(S)
  PROVE  s \in Seq(W)
<1>1. \A k \in DOMAIN s : s[k] \in W
  OBVIOUS
<1>2. DOMAIN s = 1..Len(s) /\ Len(s) \in Nat /\ s = [k \in 1..Len(s) |-> s[k]]
  OBVIOUS
<1>3. QED
  BY <1>1, <1>2

\* The latest by recordedAt is the last that was recorded.
LEMMA EnabledIsLastWord ==
  ASSUME PlanInv, NEW user, NEW type, NEW channel \in NOTIFICATION_DEFAULT_CHANNELS[type]
  PROVE  IsChannelEnabled(user, type, channel) <=> LastWord(user, type, channel)
<1> DEFINE own == Matching(user, type, channel)
           top == {k \in own : \A j \in own : preferences[j].at <= preferences[k].at}
<1>1. CASE own = {}
  BY <1>1 DEF IsChannelEnabled, LastWord
<1>2. CASE own # {}
  <2>1. own \in SUBSET (1..Len(preferences)) /\ Len(preferences) \in Nat
    BY DEF PlanInv, PlanTypeOK, Matching
  <2>2. PICK m \in own : \A j \in own : j <= m
    BY <1>2, <2>1, MaxOf
  <2>3. own \subseteq DOMAIN preferences
    BY DEF Matching
  <2>4. m \in top
    BY <2>2, <2>3 DEF PlanInv, PreferencesInOrder
  <2>5. \A k \in own : (\A j \in own : j <= k) => k = m
    BY <2>1, <2>2
  <2>6. \A k \in top : (\A j \in top : j <= k) => k = m
    BY <2>1, <2>2, <2>4
  <2>7. LastWord(user, type, channel) <=> preferences[m].enabled
    BY <1>2, <2>2, <2>5 DEF LastWord
  <2>8. \A j \in top : j <= m
    BY <2>2
  <2>9. IsChannelEnabled(user, type, channel) <=> preferences[m].enabled
    BY <1>2, <2>4, <2>6, <2>8 DEF IsChannelEnabled
  <2>10. QED
    BY <2>7, <2>9
<1>3. QED
  BY <1>1, <1>2

LEMMA LoggedType ==
  ASSUME PlanInv, NEW c \in Members, NEW type \in DOMAIN NOTIFICATION_DEFAULT_CHANNELS,
         LogNotification(c, type)
  PROVE  /\ communications' \in Seq(Communication)
         /\ DOMAIN communications' = 1..(Len(communications) + 1)
         /\ communications'[Len(communications) + 1] =
              [user |-> c, type |-> type, outcome |-> ResolveDelivery(c, type)]
<1> DEFINE comm == [user |-> c, type |-> type, outcome |-> ResolveDelivery(c, type)]
<1>1. ResolveDelivery(c, type) \in [NOTIFICATION_DEFAULT_CHANNELS[type] -> DeliveryOutcome]
  BY DEF ResolveDelivery, DeliveryOutcome
<1>2. comm \in Communication
  BY <1>1 DEF Communication, Announced
<1>3. communications' = Append(communications, comm) /\ communications \in Seq(Communication)
  BY PlanTypes DEF LogNotification, PlanInv
<1> HIDE DEF comm
<1>4. QED
  BY <1>2, <1>3 DEF comm

\* What the step says of an announcement it makes.
Governed ==
  \A k \in DOMAIN communications' \ DOMAIN communications :
    LET comm == communications'[k]
    IN  \A channel \in DOMAIN comm.outcome :
          comm.outcome[channel] = "sent" <=>
            /\ LastWord(comm.user, comm.type, channel)
            /\ IsExternalChannel(channel) => comm.user \in CommunicationOK

LEMMA LoggedIsGoverned ==
  ASSUME PlanInv, NEW c \in Members, NEW type \in DOMAIN NOTIFICATION_DEFAULT_CHANNELS,
         LogNotification(c, type)
  PROVE  Governed
<1>1. PICK n \in Nat : n = Len(communications)
  BY PlanTypes DEF PlanInv
<1>2. DOMAIN communications = 1..n
  BY <1>1, PlanTypes DEF PlanInv
<1>3. /\ DOMAIN communications' \ DOMAIN communications \subseteq {n + 1}
      /\ communications'[n + 1] = [user |-> c, type |-> type, outcome |-> ResolveDelivery(c, type)]
  BY <1>1, <1>2, LoggedType
<1>4. DOMAIN ResolveDelivery(c, type) = NOTIFICATION_DEFAULT_CHANNELS[type]
  BY DEF ResolveDelivery
<1>5. \A channel \in NOTIFICATION_DEFAULT_CHANNELS[type] :
        ResolveDelivery(c, type)[channel] = "sent" <=>
          /\ LastWord(c, type, channel)
          /\ IsExternalChannel(channel) => c \in CommunicationOK
  <2> SUFFICES ASSUME NEW channel \in NOTIFICATION_DEFAULT_CHANNELS[type]
               PROVE  ResolveDelivery(c, type)[channel] = "sent" <=>
                        /\ LastWord(c, type, channel)
                        /\ IsExternalChannel(channel) => c \in CommunicationOK
    OBVIOUS
  <2>1. IsChannelEnabled(c, type, channel) <=> LastWord(c, type, channel)
    BY EnabledIsLastWord
  <2>2. ResolveDelivery(c, type)[channel] = "sent" <=>
          IsChannelEnabled(c, type, channel) /\ (IsExternalChannel(channel) => c \in CommunicationOK)
    BY DEF ResolveDelivery
  <2>3. QED
    BY <2>1, <2>2
<1>6. QED
  BY <1>3, <1>4, <1>5 DEF Governed

LEMMA PlanInitInv == PlanInit => PlanInv
<1> SUFFICES ASSUME PlanInit PROVE PlanInv
  OBVIOUS
<1>1. PlanTypeOK
  BY PlanAssumption, PlanTypes DEF PlanInit
<1>2. QED
  BY <1>1 DEF PlanInit, PlanInv, PreferencesInOrder

\* Steps that write no preference and leave the clock alone.
LEMMA PlanKept ==
  ASSUME PlanInv, UNCHANGED <<clock, preferences>>, actions' \in Seq(Action),
         documents' \in Seq(Document), appointments' \in Seq(Appointment),
         notes' \in Seq(Note(clock)), communications' \in Seq(Communication)
  PROVE  PlanInv'
<1>1. PlanTypeOK'
  BY PlanTypes DEF PlanInv, PlanTypeOK, Action, Document, Appointment, Note, Preference,
     Communication, Announced
<1>2. QED
  BY <1>1 DEF PlanInv, PreferencesInOrder

\* A step that adds no announcement governs none.
LEMMA Silent == UNCHANGED communications => Governed
BY DEF Governed

LEMMA SameDocuments == UNCHANGED documents => DocumentsKept
BY DEF DocumentsKept

LEMMA PlanWritesStep ==
  ASSUME PlanInv, NEW c \in Members,
         \/ AddMonthlyAction(c) \/ RequestDocument(c) \/ AddNote(c)
         \/ \E at \in 0..MaxTime + 1 : ScheduleAppointment(c, at)
  PROVE  PlanInv' /\ DocumentsKept /\ Governed
<1>0. /\ clock \in 0..MaxTime /\ actions \in Seq(Action) /\ documents \in Seq(Document)
      /\ appointments \in Seq(Appointment) /\ notes \in Seq(Note(clock))
      /\ preferences \in Seq(Preference(clock)) /\ communications \in Seq(Communication)
  BY PlanTypes DEF PlanInv
<1>k. {"task_assigned", "document_requested", "appointment_scheduled"}
        \subseteq DOMAIN NOTIFICATION_DEFAULT_CHANNELS
  BY DEF NOTIFICATION_DEFAULT_CHANNELS
<1>1. CASE AddMonthlyAction(c)
  <2>1. LogNotification(c, "task_assigned")
    BY <1>1 DEF AddMonthlyAction
  <2>2. communications' \in Seq(Communication) /\ Governed
    BY <1>k, <2>1, LoggedType, LoggedIsGoverned
  <2>3. [client |-> c, status |-> "todo"] \in Action
    BY DEF Action, ACTION_ALLOWED
  <2>4. actions' \in Seq(Action)
    BY <1>0, <1>1, <2>3 DEF AddMonthlyAction
  <2>5. UNCHANGED <<clock, documents, appointments, notes, preferences>>
    BY <1>1 DEF AddMonthlyAction
  <2>6. QED
    BY <1>0, <2>2, <2>4, <2>5, PlanKept, SameDocuments
<1>2. CASE RequestDocument(c)
  <2> DEFINE row == [client |-> c, status |-> "requested"]
  <2>1. LogNotification(c, "document_requested")
    BY <1>2 DEF RequestDocument
  <2>2. communications' \in Seq(Communication) /\ Governed
    BY <1>k, <2>1, LoggedType, LoggedIsGoverned
  <2>3. row \in Document
    BY DEF Document, DOCUMENT_ALLOWED
  <2>4. documents' = Append(documents, row)
        /\ UNCHANGED <<clock, actions, appointments, notes, preferences>>
    BY <1>2 DEF RequestDocument
  <2> HIDE DEF row
  <2>5. documents' \in Seq(Document) /\ DocumentsKept
    BY <1>0, <2>3, <2>4 DEF DocumentsKept
  <2>6. QED
    BY <1>0, <2>2, <2>4, <2>5, PlanKept
<1>3. CASE AddNote(c)
  <2>1. [client |-> c, at |-> clock] \in Note(clock)
    BY <1>0, PlanAssumption DEF Note
  <2>2. notes' \in Seq(Note(clock))
    BY <1>0, <1>3, <2>1 DEF AddNote
  <2>3. UNCHANGED <<clock, actions, documents, appointments, preferences, communications>>
    BY <1>3 DEF AddNote
  <2>4. QED
    BY <1>0, <2>2, <2>3, PlanKept, SameDocuments, Silent
<1>4. ASSUME NEW at \in 0..MaxTime + 1, ScheduleAppointment(c, at)
      PROVE  PlanInv' /\ DocumentsKept /\ Governed
  <2>1. LogNotification(c, "appointment_scheduled") /\ at > clock
    BY <1>4 DEF ScheduleAppointment
  <2>2. communications' \in Seq(Communication) /\ Governed
    BY <1>k, <2>1, LoggedType, LoggedIsGoverned
  <2>3. [client |-> c, at |-> at] \in Appointment
    BY <1>0, <2>1, PlanAssumption DEF Appointment
  <2>4. appointments' \in Seq(Appointment)
    BY <1>0, <1>4, <2>3 DEF ScheduleAppointment
  <2>5. UNCHANGED <<clock, actions, documents, notes, preferences>>
    BY <1>4 DEF ScheduleAppointment
  <2>6. QED
    BY <1>0, <2>2, <2>4, <2>5, PlanKept, SameDocuments
<1>5. QED
  BY <1>1, <1>2, <1>3, <1>4

LEMMA PreferenceStep ==
  ASSUME PlanInv, NEW c \in Members, NEW p \in Preferable, NEW enabled \in BOOLEAN,
         SetNotificationPreference(c, p[1], p[2], enabled)
  PROVE  PlanInv' /\ DocumentsKept /\ Governed
<1> DEFINE row == [user |-> c, type |-> p[1], channel |-> p[2], enabled |-> enabled, at |-> clock]
<1>0. /\ clock \in 0..MaxTime /\ preferences \in Seq(Preference(clock))
      /\ \A k \in DOMAIN preferences : preferences[k] \in Preference(clock)
  BY PlanTypes DEF PlanInv
<1>1. row \in Preference(clock) /\ row.at = clock
  BY <1>0, PlanAssumption DEF Preference
<1>2. preferences' = Append(preferences, row)
      /\ UNCHANGED <<clock, actions, documents, appointments, notes, communications>>
  BY DEF SetNotificationPreference
<1> HIDE DEF row
<1>3. preferences' \in Seq(Preference(clock))
  BY <1>0, <1>1, <1>2
<1>4. PlanTypeOK'
  BY <1>2, <1>3, PlanTypes DEF PlanInv, PlanTypeOK, Preference
<1>5. PreferencesInOrder'
  <2>1. PICK n \in Nat : n = Len(preferences)
    BY <1>0
  <2>2. /\ DOMAIN preferences = 1..n /\ DOMAIN preferences' = 1..(n + 1)
        /\ preferences'[n + 1] = row /\ \A k \in 1..n : preferences'[k] = preferences[k]
    BY <1>0, <1>1, <1>2, <2>1
  <2>3. \A k \in 1..n : preferences[k].at \in 0..clock
    BY <1>0, <2>2 DEF Preference
  <2>4. \A k \in 1..(n + 1) : k = n + 1 \/ k \in 1..n
    OBVIOUS
  <2>5. \A j, k \in 1..n : j <= k => preferences[j].at <= preferences[k].at
    BY <2>2 DEF PlanInv, PreferencesInOrder
  <2>6. \A j \in 1..(n + 1), k \in 1..n : j <= k => j \in 1..n
    OBVIOUS
  <2>7. \A j \in 1..n : preferences'[j].at <= preferences'[n + 1].at
    BY <1>0, <1>1, <2>2, <2>3, PlanAssumption
  <2>8. preferences'[n + 1].at <= preferences'[n + 1].at
    BY <1>0, <1>1, <2>2, PlanAssumption
  <2>9. QED
    BY <2>2, <2>4, <2>5, <2>6, <2>7, <2>8 DEF PreferencesInOrder
<1>6. QED
  BY <1>2, <1>4, <1>5, SameDocuments, Silent DEF PlanInv

LEMMA PlanMovesStep ==
  ASSUME PlanInv, PlanMoves
  PROVE  PlanInv' /\ DocumentsKept /\ Governed
<1>0. /\ clock \in 0..MaxTime /\ actions \in Seq(Action) /\ documents \in Seq(Document)
      /\ appointments \in Seq(Appointment) /\ notes \in Seq(Note(clock))
      /\ preferences \in Seq(Preference(clock)) /\ communications \in Seq(Communication)
  BY PlanTypes DEF PlanInv
<1>1. ASSUME NEW k \in DOMAIN actions, NEW to \in DOMAIN ACTION_ALLOWED,
             TransitionMonthlyAction(k, to)
      PROVE  PlanInv' /\ DocumentsKept /\ Governed
  <2>1. actions[k] \in Action
    BY <1>0
  <2>2. [actions[k] EXCEPT !.status = to] \in Action
    BY <2>1 DEF Action
  <2>3. actions' \in Seq(Action)
    BY <1>0, <1>1, <2>2 DEF TransitionMonthlyAction
  <2>4. UNCHANGED <<clock, documents, appointments, notes, preferences, communications>>
    BY <1>1 DEF TransitionMonthlyAction
  <2>5. QED
    BY <1>0, <2>3, <2>4, PlanKept, SameDocuments, Silent
<1>2. ASSUME NEW k \in DOMAIN documents, NEW to \in DOMAIN DOCUMENT_ALLOWED,
             TransitionDocument(k, to)
      PROVE  PlanInv' /\ DocumentsKept /\ Governed
  <2>1. documents[k] \in Document
    BY <1>0
  <2>2. [documents[k] EXCEPT !.status = to] \in Document
        /\ [documents[k] EXCEPT !.status = to].client = documents[k].client
    BY <2>1 DEF Document
  <2>3. documents' = [documents EXCEPT ![k].status = to] /\ documents[k].status # "approved"
    BY <1>2, <2>1 DEF TransitionDocument, DOCUMENT_ALLOWED, Document
  <2>4. documents' \in Seq(Document) /\ DOMAIN documents' = DOMAIN documents
    BY <1>0, <2>2, <2>3
  <2>5. DocumentsKept
    BY <1>0, <2>2, <2>3, <2>4 DEF DocumentsKept
  <2>6. UNCHANGED <<clock, actions, appointments, notes, preferences, communications>>
    BY <1>2 DEF TransitionDocument
  <2>7. QED
    BY <1>0, <2>4, <2>5, <2>6, PlanKept, Silent
<1>3. CASE Tick
  <2>1. clock' = clock + 1 /\ clock' \in 0..MaxTime
        /\ UNCHANGED <<actions, documents, appointments, notes, preferences, communications>>
    BY <1>0, <1>3, PlanAssumption DEF Tick
  <2>2. 0..clock \subseteq 0..clock'
    BY <1>0, <2>1, PlanAssumption
  <2>3. Note(clock) \subseteq Note(clock') /\ Preference(clock) \subseteq Preference(clock')
    BY <2>2 DEF Note, Preference
  <2>4. notes \in Seq(Note(clock')) /\ preferences \in Seq(Preference(clock'))
    BY <1>0, <2>3, SeqWider
  <2>5. PlanTypeOK'
    BY <1>0, <2>1, <2>4
    DEF PlanTypeOK, Action, Document, Appointment, Note, Preference, Communication, Announced
  <2>6. QED
    BY <2>1, <2>5, SameDocuments, Silent DEF PlanInv, PreferencesInOrder
<1>4. QED
  BY <1>1, <1>2, <1>3, Zenon DEF PlanMoves

LEMMA PlanStep ==
  ASSUME PlanInv, [PlanNext]_planVars
  PROVE  PlanInv' /\ DocumentsKept /\ Governed
<1>1. CASE UNCHANGED planVars
  BY <1>1, SameDocuments, Silent DEF planVars, PlanInv, PlanTypeOK, PreferencesInOrder
<1>2. CASE PlanWrites
  BY <1>2, PlanWritesStep, PreferenceStep, Zenon DEF PlanWrites
<1>3. CASE PlanMoves
  BY <1>3, PlanMovesStep
<1>4. QED
  BY <1>1, <1>2, <1>3 DEF PlanNext

LEMMA PlanHolds == PlanSpec => []PlanInv
<1>1. PlanInv /\ [PlanNext]_planVars => PlanInv'
  BY PlanStep
<1>2. QED
  BY <1>1, PlanInitInv, PTL DEF PlanSpec

\* Actions, documents, appointments, notes, preferences and announcements keep
\* their types.
THEOREM PlanTypeCorrect == PlanSpec => []PlanTypeOK
<1>1. PlanInv => PlanTypeOK
  BY DEF PlanInv
<1>2. QED
  BY <1>1, PlanHolds, PTL

\* A channel carries an announcement exactly when the client's last word, by
\* the order they spoke in, leaves it on and consent allows it
\* (resolveDelivery, which looks for the latest recordedAt instead).
THEOREM ClientsLastWordGoverns == PlanSpec => LastWordGoverns
<1>1. PlanInv /\ [PlanNext]_planVars => Governed
  BY PlanStep
<1>2. QED
  BY <1>1, PlanHolds, PTL DEF PlanSpec, LastWordGoverns, Governed

-----------------------------------------------------------------------------
(***************************************************************************)
(* Referrals and handoff packages, beside the intake, the goals and the    *)
(* plan they read.                                                         *)
(***************************************************************************)

Referral ==
  [client : Clients, partner : ActivePartners, status : DOMAIN REFERRAL_ALLOWED,
   shared : BOOLEAN, outcome : SUBSET Outcomes]

Package(now, rows) ==
  [client : Clients, issuedAt : 0..now, expiresAt : Nat, revoked : BOOLEAN,
   stage : LifecycleStage, goal : SUBSET rows, approved : Nat]

LEMMA SharingTypes ==
  SharingTypeOK <=>
    referrals \in Seq(Referral) /\ packages \in Seq(Package(clock, DOMAIN goals))
BY DEF SharingTypeOK, Referral, Package

LEMMA ApprovedIsNatural ==
  ASSUME PlanInv, NEW c
  PROVE  /\ IsFiniteSet({k \in DOMAIN documents :
                           documents[k].client = c /\ documents[k].status = "approved"})
         /\ ApprovedDocuments(c) \in Nat
<1> DEFINE own == {k \in DOMAIN documents :
                     documents[k].client = c /\ documents[k].status = "approved"}
<1>1. Len(documents) \in Nat /\ DOMAIN documents = 1..Len(documents)
  BY DEF PlanInv, PlanTypeOK
<1>2. IsFiniteSet(1..Len(documents))
  BY <1>1, FS_Interval
<1>3. own \subseteq 1..Len(documents)
  BY <1>1
<1>4. IsFiniteSet(own)
  BY <1>2, <1>3, FS_Subset
<1>5. QED
  BY <1>4, FS_CardinalityType DEF ApprovedDocuments

LEMMA ApprovedKept ==
  ASSUME PlanInv, PlanInv', DocumentsKept, NEW c
  PROVE  ApprovedDocuments(c) <= ApprovedDocuments(c)'
<1> DEFINE own == {k \in DOMAIN documents :
                     documents[k].client = c /\ documents[k].status = "approved"}
           next == {k \in DOMAIN documents' :
                     documents'[k].client = c /\ documents'[k].status = "approved"}
<1>1. own \subseteq next
  BY DEF DocumentsKept
<1>2. ApprovedDocuments(c)' = Cardinality(next) /\ ApprovedDocuments(c) = Cardinality(own)
  BY DEF ApprovedDocuments
<1>3. IsFiniteSet(next)
  <2>1. Len(documents') \in Nat /\ DOMAIN documents' = 1..Len(documents')
    BY DEF PlanInv, PlanTypeOK
  <2>2. IsFiniteSet(1..Len(documents'))
    BY <2>1, FS_Interval
  <2>3. next \subseteq 1..Len(documents')
    BY <2>1
  <2>4. QED
    BY <2>2, <2>3, FS_Subset
<1> HIDE DEF own, next
<1>4. Cardinality(own) <= Cardinality(next)
  BY <1>1, <1>3, FS_Subset
<1>5. QED
  BY <1>2, <1>4

\* An assessment, once recorded, stays what it is.
AssessmentsKept ==
  \A k \in DOMAIN assessments : k \in DOMAIN assessments' /\ assessments'[k] = assessments[k]

LEMMA IntakeStepKeeps ==
  ASSUME IntakeTypeOK, [IntakeNext]_intakeVars
  PROVE  AssessmentsKept
<1>1. \/ UNCHANGED assessments \/ \E a : assessments' = Append(assessments, a)
  <2>1. ASSUME NEW c \in Clients, RunReadinessAssessment(c)
        PROVE  \E a : assessments' = Append(assessments, a)
    BY <2>1, Zenon DEF RunReadinessAssessment
  <2>2. ASSUME NEW c \in Clients,
               \/ \E to \in StageIds, reversal \in BOOLEAN : AdvanceLead(c, to, reversal)
               \/ \E s \in Sections : CompleteIntakeSection(c, s)
               \/ CompleteIntake(c)
        PROVE  UNCHANGED assessments
    BY <2>2, Zenon DEF AdvanceLead, CompleteIntakeSection, CompleteIntake
  <2>3. CASE UNCHANGED intakeVars
    BY <2>3 DEF intakeVars
  <2>4. QED
    BY <2>1, <2>2, <2>3, Zenon DEF IntakeNext
<1>2. CASE UNCHANGED assessments
  BY <1>2 DEF AssessmentsKept
<1>3. ASSUME NEW a, assessments' = Append(assessments, a)
      PROVE  AssessmentsKept
  BY <1>3, IntakeTypes DEF AssessmentsKept
<1>4. QED
  BY <1>1, <1>2, <1>3

\* What a referral's status says of what came before.
Shared(referral) ==
  /\ referral.status \in {"shared_with_client", "client_engaged", "outcome_recorded"} =>
       referral.shared
  /\ referral.status = "outcome_recorded" <=> referral.outcome # {}

\* What a package says holds, whether it still verifies or not.
StageKnown(c, stage) ==
  \/ stage = EarlierStage[c]
  \/ \E a \in DOMAIN assessments : assessments[a].client = c /\ assessments[a].stage = stage

Holds(p) ==
  /\ p.client \in SharingOK /\ p.expiresAt = p.issuedAt + Validity
  /\ p.approved <= ApprovedDocuments(p.client)
  /\ \A g \in p.goal : goals[g].client = p.client /\ \A h \in p.goal : g = h
  /\ StageKnown(p.client, p.stage)

AllShared == \A k \in DOMAIN referrals : Shared(referrals[k])
AllHold == \A k \in DOMAIN packages : Holds(packages[k])

SharingInv ==
  /\ IntakeTypeOK /\ GoalsInv /\ PlanInv
  /\ SharingTypeOK /\ AllShared /\ AllHold

LEMMA SharingInitInv == SharingInit => SharingInv
<1> SUFFICES ASSUME SharingInit PROVE SharingInv
  OBVIOUS
<1>1. IntakeTypeOK /\ GoalsInv /\ PlanInv
  BY IntakeTypesInit, GoalsInitInv, PlanInitInv DEF SharingInit
<1>2. SharingTypeOK
  BY SharingTypes DEF SharingInit
<1>3. QED
  BY <1>1, <1>2 DEF SharingInv, SharingInit, AllShared, AllHold

\* A package goes on holding while the others move on.
LEMMA HoldsOn ==
  ASSUME SharingInv, PlanInv', GoalsKept, DocumentsKept, AssessmentsKept,
         NEW p \in Package(clock, DOMAIN goals), Holds(p)
  PROVE  Holds(p)'
<1>1. p.goal \subseteq DOMAIN goals /\ p.approved \in Nat
  BY DEF Package
<1>2. \A g \in p.goal : goals'[g].client = p.client
  BY <1>1 DEF GoalsKept, Holds
<1>3. p.approved <= ApprovedDocuments(p.client)'
  <2>1. ApprovedDocuments(p.client) <= ApprovedDocuments(p.client)'
    BY ApprovedKept DEF SharingInv
  <2>2. PICK n \in Nat : n = ApprovedDocuments(p.client)
    BY ApprovedIsNatural DEF SharingInv
  <2>3. ApprovedDocuments(p.client)' \in Nat
    <3>1. PlanInv' => ApprovedDocuments(p.client)' \in Nat
      <4>1. Len(documents') \in Nat /\ DOMAIN documents' = 1..Len(documents')
        BY DEF PlanInv, PlanTypeOK
      <4>2. IsFiniteSet(1..Len(documents'))
        BY <4>1, FS_Interval
      <4>3. {k \in DOMAIN documents' :
               documents'[k].client = p.client /\ documents'[k].status = "approved"}
              \subseteq 1..Len(documents')
        BY <4>1
      <4>4. QED
        BY <4>2, <4>3, FS_Subset, FS_CardinalityType DEF ApprovedDocuments
    <3>2. QED
      BY <3>1
  <2>4. p.approved <= n
    BY <2>2 DEF Holds
  <2>5. QED
    BY <1>1, <2>1, <2>2, <2>3, <2>4
<1>4. StageKnown(p.client, p.stage)'
  BY DEF Holds, StageKnown, AssessmentsKept
<1>5. QED
  BY <1>2, <1>3, <1>4 DEF Holds

\* A step of the intake, the goals or the plan leaves the invariant true.
LEMMA OthersStep ==
  ASSUME SharingInv, UNCHANGED sharingVars, IntakeTypeOK', GoalsInv', PlanInv',
         GoalsKept, DocumentsKept, AssessmentsKept, clock <= clock'
  PROVE  SharingInv'
<1>1. packages \in Seq(Package(clock, DOMAIN goals)) /\ UNCHANGED <<referrals, packages>>
  BY SharingTypes DEF SharingInv, sharingVars
<1>2. 0..clock \subseteq 0..clock' /\ DOMAIN goals \subseteq DOMAIN goals'
  BY DEF GoalsKept, SharingInv, PlanInv, PlanTypeOK
<1>3. Package(clock, DOMAIN goals) \subseteq Package(clock', DOMAIN goals')
  BY <1>2 DEF Package
<1>4. packages \in Seq(Package(clock', DOMAIN goals'))
  BY <1>1, <1>3, SeqWider
<1>5. SharingTypeOK'
  BY <1>1, <1>4, SharingTypes DEF SharingInv, SharingTypeOK, Package
<1>6. AllHold'
  <2> SUFFICES ASSUME NEW k \in DOMAIN packages PROVE Holds(packages[k])'
    BY <1>1 DEF AllHold
  <2>1. packages[k] \in Package(clock, DOMAIN goals) /\ Holds(packages[k])
    BY <1>1 DEF SharingInv, AllHold
  <2>2. PICK p : p = packages[k]
    OBVIOUS
  <2>3. Holds(p)'
    BY <2>1, <2>2, HoldsOn
  <2>4. packages'[k] = p
    BY <1>1, <2>2
  <2>5. QED
    BY <2>3, <2>4 DEF Holds, StageKnown, ApprovedDocuments
<1>7. AllShared'
  BY <1>1 DEF SharingInv, AllShared, Shared
<1>8. QED
  BY <1>5, <1>6, <1>7 DEF SharingInv

LEMMA ReferralFlow ==
  ASSUME NEW s \in DOMAIN REFERRAL_ALLOWED
  PROVE  /\ "outcome_recorded" \in REFERRAL_ALLOWED[s] => s = "client_engaged"
         /\ "client_engaged" \in REFERRAL_ALLOWED[s] => s = "shared_with_client"
         /\ s = "outcome_recorded" => REFERRAL_ALLOWED[s] = {}
<1>1. s \in {"suggested", "shared_with_client", "client_engaged", "outcome_recorded", "declined"}
  BY DEF REFERRAL_ALLOWED
<1>2. CASE s = "suggested"
  BY <1>2 DEF REFERRAL_ALLOWED
<1>3. CASE s = "shared_with_client"
  BY <1>3 DEF REFERRAL_ALLOWED
<1>4. CASE s = "client_engaged"
  BY <1>4 DEF REFERRAL_ALLOWED
<1>5. CASE s \in {"outcome_recorded", "declined"}
  BY <1>5 DEF REFERRAL_ALLOWED
<1>6. QED
  BY <1>1, <1>2, <1>3, <1>4, <1>5

LEMMA ReferralStep ==
  ASSUME SharingInv,
         \/ \E c \in Clients, partner \in ActivePartners, filled \in {NEUTRALITY_FIELDS, {}} :
              CreateReferral(c, partner, filled)
         \/ \E k \in DOMAIN referrals :
              \/ \E to \in DOMAIN REFERRAL_ALLOWED : TransitionReferral(k, to)
              \/ \E outcome \in Outcomes : RecordReferralOutcome(k, outcome)
  PROVE  referrals' \in Seq(Referral) /\ AllShared' /\ UNCHANGED packages
<1>0. referrals \in Seq(Referral) /\ \A k \in DOMAIN referrals : referrals[k] \in Referral
  BY SharingTypes DEF SharingInv
<1>1. ASSUME NEW c \in Clients, NEW partner \in ActivePartners, NEW filled,
             CreateReferral(c, partner, filled)
      PROVE  referrals' \in Seq(Referral) /\ AllShared' /\ UNCHANGED packages
  <2> DEFINE row == [client |-> c, partner |-> partner, status |-> "suggested",
                     shared |-> FALSE, outcome |-> {}]
  <2>1. row \in Referral /\ Shared(row)
    BY DEF Referral, Shared, REFERRAL_ALLOWED
  <2>2. referrals' = Append(referrals, row) /\ UNCHANGED packages
    BY <1>1 DEF CreateReferral
  <2> HIDE DEF row
  <2>3. QED
    BY <1>0, <2>1, <2>2 DEF SharingInv, AllShared, Shared
<1>2. ASSUME NEW k \in DOMAIN referrals, NEW to \in DOMAIN REFERRAL_ALLOWED,
             TransitionReferral(k, to)
      PROVE  referrals' \in Seq(Referral) /\ AllShared' /\ UNCHANGED packages
  <2> DEFINE row == [referrals[k] EXCEPT !.status = to, !.shared = @ \/ to = "shared_with_client"]
  <2>1. referrals[k] \in Referral /\ Shared(referrals[k])
    BY <1>0 DEF SharingInv, AllShared
  <2>2. /\ row \in Referral /\ row.status = to /\ row.outcome = referrals[k].outcome
        /\ row.shared = (referrals[k].shared \/ to = "shared_with_client")
    BY <2>1 DEF Referral
  <2>3. to # "outcome_recorded" /\ referrals[k].status # "outcome_recorded"
        /\ (to = "client_engaged" => referrals[k].status = "shared_with_client")
    <3>1. referrals[k].status \in DOMAIN REFERRAL_ALLOWED
          /\ to \in REFERRAL_ALLOWED[referrals[k].status] /\ to # "outcome_recorded"
      BY <1>2, <2>1 DEF TransitionReferral, Referral
    <3>2. QED
      BY <3>1, ReferralFlow
  <2>4. Shared(row)
    BY <2>1, <2>2, <2>3 DEF Shared
  <2>5. referrals' = [referrals EXCEPT ![k] = row] /\ UNCHANGED packages
    BY <1>2 DEF TransitionReferral
  <2> HIDE DEF row
  <2>6. QED
    BY <1>0, <2>2, <2>4, <2>5 DEF SharingInv, AllShared, Shared
<1>3. ASSUME NEW k \in DOMAIN referrals, NEW outcome \in Outcomes,
             RecordReferralOutcome(k, outcome)
      PROVE  referrals' \in Seq(Referral) /\ AllShared' /\ UNCHANGED packages
  <2> DEFINE row == [referrals[k] EXCEPT !.status = "outcome_recorded", !.outcome = {outcome}]
  <2>1. referrals[k] \in Referral /\ Shared(referrals[k])
    BY <1>0 DEF SharingInv, AllShared
  <2>2. /\ row \in Referral /\ row.status = "outcome_recorded" /\ row.outcome = {outcome}
        /\ row.shared = referrals[k].shared
    BY <2>1 DEF Referral, REFERRAL_ALLOWED
  <2>3. referrals[k].status = "client_engaged"
    <3>1. referrals[k].status \in DOMAIN REFERRAL_ALLOWED
          /\ "outcome_recorded" \in REFERRAL_ALLOWED[referrals[k].status]
      BY <1>3, <2>1 DEF RecordReferralOutcome, Referral
    <3>2. QED
      BY <3>1, ReferralFlow
  <2>4. Shared(row)
    BY <2>1, <2>2, <2>3 DEF Shared
  <2>5. referrals' = [referrals EXCEPT ![k] = row] /\ UNCHANGED packages
    BY <1>3 DEF RecordReferralOutcome
  <2> HIDE DEF row
  <2>6. referrals' \in Seq(Referral)
    BY <1>0, <2>2, <2>5
  <2>7. \A j \in DOMAIN referrals' : j \in DOMAIN referrals
          /\ referrals'[j] = IF j = k THEN row ELSE referrals[j]
    BY <1>0, <2>5
  <2>8. \A j \in DOMAIN referrals' : Shared(referrals'[j])
    BY <2>4, <2>7 DEF SharingInv, AllShared
  <2>9. QED
    BY <2>5, <2>6, <2>8 DEF AllShared, Shared
<1>4. QED
  BY <1>1, <1>2, <1>3, Zenon

LEMMA PackageStep ==
  ASSUME SharingInv, UNCHANGED <<intakeVars, goalVars, planVars>>,
         \/ \E c \in Clients : GenerateHandoffPackage(c)
         \/ \E k \in DOMAIN packages : RevokeHandoffPackage(k)
  PROVE  packages' \in Seq(Package(clock, DOMAIN goals))
         /\ (\A k \in DOMAIN packages' : Holds(packages'[k])) /\ UNCHANGED referrals
<1> DEFINE Pack == Package(clock, DOMAIN goals)
<1>0. packages \in Seq(Pack) /\ \A k \in DOMAIN packages : packages[k] \in Pack /\ Holds(packages[k])
  BY SharingTypes DEF SharingInv, AllHold
<1>1. ASSUME NEW c \in Clients, GenerateHandoffPackage(c)
      PROVE  packages' \in Seq(Pack) /\ (\A k \in DOMAIN packages' : Holds(packages'[k]))
             /\ UNCHANGED referrals
  <2> DEFINE p == [client |-> c, issuedAt |-> clock, expiresAt |-> clock + Validity,
                   revoked |-> FALSE, stage |-> LatestStage(c), goal |-> PrimaryGoals(c),
                   approved |-> ApprovedDocuments(c)]
  <2>1. clock \in Nat /\ Validity \in Nat /\ clock \in 0..clock
    BY PlanAssumption, SharingAssumption DEF SharingInv, PlanInv, PlanTypeOK
  <2>2. LatestStage(c) \in LifecycleStage
    BY <1>1, LatestStageType DEF GenerateHandoffPackage, SharingInv
  <2>3. PrimaryGoals(c) \subseteq DOMAIN goals
    BY DEF PrimaryGoals
  <2>4. ApprovedDocuments(c) \in Nat
    BY ApprovedIsNatural DEF SharingInv
  <2>5. p \in Pack
    BY <2>1, <2>2, <2>3, <2>4 DEF Package
  <2>6. \A g \in PrimaryGoals(c) : goals[g].client = c /\ \A h \in PrimaryGoals(c) : g = h
    BY SharingAssumption DEF PrimaryGoals, SharingInv, GoalsInv, OnePrimary
  <2>7. StageKnown(c, LatestStage(c))
    BY LatestStageOf DEF StageKnown, SharingInv
  <2>8. c \in SharingOK
    BY <1>1 DEF GenerateHandoffPackage
  <2>9. Holds(p)
    BY <2>4, <2>6, <2>7, <2>8 DEF Holds
  <2>10. packages' = Append(packages, p) /\ UNCHANGED referrals
    BY <1>1, Zenon DEF GenerateHandoffPackage
  <2> HIDE DEF p, Pack
  <2>11. packages' \in Seq(Pack)
    BY <1>0, <2>5, <2>10
  <2>12. \A k \in DOMAIN packages' : packages'[k] = p \/ (k \in DOMAIN packages /\ packages'[k] = packages[k])
    BY <1>0, <2>5, <2>10
  <2>13. QED
    BY <1>0, <2>9, <2>10, <2>11, <2>12
<1>2. ASSUME NEW r \in DOMAIN packages, RevokeHandoffPackage(r)
      PROVE  packages' \in Seq(Pack) /\ (\A k \in DOMAIN packages' : Holds(packages'[k]))
             /\ UNCHANGED referrals
  <2> DEFINE p == [packages[r] EXCEPT !.revoked = TRUE]
  <2>1. packages[r] \in Pack /\ Holds(packages[r])
    BY <1>0
  <2>2. /\ p \in Pack /\ p.client = packages[r].client /\ p.issuedAt = packages[r].issuedAt
        /\ p.expiresAt = packages[r].expiresAt /\ p.stage = packages[r].stage
        /\ p.goal = packages[r].goal /\ p.approved = packages[r].approved
    BY <2>1 DEF Package
  <2>3. Holds(p)
    BY <2>1, <2>2 DEF Holds
  <2>4. packages' = [packages EXCEPT ![r] = p] /\ UNCHANGED referrals
    BY <1>2 DEF RevokeHandoffPackage
  <2> HIDE DEF p, Pack
  <2>5. packages' \in Seq(Pack)
    BY <1>0, <2>2, <2>4
  <2>6. \A k \in DOMAIN packages' : packages'[k] = p \/ (k \in DOMAIN packages /\ packages'[k] = packages[k])
    BY <1>0, <2>4
  <2>7. QED
    BY <1>0, <2>3, <2>4, <2>5, <2>6
<1>3. QED
  BY <1>1, <1>2, Zenon

LEMMA SharingStepInv ==
  ASSUME SharingInv, SharingStep, UNCHANGED <<intakeVars, goalVars, planVars>>
  PROVE  SharingInv'
<1>0. /\ UNCHANGED <<records, intakes, moves, assessments, goals, lessons, settings, clock,
                     actions, documents, appointments, notes, preferences, communications>>
      /\ referrals \in Seq(Referral) /\ packages \in Seq(Package(clock, DOMAIN goals))
  BY SharingTypes DEF SharingInv, intakeVars, goalVars, planVars
<1>1. IntakeTypeOK' /\ GoalsInv' /\ PlanInv'
  BY <1>0 DEF SharingInv, IntakeTypeOK, GoalsInv, GoalsTypeOK, OnePrimary, OneOpen, PlanInv,
     PlanTypeOK, PreferencesInOrder
<1>i. ASSUME referrals' \in Seq(Referral), packages' \in Seq(Package(clock, DOMAIN goals)),
             AllShared', \A k \in DOMAIN packages' : Holds(packages'[k])
      PROVE  SharingInv'
  <2>1. SharingTypeOK'
    BY <1>0, <1>i DEF SharingTypeOK, Referral, Package
  <2>2. AllHold'
    BY <1>0, <1>i DEF AllHold, Holds, ApprovedDocuments, StageKnown
  <2>3. QED
    BY <1>1, <1>i, <2>1, <2>2 DEF SharingInv
<1>2. CASE \/ \E c \in Clients, partner \in ActivePartners, filled \in {NEUTRALITY_FIELDS, {}} :
                CreateReferral(c, partner, filled)
           \/ \E k \in DOMAIN referrals :
                \/ \E to \in DOMAIN REFERRAL_ALLOWED : TransitionReferral(k, to)
                \/ \E outcome \in Outcomes : RecordReferralOutcome(k, outcome)
  <2>1. referrals' \in Seq(Referral) /\ AllShared' /\ UNCHANGED packages
    BY <1>2, ReferralStep
  <2>2. QED
    BY <1>0, <1>i, <2>1 DEF SharingInv, AllHold
<1>3. CASE \/ \E c \in Clients : GenerateHandoffPackage(c)
           \/ \E k \in DOMAIN packages : RevokeHandoffPackage(k)
  <2>1. packages' \in Seq(Package(clock, DOMAIN goals))
        /\ (\A k \in DOMAIN packages' : Holds(packages'[k])) /\ UNCHANGED referrals
    BY <1>3, PackageStep
  <2>2. AllShared'
    BY <2>1 DEF SharingInv, AllShared, Shared
  <2>3. QED
    BY <1>0, <1>i, <2>1, <2>2
<1>4. QED
  BY <1>2, <1>3, Zenon DEF SharingStep

LEMMA SharingNextInv ==
  ASSUME SharingInv, [SharingNext]_<<intakeVars, goalVars, planVars, sharingVars>>
  PROVE  SharingInv'
<1>0. IntakeTypeOK /\ GoalsInv /\ PlanInv /\ clock \in Int
  BY DEF SharingInv, PlanInv, PlanTypeOK
<1>1. CASE SharingStep /\ UNCHANGED <<intakeVars, goalVars, planVars>>
  BY <1>1, SharingStepInv
<1>2. CASE /\ [IntakeNext]_intakeVars /\ [GoalsNext]_goalVars /\ [PlanNext]_planVars
           /\ UNCHANGED sharingVars
  <2>1. IntakeTypeOK' /\ AssessmentsKept
    BY <1>0, <1>2, IntakeTypesNext, IntakeStepKeeps
  <2>2. GoalsInv' /\ GoalsKept
    BY <1>0, <1>2, GoalsStep
  <2>3. PlanInv' /\ DocumentsKept
    BY <1>0, <1>2, PlanStep
  <2>4. clock <= clock'
    <3>1. clock' = clock \/ clock' = clock + 1
      BY <1>2, Zenon DEF PlanNext, PlanWrites, PlanMoves, planVars, AddMonthlyAction,
         RequestDocument, ScheduleAppointment, AddNote, SetNotificationPreference,
         TransitionMonthlyAction, TransitionDocument, Tick
    <3>2. QED
      BY <1>0, <3>1
  <2>5. QED
    BY <1>2, <2>1, <2>2, <2>3, <2>4, OthersStep
<1>3. QED
  BY <1>1, <1>2, Zenon DEF SharingNext

LEMMA SharingHolds == SharingSpec => []SharingInv
<1>1. SharingInv /\ [SharingNext]_<<intakeVars, goalVars, planVars, sharingVars>> => SharingInv'
  BY SharingNextInv
<1>2. QED
  BY <1>1, SharingInitInv, PTL DEF SharingSpec

\* Referrals and handoff packages keep their types, beside everything else the
\* workspace writes.
THEOREM SharingTypeCorrect == SharingSpec => []SharingTypeOK
<1>1. SharingInv => SharingTypeOK
  BY DEF SharingInv
<1>2. QED
  BY <1>1, SharingHolds, PTL

\* A referral a client engages with, or of which an outcome is recorded, was
\* shared with the client first (transitionReferral, recordReferralOutcome).
THEOREM ReferralsAreSharedFirst == SharingSpec => []ReferralWasShared
<1>1. SharingInv => ReferralWasShared
  BY DEF SharingInv, AllShared, Shared, ReferralWasShared
<1>2. QED
  BY <1>1, SharingHolds, PTL

\* What a handoff package that verifies says of its client is still so,
\* whatever the intake, the goals and the documents have become since
\* (generateHandoffPackage, verifyHandoffPackage).
THEOREM ValidPackagesHold == SharingSpec => []ValidPackageHolds
<1>1. SharingInv => ValidPackageHolds
  <2> SUFFICES ASSUME SharingInv, NEW k \in DOMAIN packages, Verdict(packages[k]) = "VALID"
               PROVE  /\ Holds(packages[k])
                      /\ clock < packages[k].issuedAt + Validity
    BY DEF ValidPackageHolds, Holds, StageKnown
  <2>1. Holds(packages[k]) /\ packages[k] \in Package(clock, DOMAIN goals)
    BY SharingTypes DEF SharingInv, AllHold
  <2>2. packages[k].expiresAt = packages[k].issuedAt + Validity /\ packages[k].expiresAt \in Nat
        /\ clock \in Nat
    BY <2>1, PlanAssumption DEF Holds, Package, SharingInv, PlanInv, PlanTypeOK
  <2>3. ~(packages[k].expiresAt <= clock)
    BY DEF Verdict
  <2>4. QED
    BY <2>1, <2>2, <2>3
<1>2. QED
  BY <1>1, SharingHolds, PTL

-----------------------------------------------------------------------------
(***************************************************************************)
(* Conversations.                                                          *)
(***************************************************************************)

Row ==
  {[status |-> s, org |-> MsgClientOrg[c], client |-> c] : s \in {"open", "closed"}, c \in MsgClients}

Posted ==
  [thread : Threads, client : MsgClients, side : Sides, sender : Principals,
   read : [Sides -> BOOLEAN], readers : SUBSET Principals]

Call ==
  {NoCall} \cup [stage : {"opened", "named", "post"}, thread : Threads, ctx : Callers]
           \cup [stage : {"status"}, thread : Threads, to : {"open", "closed"}]

LEMMA MessagingTypes ==
  MessagingTypeOK <=>
    /\ runtime \in {"persistent", "demo"} /\ threads \in [Threads -> {NoThread} \cup Row]
    /\ messages \in Seq(Posted) /\ msgCalls \in [MsgRequests -> Call]
    /\ counted \in [Threads -> [Sides -> Nat]]
BY DEF MessagingTypeOK, Row, Posted, Call

\* Each message is of a thread there is, by and to its parties, under its client.
PartiesIn(row) ==
  {row.client} \cup {ctx.user : ctx \in {c \in Callers : IsStaff(c) /\ c.org = row.org}}

Private(message, row) ==
  /\ row # NoThread /\ message.client = row.client
  /\ message.sender \in PartiesIn(row) /\ message.readers \subseteq PartiesIn(row)

MessagesArePrivate == \A n \in DOMAIN messages : Private(messages[n], threads[messages[n].thread])

\* A request that has drafted a message or a change of status holds a thread
\* there is; who drafted is a party to it.
CallsArePrivate ==
  \A r \in MsgRequests :
    /\ msgCalls[r].stage \in {"post", "status"} => threads[msgCalls[r].thread] # NoThread
    /\ msgCalls[r].stage = "post" => SenderOf(msgCalls[r].ctx) \in PartiesOf(msgCalls[r].thread)

\* What a side has yet to read of a thread.
UnreadBy(t, side) ==
  {n \in DOMAIN messages :
     messages[n].thread = t /\ messages[n].side # side /\ ~messages[n].read[side]}

CountsAddUp ==
  \A t \in Threads, side \in Sides :
    counted[t][side] + Cardinality(UnreadBy(t, side)) = Cardinality(SentTo(t, side))

MessagingInv == MessagingTypeOK /\ MessagesArePrivate /\ CallsArePrivate /\ CountsAddUp

\* Threads there are stay those of their organization and client.
ThreadsKept ==
  \A t \in Threads : threads[t] # NoThread =>
    threads'[t] # NoThread /\ threads'[t].org = threads[t].org /\ threads'[t].client = threads[t].client

LEMMA PrivateOn ==
  ASSUME NEW m, NEW row, NEW next, next # NoThread, next.org = row.org, next.client = row.client,
         Private(m, row)
  PROVE  Private(m, next)
BY DEF Private, PartiesIn

LEMMA SomeThread ==
  ASSUME NEW row \in Row
  PROVE  row # NoThread /\ row.client \in MsgClients /\ row.status \in {"open", "closed"}
BY DEF Row, NoThread

LEMMA Parties ==
  ASSUME NEW ctx \in Callers, NEW t \in Threads, threads[t] # NoThread,
         \/ \E permission \in {"message.send", "message.read"} : MayLoad(ctx, permission, t)
         \/ IsParty(ctx, t)
  PROVE  SenderOf(ctx) \in PartiesOf(t)
<1>1. ctx.role \in ROLES /\ (ctx.role = "platform_admin" => ctx.org = Nil)
  BY MessagingAssumption
<1>2. CASE IsParty(ctx, t)
  BY <1>2 DEF IsParty, IsStaff, SenderOf, PartiesOf
<1>3. ASSUME NEW permission \in {"message.send", "message.read"}, MayLoad(ctx, permission, t)
      PROVE  SenderOf(ctx) \in PartiesOf(t)
  <2>1. /\ threads[t].org = ctx.org /\ ctx.org # Nil
        /\ Authorize(ctx, permission, ctx.org, threads[t].client)
    BY <1>3 DEF MayLoad, MayOn
  <2>2. permission \in CLIENT_SCOPED_PERMISSIONS
    BY DEF CLIENT_SCOPED_PERMISSIONS
  <2>3. CASE ctx.role = "client"
    BY <2>1, <2>2, <2>3 DEF Authorize, SenderOf, PartiesOf
  <2>4. CASE ctx.role # "client"
    BY <1>1, <2>1, <2>4 DEF IsStaff, SenderOf, PartiesOf
  <2>5. QED
    BY <2>3, <2>4
<1>4. QED
  BY <1>2, <1>3

LEMMA PartiesArePrincipals ==
  ASSUME MessagingTypeOK, NEW t \in Threads, threads[t] # NoThread
  PROVE  PartiesOf(t) \subseteq Principals
<1>1. threads[t].client \in MsgClients
  BY MessagingTypes, SomeThread
<1>2. QED
  BY <1>1 DEF PartiesOf, Principals

\* The parties stay the same while the thread does.
LEMMA PartiesKept ==
  ASSUME ThreadsKept, NEW t \in Threads, threads[t] # NoThread
  PROVE  PartiesOf(t)' = PartiesOf(t) /\ threads'[t] # NoThread
BY DEF ThreadsKept, PartiesOf

LEMMA IndexSets ==
  ASSUME NEW m, m \in Seq(Posted), NEW S, S \subseteq DOMAIN m
  PROVE  IsFiniteSet(S) /\ Cardinality(S) \in Nat
<1>1. Len(m) \in Nat /\ S \subseteq 1..Len(m)
  OBVIOUS
<1>2. IsFiniteSet(1..Len(m))
  BY <1>1, FS_Interval
<1>3. IsFiniteSet(S)
  BY <1>1, <1>2, FS_Subset
<1>4. QED
  BY <1>3, FS_CardinalityType

LEMMA MessagingInitInv == MessagingInit => MessagingInv
<1> SUFFICES ASSUME MessagingInit PROVE MessagingInv
  OBVIOUS
<1>1. MessagingTypeOK
  BY MessagingTypes DEF MessagingInit, Call
<1>2. MessagesArePrivate /\ CallsArePrivate
  BY DEF MessagingInit, MessagesArePrivate, CallsArePrivate, NoCall
<1>3. CountsAddUp
  <2> SUFFICES ASSUME NEW t \in Threads, NEW side \in Sides
               PROVE  counted[t][side] + Cardinality(UnreadBy(t, side)) = Cardinality(SentTo(t, side))
    BY DEF CountsAddUp
  <2>1. UnreadBy(t, side) = {} /\ SentTo(t, side) = {} /\ counted[t][side] = 0
    BY DEF MessagingInit, UnreadBy, SentTo
  <2>2. QED
    BY <2>1, FS_EmptySet
<1>4. QED
  BY <1>1, <1>2, <1>3 DEF MessagingInv

\* Steps that write no message.
LEMMA ThreadsMove ==
  ASSUME MessagingInv, UNCHANGED <<runtime, messages, counted>>, ThreadsKept,
         threads' \in [Threads -> {NoThread} \cup Row], msgCalls' \in [MsgRequests -> Call],
         CallsArePrivate'
  PROVE  MessagingInv'
<1>1. MessagingTypeOK'
  BY MessagingTypes DEF MessagingInv, MessagingTypeOK, Row, Posted, Call
<1>2. MessagesArePrivate'
  <2> SUFFICES ASSUME NEW n \in DOMAIN messages
               PROVE  Private(messages[n], threads'[messages[n].thread])
    BY DEF MessagesArePrivate
  <2>1. messages[n] \in Posted
    BY MessagingTypes DEF MessagingInv
  <2>2. messages[n].thread \in Threads /\ Private(messages[n], threads[messages[n].thread])
    BY <2>1 DEF Posted, MessagingInv, MessagesArePrivate
  <2>3. threads[messages[n].thread] # NoThread
    BY <2>2 DEF Private
  <2>4. QED
    BY <2>2, <2>3, PrivateOn DEF ThreadsKept
<1>3. CountsAddUp'
  BY DEF MessagingInv, CountsAddUp, UnreadBy, SentTo
<1>4. QED
  BY <1>1, <1>2, <1>3 DEF MessagingInv

\* One more message by a party of its thread.
LEMMA OneMoreMessage ==
  ASSUME MessagingInv, UNCHANGED counted, ThreadsKept, NEW m \in Posted,
         messages' = Append(messages, m), m.readers = {},
         \A side \in Sides : m.read[side] = (side = m.side),
         threads' \in [Threads -> {NoThread} \cup Row],
         threads'[m.thread] # NoThread, m.client = threads'[m.thread].client,
         m.sender \in PartiesOf(m.thread)'
  PROVE  /\ messages' \in Seq(Posted) /\ MessagesArePrivate' /\ CountsAddUp'
<1>0. messages \in Seq(Posted) /\ threads \in [Threads -> {NoThread} \cup Row]
  BY MessagingTypes DEF MessagingInv
<1>1. messages' \in Seq(Posted)
  BY <1>0
<1>2. PICK k \in Nat : k = Len(messages)
  BY <1>0
<1>3. /\ DOMAIN messages = 1..k /\ DOMAIN messages' = 1..(k + 1) /\ messages'[k + 1] = m
      /\ \A n \in 1..k : messages'[n] = messages[n] /\ messages[n] \in Posted
  BY <1>0, <1>2
<1>4. MessagesArePrivate'
  <2>1. ASSUME NEW n \in 1..k
        PROVE  Private(messages'[n], threads'[messages'[n].thread])
    <3>1. messages[n].thread \in Threads /\ messages'[n] = messages[n]
          /\ Private(messages[n], threads[messages[n].thread])
      BY <1>3 DEF Posted, MessagingInv, MessagesArePrivate
    <3>2. threads[messages[n].thread] # NoThread
      BY <3>1 DEF Private
    <3>3. Private(messages[n], threads'[messages[n].thread])
      BY <3>1, <3>2, PrivateOn DEF ThreadsKept
    <3>4. QED
      BY <3>1, <3>3
  <2>2. Private(messages'[k + 1], threads'[messages'[k + 1].thread])
    <3>1. m.sender \in PartiesIn(threads'[m.thread])
      BY DEF PartiesOf, PartiesIn
    <3>2. Private(m, threads'[m.thread])
      BY <3>1 DEF Private
    <3>3. QED
      BY <1>3, <3>2
  <2>3. \A n \in 1..(k + 1) : n \in 1..k \/ n = k + 1
    OBVIOUS
  <2>4. \A n \in DOMAIN messages' : Private(messages'[n], threads'[messages'[n].thread])
    BY <1>3, <2>1, <2>2, <2>3
  <2>5. QED
    BY <2>4 DEF MessagesArePrivate
<1>5. ASSUME NEW t \in Threads, NEW side \in Sides
      PROVE  counted[t][side] + Cardinality(UnreadBy(t, side)') = Cardinality(SentTo(t, side)')
  <2>1. counted[t][side] + Cardinality(UnreadBy(t, side)) = Cardinality(SentTo(t, side))
    BY DEF MessagingInv, CountsAddUp
  <2>2. counted[t][side] \in Nat
    BY MessagingTypes DEF MessagingInv
  <2>3. UnreadBy(t, side) \subseteq 1..k /\ SentTo(t, side) \subseteq 1..k
    BY <1>3 DEF UnreadBy, SentTo
  <2>4. /\ IsFiniteSet(UnreadBy(t, side)) /\ Cardinality(UnreadBy(t, side)) \in Nat
        /\ IsFiniteSet(SentTo(t, side)) /\ Cardinality(SentTo(t, side)) \in Nat
    BY <1>0, <1>3, <2>3, IndexSets
  <2>5. k + 1 \notin 1..k
    OBVIOUS
  <2>6. CASE m.thread = t /\ m.side # side
    <3>1. UnreadBy(t, side)' = UnreadBy(t, side) \cup {k + 1}
      <4>1. ~m.read[side]
        BY <2>6
      <4>2. \A n \in 1..(k + 1) : n \in 1..k \/ n = k + 1
        OBVIOUS
      <4>3. QED
        BY <1>3, <2>5, <2>6, <4>1, <4>2 DEF UnreadBy
    <3>2. SentTo(t, side)' = SentTo(t, side) \cup {k + 1}
      BY <1>3, <2>6 DEF SentTo
    <3>3. /\ Cardinality(UnreadBy(t, side) \cup {k + 1}) = Cardinality(UnreadBy(t, side)) + 1
          /\ Cardinality(SentTo(t, side) \cup {k + 1}) = Cardinality(SentTo(t, side)) + 1
      BY <2>3, <2>4, <2>5, FS_AddElement
    <3>4. QED
      BY <2>1, <2>2, <2>4, <3>1, <3>2, <3>3
  <2>7. CASE ~(m.thread = t /\ m.side # side)
    <3>1. UnreadBy(t, side)' = UnreadBy(t, side)
      BY <1>3, <2>7 DEF UnreadBy
    <3>2. SentTo(t, side)' = SentTo(t, side)
      BY <1>3, <2>7 DEF SentTo
    <3>3. QED
      BY <2>1, <3>1, <3>2
  <2>8. QED
    BY <2>6, <2>7
<1>6. CountsAddUp'
  BY <1>5 DEF CountsAddUp
<1>7. QED
  BY <1>1, <1>4, <1>6

\* A side reads what it had not read, and is told how much that was.
LEMMA MarkUnreadStep ==
  ASSUME MessagingInv, NEW t \in Threads, NEW side \in Sides, NEW reader,
         threads[t] # NoThread, reader \in PartiesOf(t), UNCHANGED threads,
         MarkUnread(t, side, reader)
  PROVE  /\ messages' \in Seq(Posted) /\ counted' \in [Threads -> [Sides -> Nat]]
         /\ MessagesArePrivate' /\ CountsAddUp'
<1> DEFINE unread == UnreadBy(t, side)
           read(n) == [messages[n] EXCEPT !.read[side] = TRUE, !.readers = @ \cup {reader}]
<1>0. /\ messages \in Seq(Posted) /\ \A n \in DOMAIN messages : messages[n] \in Posted
      /\ counted \in [Threads -> [Sides -> Nat]]
  BY MessagingTypes DEF MessagingInv
<1>1. /\ messages' = [n \in DOMAIN messages |-> IF n \in unread THEN read(n) ELSE messages[n]]
      /\ counted' = [counted EXCEPT ![t][side] = @ + Cardinality(unread)]
  BY DEF MarkUnread, UnreadBy
<1>2. reader \in Principals
  BY PartiesArePrincipals DEF MessagingInv
<1>3. ASSUME NEW n \in DOMAIN messages
      PROVE  /\ read(n) \in Posted
             /\ read(n).thread = messages[n].thread /\ read(n).client = messages[n].client
             /\ read(n).side = messages[n].side /\ read(n).sender = messages[n].sender
             /\ read(n).readers = messages[n].readers \cup {reader}
             /\ \A s \in Sides : read(n).read[s] = (s = side \/ messages[n].read[s])
  <2>1. messages[n] \in Posted
    BY <1>0
  <2>2. /\ read(n).thread = messages[n].thread /\ read(n).client = messages[n].client
        /\ read(n).side = messages[n].side /\ read(n).sender = messages[n].sender
        /\ read(n).readers = messages[n].readers \cup {reader}
        /\ read(n).read = [messages[n].read EXCEPT ![side] = TRUE]
    BY <2>1 DEF Posted
  <2>3. messages[n].read \in [Sides -> BOOLEAN] /\ messages[n].readers \in SUBSET Principals
    BY <2>1 DEF Posted
  <2>4. read(n) \in Posted
    BY <1>2, <2>1, <2>3 DEF Posted
  <2>5. \A s \in Sides : read(n).read[s] = (s = side \/ messages[n].read[s])
    BY <2>2, <2>3
  <2>6. QED
    BY <2>2, <2>4, <2>5
<1> HIDE DEF read
<1>4. /\ DOMAIN messages' = DOMAIN messages
      /\ \A n \in DOMAIN messages :
           messages'[n] = IF n \in unread THEN read(n) ELSE messages[n]
  BY <1>1
<1> HIDE DEF unread
<1>5. messages' \in Seq(Posted)
  <2>1. \A n \in DOMAIN messages : messages'[n] \in Posted
    BY <1>0, <1>3, <1>4
  <2>2. messages' = [n \in DOMAIN messages |-> messages'[n]]
    BY <1>1
  <2>3. QED
    BY <1>0, <1>4, <2>1, <2>2, RowsRewritten
<1>6. \A n \in DOMAIN messages :
        /\ messages'[n].thread = messages[n].thread /\ messages'[n].client = messages[n].client
        /\ messages'[n].side = messages[n].side /\ messages'[n].sender = messages[n].sender
  BY <1>3, <1>4
<1>7. MessagesArePrivate'
  <2> SUFFICES ASSUME NEW n \in DOMAIN messages
               PROVE  Private(messages'[n], threads[messages[n].thread])
    BY <1>4, <1>6 DEF MessagesArePrivate
  <2>1. Private(messages[n], threads[messages[n].thread])
    BY DEF MessagingInv, MessagesArePrivate
  <2>2. n \in unread => reader \in PartiesIn(threads[messages[n].thread])
    BY DEF unread, UnreadBy, PartiesOf, PartiesIn
  <2>3. messages'[n].readers \subseteq messages[n].readers \cup (IF n \in unread THEN {reader} ELSE {})
    BY <1>3, <1>4
  <2>4. QED
    BY <1>6, <2>1, <2>2, <2>3 DEF Private
<1>8. unread \subseteq DOMAIN messages /\ unread \subseteq SentTo(t, side)
  BY DEF unread, UnreadBy, SentTo
<1>9. Cardinality(unread) \in Nat
  BY <1>0, <1>8, IndexSets
<1>10. counted' \in [Threads -> [Sides -> Nat]]
  <2>1. counted[t][side] + Cardinality(unread) \in Nat
    BY <1>0, <1>9
  <2>2. QED
    BY <1>0, <1>1, <2>1
<1>11. ASSUME NEW u \in Threads, NEW s \in Sides
       PROVE  counted'[u][s] + Cardinality(UnreadBy(u, s)') = Cardinality(SentTo(u, s)')
  <2>1. SentTo(u, s)' = SentTo(u, s)
    BY <1>4, <1>6 DEF SentTo
  <2>2. counted[u][s] + Cardinality(UnreadBy(u, s)) = Cardinality(SentTo(u, s))
    BY DEF MessagingInv, CountsAddUp
  <2>3. CASE u = t /\ s = side
    <3>1. UnreadBy(u, s)' = {}
      BY <1>3, <1>4, <1>6, <2>3 DEF UnreadBy, unread
    <3>2. counted'[u][s] = counted[u][s] + Cardinality(UnreadBy(u, s))
      BY <1>0, <1>1, <2>3 DEF unread
    <3>3. counted[u][s] \in Nat /\ Cardinality(UnreadBy(u, s)) \in Nat
      BY <1>0, <1>9, <2>3 DEF unread
    <3>4. QED
      BY <2>1, <2>2, <3>1, <3>2, <3>3, FS_EmptySet
  <2>4. CASE ~(u = t /\ s = side)
    <3>1. UnreadBy(u, s)' = UnreadBy(u, s)
      BY <1>3, <1>4, <1>6, <2>4 DEF UnreadBy, unread
    <3>2. counted'[u][s] = counted[u][s]
      BY <1>0, <1>1, <2>4
    <3>3. QED
      BY <2>1, <2>2, <3>1, <3>2
  <2>5. QED
    BY <2>3, <2>4
<1>12. CountsAddUp'
  BY <1>11 DEF CountsAddUp
<1>13. QED
  BY <1>5, <1>7, <1>10, <1>12

LEMMA OpenRowType ==
  ASSUME NEW client \in MsgClients
  PROVE  OpenRow(client) \in Row /\ OpenRow(client) # NoThread
BY DEF OpenRow, Row, NoThread

\* A request that now holds `call`, the threads being what they were or one more.
LEMMA CallsMove ==
  ASSUME MessagingInv, ThreadsKept, NEW r \in MsgRequests, NEW call \in Call, CallOf(r, call),
         call.stage \in {"post", "status"} => threads'[call.thread] # NoThread,
         call.stage = "post" => SenderOf(call.ctx) \in PartiesIn(threads'[call.thread])
  PROVE  msgCalls' \in [MsgRequests -> Call] /\ CallsArePrivate'
<1>0. msgCalls \in [MsgRequests -> Call]
  BY MessagingTypes DEF MessagingInv
<1>1. msgCalls' = [msgCalls EXCEPT ![r] = call]
  BY DEF CallOf
<1>2. msgCalls' \in [MsgRequests -> Call]
  BY <1>0, <1>1
<1>3. ASSUME NEW q \in MsgRequests
      PROVE  /\ msgCalls'[q].stage \in {"post", "status"} => threads'[msgCalls'[q].thread] # NoThread
             /\ msgCalls'[q].stage = "post" =>
                  SenderOf(msgCalls'[q].ctx) \in PartiesIn(threads'[msgCalls'[q].thread])
  <2>1. CASE q = r
    BY <1>0, <1>1, <2>1
  <2>2. CASE q # r
    <3> DEFINE c == msgCalls[q]
    <3>1. msgCalls'[q] = c /\ c \in Call
      BY <1>0, <1>1, <2>2
    <3>2. /\ c.stage \in {"post", "status"} => threads[c.thread] # NoThread
          /\ c.stage = "post" => SenderOf(c.ctx) \in PartiesIn(threads[c.thread])
      BY DEF MessagingInv, CallsArePrivate, PartiesOf, PartiesIn
    <3>3. c.stage \in {"post", "status"} => c.thread \in Threads
      BY <3>1 DEF Call, NoCall
    <3> HIDE DEF c
    <3>4. QED
      BY <3>1, <3>2, <3>3 DEF ThreadsKept, PartiesIn
  <2>3. QED
    BY <2>1, <2>2
<1>4. CallsArePrivate'
  BY <1>3 DEF CallsArePrivate, PartiesOf, PartiesIn
<1>5. QED
  BY <1>2, <1>4

LEMMA SameThreads == UNCHANGED threads => ThreadsKept
BY DEF ThreadsKept

LEMMA OneMoreThread ==
  ASSUME MessagingTypeOK, NEW t \in Threads, NEW row \in Row, threads[t] = NoThread,
         threads' = [threads EXCEPT ![t] = row]
  PROVE  threads' \in [Threads -> {NoThread} \cup Row] /\ ThreadsKept /\ threads'[t] = row
<1>1. threads \in [Threads -> {NoThread} \cup Row]
  BY MessagingTypes
<1>2. QED
  BY <1>1 DEF ThreadsKept

LEMMA StatusChanged ==
  ASSUME MessagingTypeOK, NEW t \in Threads, NEW to \in {"open", "closed"}, threads[t] # NoThread,
         threads' = [threads EXCEPT ![t].status = to]
  PROVE  threads' \in [Threads -> {NoThread} \cup Row] /\ ThreadsKept
<1>1. threads \in [Threads -> {NoThread} \cup Row] /\ threads[t] \in Row
  BY MessagingTypes
<1>2. /\ [threads[t] EXCEPT !.status = to] \in Row
      /\ [threads[t] EXCEPT !.status = to].org = threads[t].org
      /\ [threads[t] EXCEPT !.status = to].client = threads[t].client
  <2>1. PICK s \in {"open", "closed"}, c \in MsgClients :
          threads[t] = [status |-> s, org |-> MsgClientOrg[c], client |-> c]
    BY <1>1 DEF Row
  <2>2. [threads[t] EXCEPT !.status = to] = [status |-> to, org |-> MsgClientOrg[c], client |-> c]
    BY <2>1
  <2>3. QED
    BY <2>1, <2>2 DEF Row
<1>3. [threads[t] EXCEPT !.status = to] # NoThread
  BY <1>2, SomeThread
<1>4. QED
  BY <1>1, <1>2, <1>3 DEF ThreadsKept

LEMMA ClientThere ==
  ASSUME MessagingTypeOK, NEW t \in Threads, threads[t] # NoThread
  PROVE  threads[t] \in Row /\ threads[t].client \in MsgClients
BY MessagingTypes, SomeThread

LEMMA CreateThreadStep ==
  ASSUME MessagingInv, NEW r \in MsgRequests, NEW ctx \in Callers, NEW t \in Threads,
         NEW client \in MsgClients, CreateThread(r, ctx, t, client)
  PROVE  MessagingInv'
<1>1. threads' = [threads EXCEPT ![t] = OpenRow(client)] /\ threads[t] = NoThread
      /\ UNCHANGED <<runtime, messages, counted>>
  BY DEF CreateThread, Persistent
<1>2. threads' \in [Threads -> {NoThread} \cup Row] /\ ThreadsKept
  BY <1>1, OpenRowType, OneMoreThread DEF MessagingInv
<1> DEFINE call == [stage |-> "opened", thread |-> t, ctx |-> ctx]
<1>3. call \in Call /\ call.stage = "opened" /\ CallOf(r, call)
  BY DEF Call, CreateThread
<1> HIDE DEF call
<1>4. msgCalls' \in [MsgRequests -> Call] /\ CallsArePrivate'
  BY <1>2, <1>3, CallsMove
<1>5. QED
  BY <1>1, <1>2, <1>4, ThreadsMove

LEMMA NameThreadStep ==
  ASSUME MessagingInv, NEW r \in MsgRequests, NEW ctx \in Callers, NEW t \in Threads,
         NameThread(r, ctx, t)
  PROVE  MessagingInv'
<1>1. UNCHANGED <<runtime, threads, messages, counted>>
  BY DEF NameThread, Persistent
<1> DEFINE call == [stage |-> "named", thread |-> t, ctx |-> ctx]
<1>2. call \in Call /\ call.stage = "named" /\ CallOf(r, call)
  BY DEF Call, NameThread
<1> HIDE DEF call
<1>3. msgCalls' \in [MsgRequests -> Call] /\ CallsArePrivate'
  BY <1>1, <1>2, CallsMove, SameThreads
<1>4. threads' \in [Threads -> {NoThread} \cup Row]
  BY <1>1, MessagingTypes DEF MessagingInv
<1>5. QED
  BY <1>1, <1>3, <1>4, ThreadsMove, SameThreads

LEMMA BeginPostStep ==
  ASSUME MessagingInv, NEW r \in MsgRequests, NEW ctx \in Callers, NEW t \in Threads,
         BeginPost(r, ctx, t)
  PROVE  MessagingInv'
<1>1. UNCHANGED <<runtime, threads, messages, counted>> /\ MayLoad(ctx, "message.send", t)
  BY DEF BeginPost, Persistent, Drafted
<1>2. threads[t] # NoThread
  BY <1>1 DEF MayLoad
<1>3. SenderOf(ctx) \in PartiesIn(threads[t])
  BY <1>1, <1>2, Parties DEF PartiesOf, PartiesIn
<1> DEFINE call == [stage |-> "post", thread |-> t, ctx |-> ctx]
<1>4. call \in Call /\ call.thread = t /\ call.ctx = ctx /\ CallOf(r, call)
  BY DEF Call, BeginPost
<1> HIDE DEF call
<1>5. msgCalls' \in [MsgRequests -> Call] /\ CallsArePrivate'
  BY <1>1, <1>2, <1>3, <1>4, CallsMove, SameThreads
<1>6. threads' \in [Threads -> {NoThread} \cup Row]
  BY <1>1, MessagingTypes DEF MessagingInv
<1>7. QED
  BY <1>1, <1>5, <1>6, ThreadsMove, SameThreads

LEMMA BeginSetStatusStep ==
  ASSUME MessagingInv, NEW r \in MsgRequests, NEW ctx \in Callers, NEW t \in Threads,
         NEW action \in DOMAIN TransitionThread, BeginSetStatus(r, ctx, t, action)
  PROVE  MessagingInv'
<1>1. UNCHANGED <<runtime, threads, messages, counted>> /\ threads[t] # NoThread
  BY DEF BeginSetStatus, Persistent, MayLoad
<1> DEFINE call == [stage |-> "status", thread |-> t, to |-> TransitionThread[action].to]
<1>2. TransitionThread[action].to \in {"open", "closed"}
  BY DEF TransitionThread
<1>3. call \in Call /\ call.stage = "status" /\ call.thread = t /\ CallOf(r, call)
  BY <1>2 DEF Call, BeginSetStatus
<1> HIDE DEF call
<1>4. msgCalls' \in [MsgRequests -> Call] /\ CallsArePrivate'
  BY <1>1, <1>3, CallsMove, SameThreads
<1>5. threads' \in [Threads -> {NoThread} \cup Row]
  BY <1>1, MessagingTypes DEF MessagingInv
<1>6. QED
  BY <1>1, <1>4, <1>5, ThreadsMove, SameThreads

\* A request that ends.
LEMMA Ends ==
  ASSUME MessagingInv, ThreadsKept, NEW r \in MsgRequests, CallOf(r, NoCall)
  PROVE  msgCalls' \in [MsgRequests -> Call] /\ CallsArePrivate'
<1>1. NoCall \in Call /\ NoCall.stage = "idle"
  BY DEF Call, NoCall
<1>2. QED
  BY <1>1, CallsMove

LEMMA CommitSetStatusStep ==
  ASSUME MessagingInv, NEW r \in MsgRequests, CommitSetStatus(r)
  PROVE  MessagingInv'
<1>0. msgCalls[r] \in Call /\ msgCalls[r].stage = "status"
  BY MessagingTypes DEF CommitSetStatus, MessagingInv
<1>1. PICK t \in Threads, to \in {"open", "closed"} :
        msgCalls[r] = [stage |-> "status", thread |-> t, to |-> to]
  BY <1>0 DEF Call, NoCall
<1>2. threads' = [threads EXCEPT ![t].status = to] /\ UNCHANGED <<runtime, messages, counted>>
      /\ CallOf(r, NoCall)
  BY <1>1 DEF CommitSetStatus, Persistent
<1>3. threads[t] # NoThread
  BY <1>1 DEF MessagingInv, CallsArePrivate
<1>4. threads' \in [Threads -> {NoThread} \cup Row] /\ ThreadsKept
  BY <1>2, <1>3, StatusChanged DEF MessagingInv
<1>5. QED
  BY <1>2, <1>4, Ends, ThreadsMove

LEMMA GiveUpStep ==
  ASSUME MessagingInv, NEW r \in MsgRequests, GiveUp(r)
  PROVE  MessagingInv'
<1>1. UNCHANGED <<runtime, threads, messages, counted>> /\ CallOf(r, NoCall)
  BY DEF GiveUp, Persistent
<1>2. threads' \in [Threads -> {NoThread} \cup Row]
  BY <1>1, MessagingTypes DEF MessagingInv
<1>3. QED
  BY <1>1, <1>2, Ends, ThreadsMove, SameThreads

LEMMA MessageType ==
  ASSUME MessagingTypeOK, NEW ctx \in Callers, NEW t \in Threads, threads[t] # NoThread,
         SenderOf(ctx) \in PartiesIn(threads[t])
  PROVE  LET m == Message(t, SideOf(ctx), SenderOf(ctx))
         IN  /\ m \in Posted /\ m.readers = {} /\ m.thread = t /\ m.client = threads[t].client
             /\ m.sender = SenderOf(ctx)
             /\ \A side \in Sides : m.read[side] = (side = m.side)
<1>1. threads[t].client \in MsgClients
  BY ClientThere
<1>2. SenderOf(ctx) \in Principals
  BY PartiesArePrincipals DEF PartiesOf, PartiesIn
<1>3. SideOf(ctx) \in Sides
  BY DEF SideOf, Sides
<1>4. QED
  BY <1>1, <1>2, <1>3 DEF Message, Posted

LEMMA CommitPostStep ==
  ASSUME MessagingInv, NEW r \in MsgRequests, CommitPost(r)
  PROVE  MessagingInv'
<1>0. msgCalls[r] \in Call /\ msgCalls[r].stage = "post"
  BY MessagingTypes DEF CommitPost, MessagingInv
<1>1. PICK t \in Threads, ctx \in Callers :
        msgCalls[r] = [stage |-> "post", thread |-> t, ctx |-> ctx]
  BY <1>0 DEF Call, NoCall
<1>11. PICK m : m = Message(t, SideOf(ctx), SenderOf(ctx))
  OBVIOUS
<1>2. messages' = Append(messages, m) /\ UNCHANGED <<runtime, threads, counted>>
      /\ CallOf(r, NoCall)
  BY <1>11, <1>1 DEF CommitPost, Persistent
<1>3. threads[t] # NoThread /\ SenderOf(ctx) \in PartiesIn(threads[t])
  BY <1>1 DEF MessagingInv, CallsArePrivate, PartiesOf, PartiesIn
<1>4. /\ m \in Posted /\ m.readers = {} /\ m.thread = t /\ m.client = threads[t].client
      /\ m.sender = SenderOf(ctx)
      /\ \A side \in Sides : m.read[side] = (side = m.side)
  BY <1>11, <1>3, MessageType DEF MessagingInv
<1>5. threads' \in [Threads -> {NoThread} \cup Row] /\ ThreadsKept
  BY <1>2, MessagingTypes, SameThreads DEF MessagingInv
<1>6. m.sender \in PartiesOf(m.thread)'
  BY <1>2, <1>3, <1>4 DEF PartiesOf, PartiesIn
<1>7. messages' \in Seq(Posted) /\ MessagesArePrivate' /\ CountsAddUp'
  BY <1>2, <1>3, <1>4, <1>5, <1>6, OneMoreMessage
<1>8. msgCalls' \in [MsgRequests -> Call] /\ CallsArePrivate'
  BY <1>2, <1>5, Ends
<1>9. MessagingTypeOK'
  BY <1>2, <1>7, <1>8, MessagingTypes DEF MessagingInv, MessagingTypeOK, Posted, Call
<1>10. QED
  BY <1>7, <1>8, <1>9 DEF MessagingInv

LEMMA MarkThreadReadStep ==
  ASSUME MessagingInv, NEW r \in MsgRequests, NEW ctx \in Callers, NEW t \in Threads,
         MarkThreadRead(r, ctx, t)
  PROVE  MessagingInv'
<1>1. /\ MayLoad(ctx, "message.read", t) /\ MarkUnread(t, SideOf(ctx), SenderOf(ctx))
      /\ CallOf(r, NoCall) /\ UNCHANGED <<runtime, threads>>
  BY DEF MarkThreadRead, Persistent
<1>2. threads[t] # NoThread /\ SideOf(ctx) \in Sides
  BY <1>1 DEF MayLoad, SideOf, Sides
<1>3. SenderOf(ctx) \in PartiesOf(t)
  BY <1>1, <1>2, Parties
<1>4. /\ messages' \in Seq(Posted) /\ counted' \in [Threads -> [Sides -> Nat]]
      /\ MessagesArePrivate' /\ CountsAddUp'
  BY <1>1, <1>2, <1>3, MarkUnreadStep
<1>5. msgCalls' \in [MsgRequests -> Call] /\ CallsArePrivate'
  BY <1>1, Ends, SameThreads
<1>6. MessagingTypeOK'
  BY <1>1, <1>4, <1>5, MessagingTypes DEF MessagingInv, MessagingTypeOK, Posted, Call
<1>7. QED
  BY <1>4, <1>5, <1>6 DEF MessagingInv

LEMMA SameCalls ==
  ASSUME MessagingInv, ThreadsKept, UNCHANGED msgCalls
  PROVE  msgCalls' \in [MsgRequests -> Call] /\ CallsArePrivate'
<1>0. msgCalls \in [MsgRequests -> Call]
  BY MessagingTypes DEF MessagingInv
<1>1. ASSUME NEW q \in MsgRequests
      PROVE  /\ msgCalls[q].stage \in {"post", "status"} => threads'[msgCalls[q].thread] # NoThread
             /\ msgCalls[q].stage = "post" =>
                  SenderOf(msgCalls[q].ctx) \in PartiesIn(threads'[msgCalls[q].thread])
  <2> DEFINE c == msgCalls[q]
  <2>1. c \in Call
    BY <1>0
  <2>2. /\ c.stage \in {"post", "status"} => threads[c.thread] # NoThread
        /\ c.stage = "post" => SenderOf(c.ctx) \in PartiesIn(threads[c.thread])
    BY DEF MessagingInv, CallsArePrivate, PartiesOf, PartiesIn
  <2>3. c.stage \in {"post", "status"} => c.thread \in Threads
    BY <2>1 DEF Call, NoCall
  <2> HIDE DEF c
  <2>4. /\ c.stage \in {"post", "status"} => threads'[c.thread] # NoThread
        /\ c.stage = "post" => SenderOf(c.ctx) \in PartiesIn(threads'[c.thread])
    BY <2>2, <2>3 DEF ThreadsKept, PartiesIn
  <2>5. QED
    BY <2>4 DEF c
<1>2. QED
  BY <1>0, <1>1 DEF CallsArePrivate, PartiesOf, PartiesIn

LEMMA OpenThreadStep ==
  ASSUME MessagingInv, NEW ctx \in Callers, NEW t \in Threads, NEW client \in MsgClients,
         OpenThread(ctx, t, client)
  PROVE  MessagingInv'
<1> DEFINE m == [thread |-> t, client |-> client, side |-> "staff", sender |-> ctx.user,
                 read |-> [s \in Sides |-> s = "staff"], readers |-> {}]
<1>1. /\ threads[t] = NoThread /\ threads' = [threads EXCEPT ![t] = OpenRow(client)]
      /\ messages' = Append(messages, m) /\ UNCHANGED <<runtime, msgCalls, counted>>
      /\ IsStaff(ctx) /\ MsgClientOrg[client] = ctx.org
  BY DEF OpenThread, Demo
<1>2. threads' \in [Threads -> {NoThread} \cup Row] /\ ThreadsKept /\ threads'[t] = OpenRow(client)
  BY <1>1, OpenRowType, OneMoreThread DEF MessagingInv
<1>3. ctx.user \in Principals /\ "staff" \in Sides
  BY DEF Principals, Sides
<1>4. /\ m \in Posted /\ m.readers = {} /\ m.thread = t /\ m.client = client /\ m.sender = ctx.user
      /\ \A side \in Sides : m.read[side] = (side = m.side)
  BY <1>3 DEF Posted
<1> HIDE DEF m
<1>5. m.sender \in PartiesOf(m.thread)'
  BY <1>1, <1>2, <1>4 DEF PartiesOf, OpenRow
<1>6. threads'[m.thread] # NoThread /\ m.client = threads'[m.thread].client
  BY <1>2, <1>4, OpenRowType DEF OpenRow
<1>7. messages' \in Seq(Posted) /\ MessagesArePrivate' /\ CountsAddUp'
  BY <1>1, <1>2, <1>4, <1>5, <1>6, OneMoreMessage
<1>8. msgCalls' \in [MsgRequests -> Call] /\ CallsArePrivate'
  BY <1>1, <1>2, SameCalls
<1>9. MessagingTypeOK'
  BY <1>1, <1>2, <1>7, <1>8, MessagingTypes DEF MessagingInv, MessagingTypeOK, Row, Posted, Call
<1>10. QED
  BY <1>7, <1>8, <1>9 DEF MessagingInv

LEMMA PostReplyStep ==
  ASSUME MessagingInv, NEW ctx \in Callers, NEW t \in Threads, PostReply(ctx, t)
  PROVE  MessagingInv'
<1>0. PICK m : m = Message(t, SideOf(ctx), SenderOf(ctx))
  OBVIOUS
<1>1. /\ IsParty(ctx, t) /\ messages' = Append(messages, m)
      /\ UNCHANGED <<runtime, threads, msgCalls, counted>>
  BY <1>0 DEF PostReply, Demo
<1>2. threads[t] # NoThread
  BY <1>1 DEF IsParty
<1>3. SenderOf(ctx) \in PartiesIn(threads[t])
  BY <1>1, <1>2, Parties DEF PartiesOf, PartiesIn
<1>4. /\ m \in Posted /\ m.readers = {} /\ m.thread = t /\ m.client = threads[t].client
      /\ m.sender = SenderOf(ctx)
      /\ \A side \in Sides : m.read[side] = (side = m.side)
  BY <1>0, <1>2, <1>3, MessageType DEF MessagingInv
<1>5. threads' \in [Threads -> {NoThread} \cup Row] /\ ThreadsKept
  BY <1>1, MessagingTypes, SameThreads DEF MessagingInv
<1>6. m.sender \in PartiesOf(m.thread)'
  BY <1>1, <1>3, <1>4 DEF PartiesOf, PartiesIn
<1>7. messages' \in Seq(Posted) /\ MessagesArePrivate' /\ CountsAddUp'
  BY <1>1, <1>2, <1>4, <1>5, <1>6, OneMoreMessage
<1>8. msgCalls' \in [MsgRequests -> Call] /\ CallsArePrivate'
  BY <1>1, <1>5, SameCalls
<1>9. MessagingTypeOK'
  BY <1>1, <1>7, <1>8, MessagingTypes DEF MessagingInv, MessagingTypeOK, Posted, Call
<1>10. QED
  BY <1>7, <1>8, <1>9 DEF MessagingInv

LEMMA ReadThreadStep ==
  ASSUME MessagingInv, NEW ctx \in Callers, NEW t \in Threads, ReadThread(ctx, t)
  PROVE  MessagingInv'
<1>1. /\ IsParty(ctx, t) /\ MarkUnread(t, SideOf(ctx), SenderOf(ctx))
      /\ UNCHANGED <<runtime, threads, msgCalls>>
  BY DEF ReadThread, Demo
<1>2. threads[t] # NoThread /\ SideOf(ctx) \in Sides
  BY <1>1 DEF IsParty, SideOf, Sides
<1>3. SenderOf(ctx) \in PartiesOf(t)
  BY <1>1, <1>2, Parties
<1>4. /\ messages' \in Seq(Posted) /\ counted' \in [Threads -> [Sides -> Nat]]
      /\ MessagesArePrivate' /\ CountsAddUp'
  BY <1>1, <1>2, <1>3, MarkUnreadStep
<1>5. msgCalls' \in [MsgRequests -> Call] /\ CallsArePrivate'
  BY <1>1, SameCalls, SameThreads
<1>6. MessagingTypeOK'
  BY <1>1, <1>4, <1>5, MessagingTypes DEF MessagingInv, MessagingTypeOK, Posted, Call
<1>7. QED
  BY <1>4, <1>5, <1>6 DEF MessagingInv

LEMMA ChangeThreadStatusStep ==
  ASSUME MessagingInv, NEW ctx \in Callers, NEW t \in Threads,
         NEW action \in DOMAIN TransitionThread, ChangeThreadStatus(ctx, t, action)
  PROVE  MessagingInv'
<1>1. /\ threads[t] # NoThread /\ threads' = [threads EXCEPT ![t].status = TransitionThread[action].to]
      /\ UNCHANGED <<runtime, messages, msgCalls, counted>>
  BY DEF ChangeThreadStatus, Demo
<1>2. TransitionThread[action].to \in {"open", "closed"}
  BY DEF TransitionThread
<1>3. threads' \in [Threads -> {NoThread} \cup Row] /\ ThreadsKept
  BY <1>1, <1>2, StatusChanged DEF MessagingInv
<1>4. QED
  BY <1>1, <1>3, SameCalls, ThreadsMove

LEMMA MessagingStep ==
  ASSUME MessagingInv, [MessagingNext]_messagingVars
  PROVE  MessagingInv'
<1>1. CASE UNCHANGED messagingVars
  <2>1. UNCHANGED <<runtime, threads, messages, msgCalls, counted>>
    BY <1>1 DEF messagingVars
  <2>2. threads' \in [Threads -> {NoThread} \cup Row]
    BY <2>1, MessagingTypes DEF MessagingInv
  <2>3. QED
    BY <2>1, <2>2, SameThreads, SameCalls, ThreadsMove
<1>2. CASE MessagingNext
  BY <1>2, CreateThreadStep, NameThreadStep, BeginPostStep, MarkThreadReadStep,
     BeginSetStatusStep, CommitPostStep, CommitSetStatusStep, GiveUpStep, OpenThreadStep,
     PostReplyStep, ReadThreadStep, ChangeThreadStatusStep, Zenon DEF MessagingNext
<1>3. QED
  BY <1>1, <1>2

LEMMA MessagingHolds == MessagingSpec => []MessagingInv
<1>1. MessagingInv /\ [MessagingNext]_messagingVars => MessagingInv'
  BY MessagingStep
<1>2. QED
  BY <1>1, MessagingInitInv, PTL DEF MessagingSpec

\* Threads, messages, requests and counts keep their types.
THEOREM MessagingTypeCorrect == MessagingSpec => []MessagingTypeOK
<1>1. MessagingInv => MessagingTypeOK
  BY DEF MessagingInv
<1>2. QED
  BY <1>1, MessagingHolds, PTL

\* Nobody but its client and the staff of its organization writes, is shown or
\* marks a message of a thread, in either runtime and however requests overlap
\* (AuthorizedMessagingService, and AfloStore's own checks).
THEOREM ConversationsStayPrivate == MessagingSpec => []ConversationIsPrivate
<1>1. MessagingInv => ConversationIsPrivate
  <2> SUFFICES ASSUME MessagingInv PROVE ConversationIsPrivate
    OBVIOUS
  <2>1. \A n \in DOMAIN messages :
          {messages[n].sender} \cup messages[n].readers \subseteq PartiesOf(messages[n].thread)
    BY DEF MessagingInv, MessagesArePrivate, Private, PartiesOf, PartiesIn
  <2>2. ASSUME NEW ctx \in Callers, NEW t \in Threads, MessagesShown(ctx, t) # {}
        PROVE  SenderOf(ctx) \in PartiesOf(t)
    <3>1. MayLoad(ctx, "message.read", t)
      BY <2>2 DEF MessagesShown
    <3>2. threads[t] # NoThread
      BY <3>1 DEF MayLoad
    <3>3. QED
      BY <3>1, <3>2, Parties
  <2>3. QED
    BY <2>1, <2>2 DEF ConversationIsPrivate
<1>2. QED
  BY <1>1, MessagingHolds, PTL

\* Each message is told to the side it was sent to once, or still waits in
\* its badge, however many tabs of that side read at once (markThreadRead's
\* count of the rows it found unread).
THEOREM ReceiptsAlwaysAddUp == MessagingSpec => []ReceiptsAddUp
<1>1. MessagingInv => ReceiptsAddUp
  <2> SUFFICES ASSUME MessagingInv PROVE ReceiptsAddUp
    OBVIOUS
  <2>0. messages \in Seq(Posted) /\ \A n \in DOMAIN messages : messages[n] \in Posted
    BY MessagingTypes DEF MessagingInv
  <2>1. ASSUME NEW t \in Threads
        PROVE  /\ counted[t]["staff"] + UnreadForStaff(t) = Cardinality(SentTo(t, "staff"))
               /\ counted[t]["client"] + ClientThreadView(t).unread = Cardinality(SentTo(t, "client"))
    <3>1. \A n \in DOMAIN messages : messages[n].side = "client" <=> messages[n].side # "staff"
      BY <2>0 DEF Posted, Sides
    <3>2. UnreadForStaff(t) = Cardinality(UnreadBy(t, "staff"))
      <4>1. UnreadBy(t, "staff") = {n \in DOMAIN messages :
              messages[n].thread = t /\ messages[n].side = "client" /\ ~messages[n].read["staff"]}
        BY <3>1 DEF UnreadBy
      <4>2. QED
        BY <4>1 DEF UnreadForStaff
    <3>3. ClientThreadView(t).unread = Cardinality(UnreadBy(t, "client"))
      <4>1. UnreadBy(t, "client") = UnreadByClient(t)
        BY <3>1 DEF UnreadBy, UnreadByClient
      <4>2. QED
        BY <4>1 DEF ClientThreadView
    <3>4. "staff" \in Sides /\ "client" \in Sides
      BY DEF Sides
    <3>5. QED
      BY <3>2, <3>3, <3>4 DEF MessagingInv, CountsAddUp
  <2>2. ASSUME NEW c \in MsgClients
        PROVE  UnreadForClient(c) =
                 Cardinality(UNION {UnreadByClient(t) : t \in ThreadsOf(MsgClientOrg[c], c)})
    <3> DEFINE own == {n \in DOMAIN messages : /\ messages[n].client = c
                                                /\ messages[n].side = "staff"
                                                /\ ~messages[n].read["client"]}
    <3>1. ASSUME NEW n \in DOMAIN messages
          PROVE  messages[n].client = c <=> messages[n].thread \in ThreadsOf(MsgClientOrg[c], c)
      <4>1. messages[n].thread \in Threads /\ Private(messages[n], threads[messages[n].thread])
        BY <2>0 DEF Posted, MessagingInv, MessagesArePrivate
      <4>2. threads[messages[n].thread].org = MsgClientOrg[threads[messages[n].thread].client]
        BY <4>1, MessagingTypes DEF MessagingInv, Private, Row
      <4>3. QED
        BY <4>1, <4>2 DEF Private, ThreadsOf
    <3>2. own = UNION {UnreadByClient(t) : t \in ThreadsOf(MsgClientOrg[c], c)}
      BY <3>1 DEF UnreadByClient
    <3>3. QED
      BY <3>2 DEF UnreadForClient
  <2>3. QED
    BY <2>1, <2>2 DEF ReceiptsAddUp
<1>2. QED
  BY <1>1, MessagingHolds, PTL

=============================================================================
