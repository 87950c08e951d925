---------------------------- MODULE ClientIntake ----------------------------
(***************************************************************************)
(* From lead to client in AfloStore: the organization's pipeline, the      *)
(* structured intake, and the readiness assessments that follow it.  Every *)
(* operation is one synchronous call by a member of the organization.      *)
(*                                                                         *)
(* A lead may enter the stage intake_completed by two doors, advanceLead   *)
(* and completeIntake.  The audit log and the events other than            *)
(* LeadStatusChanged are left out; a denied call changes nothing else.     *)
(***************************************************************************)
EXTENDS ReadinessKernel, SequencesExt

CONSTANTS
  Clients,           \* the records: leads, and clients once activated
  PIPELINE,          \* the organization's stages in order: [id, required, terminal]
  Sections,          \* the sections of its intake
  RequiredSections,
  FirstStage,        \* where each record enters the program
  FirstSections,     \* the sections its intake then has
  FactsOf,           \* the verified facts of each record, when both profiles are there
  FinancialOnFile, CreditOnFile, \* the records with a profile of each kind
  EarlierStage,      \* the stage of an older assessment, or "none"
  MaxMoves,          \* bound: the stage changes of all records
  MaxAssessments     \* bound: the assessments of all records

StageIds == {PIPELINE[k].id : k \in DOMAIN PIPELINE}

Order(stage) == CHOOSE k \in DOMAIN PIPELINE : PIPELINE[k].id = stage

\* validatePipelineDefinition, as far as a sequence leaves it open.
ValidPipelineDefinition ==
  /\ PIPELINE \in Seq([id : STRING, required : BOOLEAN, terminal : BOOLEAN])
  /\ Len(PIPELINE) >= 2
  /\ \A j, k \in DOMAIN PIPELINE : PIPELINE[j].id = PIPELINE[k].id => j = k
  /\ \A k \in DOMAIN PIPELINE : PIPELINE[k].terminal <=> k = Len(PIPELINE)
  /\ PIPELINE[Len(PIPELINE)].required

\* validateIntakeDefinition.
ValidIntakeDefinition == RequiredSections \subseteq Sections /\ RequiredSections # {}

ASSUME IntakeAssumption ==
  /\ ValidPipelineDefinition /\ ValidIntakeDefinition
  /\ {"intake_started", "intake_completed", "client_activated"} \subseteq StageIds
  /\ Order("intake_started") < Order("intake_completed")
  /\ \A s \in {"intake_completed", "client_activated"} : PIPELINE[Order(s)].required
  /\ FactsOf \in [Clients -> ReadinessFacts]
  /\ EarlierStage \in [Clients -> LifecycleStage \cup {"none"}]
  /\ FirstStage \in [Clients -> StageIds] /\ FirstSections \in [Clients -> SUBSET Sections]
  /\ \A c \in Clients : Order(FirstStage[c]) >= Order("intake_completed") =>
       RequiredSections \subseteq FirstSections[c]

VARIABLES
  records,      \* stage and kind of each record
  intakes,      \* its intake: status and completed sections
  moves,        \* the LeadStatusChanged events, in order
  assessments   \* the recorded readiness assessments, in order

intakeVars == <<records, intakes, moves, assessments>>

NoIntake == [status |-> "none", done |-> {}]

Activated(stage) == PIPELINE[Order(stage)].terminal

IntakeInit ==
  /\ records = [c \in Clients |->
       [stage |-> FirstStage[c], kind |-> IF Activated(FirstStage[c]) THEN "client" ELSE "lead"]]
  /\ intakes = [c \in Clients |->
       IF Order(FirstStage[c]) < Order("intake_started") THEN NoIntake
       ELSE [status |-> IF Activated(FirstStage[c]) THEN "completed" ELSE "in_progress",
             done |-> FirstSections[c]]]
  /\ moves = <<>>
  /\ assessments = <<>>

-----------------------------------------------------------------------------
(***************************************************************************)
(* The kernel: pipelineTransition, sectionCompletion, intakeCompleteness.  *)
(***************************************************************************)
SkipsRequired(from, to) ==
  \E k \in DOMAIN PIPELINE : Order(from) < k /\ k < Order(to) /\ PIPELINE[k].required

\* Backward only as a reversal; forward, flagged or not, skips nothing required.
PipelineTransition(from, to, reversal) ==
  /\ {from, to} \subseteq StageIds /\ from # to /\ ~Activated(from)
  /\ Order(to) < Order(from) => reversal
  /\ ~SkipsRequired(from, to)

SectionCompletion(done, section) == section \in Sections \ done

\* Mutant: an intake with every section but one is complete.
NearlyComplete(done) == \E s \in Sections : RequiredSections \subseteq done \cup {s}

IntakeComplete(done) == done \subseteq Sections /\ RequiredSections \subseteq done

-----------------------------------------------------------------------------

StageChange(c, to) ==
  /\ Len(moves) < MaxMoves
  /\ moves' = Append(moves, [lead |-> c, from |-> records[c].stage, to |-> to])

\* advanceLead.  The intake opens on a plain move to intake_started.
AdvanceLead(c, to, reversal) ==
  LET opens == to = "intake_started" /\ ~reversal /\ intakes[c] = NoIntake
  IN  /\ records[c].kind = "lead"
      /\ PipelineTransition(records[c].stage, to, reversal)
      /\ to = "intake_completed" => intakes[c] # NoIntake /\ IntakeComplete(intakes[c].done)
      /\ StageChange(c, to)
      /\ records' = [records EXCEPT ![c] =
           [stage |-> to, kind |-> IF Activated(to) THEN "client" ELSE "lead"]]
      /\ intakes' = IF opens
           THEN [intakes EXCEPT ![c] = [status |-> "in_progress", done |-> {}]] ELSE intakes
      /\ UNCHANGED assessments

CompleteIntakeSection(c, section) ==
  /\ intakes[c].status = "in_progress"
  /\ SectionCompletion(intakes[c].done, section)
  /\ intakes' = [intakes EXCEPT ![c].done = @ \cup {section}]
  /\ UNCHANGED <<records, moves, assessments>>

\* Mutant: the stage moves with no event.
CompleteIntakeQuietly(c) ==
  /\ intakes[c].status = "in_progress" /\ IntakeComplete(intakes[c].done)
  /\ intakes' = [intakes EXCEPT ![c].status = "completed"]
  /\ records' = [records EXCEPT ![c].stage =
       IF records[c].kind = "lead" THEN "intake_completed" ELSE @]
  /\ UNCHANGED <<moves, assessments>>

\* completeIntake: for a lead elsewhere the stage moves too, or nothing does.
CompleteIntake(c) ==
  /\ intakes[c].status = "in_progress" /\ IntakeComplete(intakes[c].done)
  /\ intakes' = [intakes EXCEPT ![c].status = "completed"]
  /\ IF records[c].kind = "lead" /\ records[c].stage # "intake_completed"
     THEN /\ PipelineTransition(records[c].stage, "intake_completed", FALSE)
          /\ StageChange(c, "intake_completed")
          /\ records' = [records EXCEPT ![c].stage = "intake_completed"]
     ELSE UNCHANGED <<records, moves>>
  /\ UNCHANGED assessments

LatestStage(c) ==
  LET own == {k \in DOMAIN assessments : assessments[k].client = c}
  IN  IF own = {} THEN EarlierStage[c] ELSE assessments[Max(own)].stage

\* runReadinessAssessment: a completed intake and both profiles.
RunReadinessAssessment(c) ==
  LET assessed == AssessReadiness(FactsOf[c])
  IN  /\ intakes[c].status = "completed"
      /\ c \in FinancialOnFile \cap CreditOnFile
      /\ Len(assessments) < MaxAssessments
      /\ assessments' = Append(assessments,
           [client |-> c, stage |-> assessed.stage, previousStage |-> LatestStage(c),
            reasonCodes |-> assessed.reasonCodes,
            review |-> AssessmentReviewGate(LatestStage(c), assessed.stage)])
      /\ UNCHANGED <<records, intakes, moves>>

\* buildResolutionReadout: what is known of a client, and whether the diagnosis
\* may run.  It repeats the recorded diagnosis and never runs it.
ResolutionReadoutFor(c) ==
  LET captured ==
        CapturedKeys(c \in FinancialOnFile, c \in CreditOnFile, FactsOf[c].creditScore)
  IN  [missingKeys     |-> READINESS_INPUT_KEYS \ captured,
       canRunDiagnosis |-> CanDiagnose(captured) /\ intakes[c].status = "completed",
       diagnosis       |-> LatestStage(c)]

IntakeNext ==
  \E c \in Clients :
    \/ \E to \in StageIds, reversal \in BOOLEAN : AdvanceLead(c, to, reversal)
    \/ \E s \in Sections : CompleteIntakeSection(c, s)
    \/ CompleteIntake(c)
    \/ RunReadinessAssessment(c)

IntakeSpec == IntakeInit /\ [][IntakeNext]_intakeVars

-----------------------------------------------------------------------------
(***************************************************************************)
(* Properties.                                                             *)
(***************************************************************************)

\* The state of every record, intake, event and assessment is well formed.
IntakeTypeOK ==
  /\ records \in [Clients -> [stage : StageIds, kind : {"lead", "client"}]]
  /\ intakes \in [Clients -> [status : {"none", "in_progress", "completed"},
                              done : SUBSET Sections]]
  /\ moves \in Seq([lead : Clients, from : StageIds, to : StageIds])
  /\ assessments \in Seq([client : Clients, stage : LifecycleStage,
                          previousStage : LifecycleStage \cup {"none"},
                          reasonCodes : SUBSET ReasonCode, review : SUBSET ReviewReasonCode])

\* By whichever door a record came to stand at intake_completed or beyond, as
\* a lead or as the client it became, every required section of its intake is
\* complete (advanceLead and completeIntake of store.ts).  Nobody is assessed
\* whom the resolution readout would not let be: whatever the readout says may
\* run did and stays runnable, for no later move reopens an intake.
BeyondIntakeIsComplete ==
  /\ \A c \in Clients :
       Order(records[c].stage) >= Order("intake_completed") \/ intakes[c].status = "completed"
       => RequiredSections \subseteq intakes[c].done
  /\ \A k \in DOMAIN assessments :
       LET readout == ResolutionReadoutFor(assessments[k].client) IN
       /\ readout.canRunDiagnosis /\ readout.missingKeys \subseteq {"creditScore"}
       /\ readout.diagnosis # "none"

MovesOf(c) == {k \in DOMAIN moves : moves[k].lead = c}

\* Where the first n events leave a record.
StageAfter(log, n, c) ==
  LET own == {k \in 1..n : log[k].lead = c}
  IN  IF own = {} THEN FirstStage[c] ELSE log[Max(own)].to

\* The LeadStatusChanged events of a record lead without a gap from where it
\* entered to where it stands, over every required stage in between.
TrailLeadsHere ==
  \A c \in Clients :
    LET visited == {FirstStage[c]} \cup {moves[k].to : k \in MovesOf(c)}
    IN  /\ records[c].stage = StageAfter(moves, Len(moves), c)
        /\ \A k \in MovesOf(c) : moves[k].from = StageAfter(moves, k - 1, c)
        /\ \A k \in DOMAIN PIPELINE :
             /\ PIPELINE[k].required
             /\ Order(FirstStage[c]) < k /\ k < Order(records[c].stage)
             => PIPELINE[k].id \in visited

\* Comment of store.ts on the hook of intake_started: the checklist and the
\* stage can never drift apart.  A forward move flagged as a reversal drifts.
ChecklistFollowsStage ==
  \A c \in Clients : Order(records[c].stage) >= Order("intake_started") => intakes[c] # NoIntake
=============================================================================
