--------------------------- MODULE PartnerSharing ---------------------------
(***************************************************************************)
(* What leaves the organization about a client: partner referrals, tracked *)
(* through their lifecycle under a neutrality record, and signed handoff   *)
(* packages of verified facts.  A package reads what ClientIntake,         *)
(* ClientGoals and ClientPlan keep, so they run beside it.                 *)
(*                                                                         *)
(* Of a package's payload the readiness stage, the primary goal and the    *)
(* number of approved documents are kept.  The signature is the process's  *)
(* own key over that payload: it verifies unless the payload was altered,  *)
(* which nothing in the program does.  Consents are never written by the   *)
(* program: they are constants.                                            *)
(***************************************************************************)
EXTENDS ClientIntake, ClientGoals, ClientPlan, FiniteSets

CONSTANTS
  SharingOK,      \* clients whose latest partner_data_sharing consent is a grant
  ActivePartners,
  Outcomes,       \* REFERRAL_OUTCOMES that are observed
  Validity,       \* HANDOFF_VALIDITY_DAYS
  MaxReferrals,   \* bound
  MaxPackages     \* bound

ASSUME SharingAssumption ==
  /\ Members = Clients /\ Learners = Clients /\ SharingOK \subseteq Clients
  /\ Validity \in Nat \ {0}

VARIABLES
  referrals,   \* partnerReferrals
  packages     \* handoffPackages

sharingVars == <<referrals, packages>>

SharingInit ==
  /\ IntakeInit /\ GoalsInit /\ PlanInit
  /\ referrals = <<>> /\ packages = <<>>

NEUTRALITY_FIELDS ==
  {"whyShown", "eligibleAlternatives", "compensationDisclosure", "nonCommercialOptionExists",
   "estimatedUserCost", "keyRisks", "eligibilityCriteria", "staffReviewed"}

\* validateNeutralityRecord, for the fields that are filled in.
NeutralityComplete(filled) == NEUTRALITY_FIELDS \subseteq filled

\* Mutant: a suggestion the client was never shown may count as engaged.
REFERRAL_UNSHOWN ==
  [suggested |-> {"shared_with_client", "client_engaged", "declined"},
   shared_with_client |-> {"client_engaged", "declined"},
   client_engaged |-> {"outcome_recorded", "declined"}, outcome_recorded |-> {}, declined |-> {}]

REFERRAL_ALLOWED ==
  [suggested |-> {"shared_with_client", "declined"},
   shared_with_client |-> {"client_engaged", "declined"},
   client_engaged |-> {"outcome_recorded", "declined"}, outcome_recorded |-> {}, declined |-> {}]

CreateReferral(c, partner, filled) ==
  /\ partner \in ActivePartners
  /\ NeutralityComplete(filled)
  /\ Len(referrals) < MaxReferrals
  /\ referrals' = Append(referrals,
       [client |-> c, partner |-> partner, status |-> "suggested", shared |-> FALSE, outcome |-> {}])
  /\ UNCHANGED packages

\* transitionReferral: its input type leaves out outcome_recorded.
TransitionReferral(k, to) ==
  /\ to \in REFERRAL_ALLOWED[referrals[k].status] \ {"outcome_recorded"}
  /\ referrals' = [referrals EXCEPT ![k].status = to,
                                    ![k].shared = @ \/ to = "shared_with_client"]
  /\ UNCHANGED packages

RecordReferralOutcome(k, outcome) ==
  /\ "outcome_recorded" \in REFERRAL_ALLOWED[referrals[k].status]
  /\ referrals' = [referrals EXCEPT ![k].status = "outcome_recorded", ![k].outcome = {outcome}]
  /\ UNCHANGED packages

ApprovedDocuments(c) ==
  Cardinality({k \in DOMAIN documents : documents[k].client = c /\ documents[k].status = "approved"})

PrimaryGoals(c) == {k \in DOMAIN goals : goals[k].client = c /\ goals[k].primary}

\* generateHandoffPackage: consent, then a recorded assessment.
GenerateHandoffPackage(c) ==
  /\ c \in SharingOK
  /\ LatestStage(c) # "none"
  /\ Len(packages) < MaxPackages
  /\ packages' = Append(packages,
       [client |-> c, issuedAt |-> clock, expiresAt |-> clock + Validity, revoked |-> FALSE,
        stage |-> LatestStage(c), goal |-> PrimaryGoals(c), approved |-> ApprovedDocuments(c)])
  /\ UNCHANGED referrals

RevokeHandoffPackage(k) ==
  /\ ~packages[k].revoked
  /\ packages' = [packages EXCEPT ![k].revoked = TRUE]
  /\ UNCHANGED referrals

\* verifyHandoffPackage, of an unaltered package under the process's own key.
Verdict(p) ==
  IF p.revoked THEN "REVOKED" ELSE IF p.expiresAt <= clock THEN "EXPIRED" ELSE "VALID"

SharingStep ==
  \/ \E c \in Clients :
       \/ \E partner \in ActivePartners, filled \in {NEUTRALITY_FIELDS, {}} :
            CreateReferral(c, partner, filled)
       \/ GenerateHandoffPackage(c)
  \/ \E k \in DOMAIN referrals :
       \/ \E to \in DOMAIN REFERRAL_ALLOWED : TransitionReferral(k, to)
       \/ \E outcome \in Outcomes : RecordReferralOutcome(k, outcome)
  \/ \E k \in DOMAIN packages : RevokeHandoffPackage(k)

SharingNext ==
  \/ SharingStep /\ UNCHANGED <<intakeVars, goalVars, planVars>>
  \/ IntakeNext /\ UNCHANGED <<goalVars, planVars, sharingVars>>
  \/ GoalsNext /\ UNCHANGED <<intakeVars, planVars, sharingVars>>
  \/ PlanNext /\ UNCHANGED <<intakeVars, goalVars, sharingVars>>

SharingSpec ==
  SharingInit /\ [][SharingNext]_<<intakeVars, goalVars, planVars, sharingVars>>

-----------------------------------------------------------------------------
(***************************************************************************)
(* Properties.                                                             *)
(***************************************************************************)

\* Referrals and packages are well formed.
SharingTypeOK ==
  /\ referrals \in Seq([client : Clients, partner : ActivePartners,
                        status : DOMAIN REFERRAL_ALLOWED, shared : BOOLEAN,
                        outcome : SUBSET Outcomes])
  /\ packages \in Seq([client : Clients, issuedAt : 0..clock, expiresAt : Nat,
                       revoked : BOOLEAN, stage : LifecycleStage,
                       goal : SUBSET (DOMAIN goals), approved : Nat])

\* A package that verifies was issued under consent and still holds: the
\* client has at least the approved documents it counts, the goal it names is
\* the client's, and its stage was recorded for that client.
ValidPackageHolds ==
  \A k \in DOMAIN packages :
    LET p == packages[k]
    IN  Verdict(p) = "VALID" =>
          /\ p.client \in SharingOK /\ clock < p.issuedAt + Validity
          /\ p.approved <= ApprovedDocuments(p.client)
          /\ \A g \in p.goal : goals[g].client = p.client /\ \A h \in p.goal : g = h
          /\ p.stage = EarlierStage[p.client]
             \/ \E a \in DOMAIN assessments :
                  assessments[a].client = p.client /\ assessments[a].stage = p.stage

\* A client counts as engaged, or an outcome as observed, only of a referral
\* that was shared with the client, and an outcome is there exactly when the
\* referral says it was recorded.
ReferralWasShared ==
  \A k \in DOMAIN referrals :
    /\ referrals[k].status \in {"client_engaged", "outcome_recorded"} => referrals[k].shared
    /\ referrals[k].status = "outcome_recorded" <=> referrals[k].outcome # {}
=============================================================================
