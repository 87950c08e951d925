---------------------------- MODULE MCWorkspace ----------------------------
(***************************************************************************)
(* The instance of the workspace around a client: Messaging, ClientIntake, *)
(* ClientPlan, ClientGoals, and PartnerSharing over the last three.        *)
(* Messaging shares no state with the others; these are explored each by   *)
(* itself as deep as their bounds allow, and then together up to Budget.   *)
(* The area chosen at the start says which.                                *)
(***************************************************************************)
EXTENDS Messaging, PartnerSharing, TLC

CONSTANTS t1, t2, r1, r2, kid, sib, ann, cole, bell, lender

VARIABLE area

MCOrg == [c \in MsgClients |-> "north"]
MCCallers ==
  {[role |-> "staff_advisor", user |-> ann, org |-> "north", status |-> "active", client |-> Nil],
   [role |-> "platform_admin", user |-> "root", org |-> Nil, status |-> "none", client |-> Nil]}
  \cup {[role |-> "client", user |-> "u", org |-> "north", status |-> "active", client |-> c] :
        c \in MsgClients}

\* The demonstration organization's pipeline, with one optional stage.
Stage(i, r, t) == [id |-> i, required |-> r, terminal |-> t]
MCPipeline ==
  <<Stage("new_lead", TRUE, FALSE), Stage("consultation_scheduled", FALSE, FALSE),
    Stage("intake_started", TRUE, FALSE), Stage("intake_completed", TRUE, FALSE),
    Stage("client_activated", TRUE, TRUE)>>
\* cole is a new lead, bell a client assessed before.
MCFirstStage == [c \in Clients |-> IF c = cole THEN "new_lead" ELSE "client_activated"]
MCFirstSections == [c \in Clients |-> IF c = cole THEN {} ELSE Sections]
MCFacts ==
  [c \in Clients |->
     [creditScore |-> 705, utilizationPct |-> UtilizationPct(900, 18000),
      dtiPct |-> DtiPct(1450, 8300), reserveMonths |-> ReserveMonths(21000, 4200),
      derogatoryMarks |-> 0, onTimePaymentRate |-> 100, incomeStability |-> "stable"]]
MCEarlier == [c \in Clients |-> IF c = bell THEN "credit_readiness" ELSE "none"]
MCPreferable == {<<"document_requested", "email">>, <<"document_requested", "in_app">>}

Sym == Permutations(Threads) \cup Permutations(MsgRequests) \cup Permutations(MsgClients)

\* Bounds of the joint exploration: the tables no package reads stay empty,
\* the lead stays one, and the rows of the others add up to at most Budget.
Budget == 4
Together ==
  /\ actions = <<>> /\ appointments = <<>> /\ notes = <<>> /\ preferences = <<>>
  /\ lessons = <<>> /\ transactions = <<>> /\ settings = [c \in Clients |-> NoSettings]
  /\ moves = <<>> /\ intakes[cole] = NoIntake
  /\ Len(documents) + Len(goals) + 2 * Len(referrals) + Len(packages) + Len(assessments) <= Budget

clientVars == <<intakeVars, goalVars, planVars, sharingVars>>
workspaceVars == <<area, messagingVars, clientVars>>

Init ==
  /\ area \in {"messaging", "intake", "plan", "goals", "together"}
  /\ MessagingInit /\ SharingInit
  /\ area # "messaging" => runtime = "persistent"

Next ==
  /\ UNCHANGED area
  /\ \/ area = "messaging" /\ MessagingNext /\ UNCHANGED clientVars
     \/ area = "intake" /\ IntakeNext /\ UNCHANGED <<messagingVars, goalVars, planVars, sharingVars>>
     \/ area = "plan" /\ PlanNext /\ UNCHANGED <<messagingVars, intakeVars, goalVars, sharingVars>>
     \/ area = "goals" /\ GoalsNext /\ UNCHANGED <<messagingVars, intakeVars, planVars, sharingVars>>
     \/ area = "together" /\ SharingNext /\ Together' /\ UNCHANGED messagingVars

Spec == Init /\ [][Next]_workspaceVars
=============================================================================
