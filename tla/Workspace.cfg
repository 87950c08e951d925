SPECIFICATION Spec
CONSTANTS
  t1 = t1
  t2 = t2
  r1 = r1
  r2 = r2
  kid = kid
  sib = sib
  ann = ann
  cole = cole
  bell = bell
  lender = lender
  Callers <- MCCallers
  MsgClients = {kid, sib}
  MsgClientOrg <- MCOrg
  Threads = {t1, t2}
  MsgRequests = {r1, r2}
  MaxMessages = 3
  Clients = {cole, bell}
  PIPELINE <- MCPipeline
  Sections = {"debts", "documents", "appointments"}
  RequiredSections = {"debts", "documents"}
  FirstStage <- MCFirstStage
  FirstSections <- MCFirstSections
  FactsOf <- MCFacts
  FinancialOnFile = {cole, bell}
  CreditOnFile = {cole, bell}
  EarlierStage <- MCEarlier
  MaxMoves = 7
  MaxAssessments = 2
  Members = {cole, bell}
  CommunicationOK = {bell}
  Preferable <- MCPreferable
  MaxRows = 3
  MaxTime = 1
  Learners = {cole, bell}
  Triggers = {"high_utilization", "incomplete_intake"}
  Percents = {100}
  Amounts = {150}
  RoundUps = {100, 500}
  GoalRows = 2
  SharingOK = {bell}
  ActivePartners = {lender}
  Outcomes = {"approved"}
  Validity = 1
  MaxReferrals = 2
  MaxPackages = 1
SYMMETRY Sym
INVARIANTS ReceiptsAddUp ConversationIsPrivate BeyondIntakeIsComplete TrailLeadsHere
  ValidPackageHolds ReferralWasShared
PROPERTY LastWordGoverns
CHECK_DEADLOCK FALSE
