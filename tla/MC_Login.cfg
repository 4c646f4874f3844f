SPECIFICATION Spec
CONSTANTS
  t1 = t1
  t2 = t2
  ann = ann
  bob = bob
  cleo = cleo
  Threads <- MCThreads
  Mails <- MCMails
  Owner = ann
  People <- MCPeople
  MaxCode = 2
  HasRedis = TRUE
  Flaky = TRUE
  SignUp = TRUE
  Ghost = Ghost
  Nobody = Nobody
SYMMETRY MCSymmetry
VIEW MCView
INVARIANT GhostOnlyOnDashboard
PROPERTIES UsedIsRefused OnlyTheLatest SameUser
