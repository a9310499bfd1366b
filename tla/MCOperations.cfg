SPECIFICATION Spec
CHECK_DEADLOCK FALSE
CONSTANTS
  c1 = c1
  c2 = c2
  api = api
  web = web
  db = db
  h1 = h1
  h2 = h2
  ra = ra
  rb = rb
  w1 = w1
  w2 = w2
  w3 = w3
  s1 = s1
  s2 = s2
  e1 = e1
  e2 = e2
  u1 = u1
  u2 = u2
  u3 = u3
  k1 = k1
  k2 = k2
  Services <- ThreeServices
  Seeded <- TwoServices
  CatalogClients <- Clients
  NoService = NoService
  PolicyClients <- Clients
  NoClient = NoClient
  MaxPolicyVersion = 4
  Responders <- Clients
  NoOne = NoOne
  Severities = {1, 2}
  MaxEntries = 2
  Judges <- Clients
  Hypotheses <- TwoHypotheses
  MaxVerdicts = 3
  Reviewers <- Clients
  Purposes = {"evaluation"}
  MaxRatings = 2
  MaxTicks = 6
  Posts <- Clients
  Writers <- TwoKeys
  Repositories <- TwoRepositories
  NoRepository = NoRepository
  Bodies = {1, 2}
  Tabs <- Clients
  Workspaces <- TwoWorkspaces
  Repos <- TwoRepositories
  WorkspaceOf <- Home
  Nothing = Nothing
  Logins <- Clients
  Subjects <- TwoSubjects
  Emails <- TwoEmails
  Accounts <- ThreeAccounts
  NoAccount = NoAccount
  Callbacks <- Clients
  States <- TwoSubjects
  Tenants <- TwoWorkspaces
  Installations <- TwoEmails
  NotLinked = NotLinked
  MaxUses = 2
  Sessions <- Clients
  Connections <- TwoKeys
  Spaces <- TwoWorkspaces
  NoSpace = NoSpace
  NoConnection = NoConnection
  Keys <- TwoKeys
  Limit = 2
  Window = 2
  MaxBuckets = 1
  EndOfTime = 5
SYMMETRY Symmetry
INVARIANTS
  TypeOK
  AcyclicWhereSeen
  UpdatesFollowWhatWasShown
  VerdictLostOnlyByOverlap
  ReadinessIsJustified
  AnswersMatchLedger
  ContextIsCoherent
  AccountIsTheSubjects
  InstallationsAreSound
  PolicySeesTheRequest
  WindowHolds
PROPERTIES
  LifecycleOnlyAdds
