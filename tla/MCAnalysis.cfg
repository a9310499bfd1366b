SPECIFICATION Spec
SYMMETRY Symmetry
CONSTANTS
    c1 = c1  c2 = c2  r1 = r1  r2 = r2  n1 = n1  s1 = s1  s2 = s2  s3 = s3  none = none
    Files = {0, 40}
    Lines = {6, 1200}
    Component = {"p", "q", "r"}
    TierOf <- Tiers
    Flags = {"database_migration", "config_change", "docs_only"}
    Shares = {66, 70}
    Failures = {1, 5}
    Node = {1, 2, 3, 4, 5}
    Listed = {1, 2, 3, 4}
    EdgePool <- FivePool
    Changes = {{1}, {1, 5}, {2, 3}}
    Tier <- FiveTiers
    Health <- FiveHealths
    MaxHops = 2
    Scale = 2
    Candidate = {1, 2, 3}
    Prior <- Priors
    Limit = 2
    Evidence <- SomeEvidence
    Analysts <- Clients
    Entries = {s1, s2, s3}
    Names = {n1}
    Refers <- OneRefers
    Owned = {s2}
    NoEntry = none
    MaxEdits = 2
    Items = {1, 2, 3}
    QualityOf <- Qualities
    Theories = {1, 2, 3}
    MaxExplained = 2
    Deploys <- Clients
    Outages = {3}
    Days = 1
    Horizon = 1
    LastDay = 2
    Deliveries <- Clients
    StaleAfter = 0
    LastTick = 2
    Probers <- Clients
    NoProber = none
    ValidReady = 4
    ValidFailed = 1
    LastInstant = 5
    DocPaths = {"readme", "guide"}
    ChangeSets = {{}, {"readme"}, {"guide"}, {"code"}, {"readme", "auth"}}
    Policies <- SomePolicies
    Builtin <- BuiltinPolicy
    Reports <- SomeReports
    MaxReports = 3
    Dumps <- Clients
    NoDump = none
    Rehearsals <- Clients
    NoRehearsal = none
    MaxRehearsals = 4
    Sweeps = {r1, r2}
    Rows = {1, 2, 3}
    Cutoffs <- TwoCutoffs
    BatchSize = 2
CHECK_DEADLOCK FALSE
INVARIANTS
    TypeOK
    BlastRadiusIsExact
    AnswerFitsCatalog
    MetricsAreCoherent
    HealthyIsEarned
    ProbesAreSound
    VerdictIsEarned
    DeletionsAreAccountedFor
PROPERTIES
    ScoresAreSound
    RankingFollowsEvidence
    OnlySoundOnesAreExplained
    BackupsAreSafe
    RehearsalsAreSafe
