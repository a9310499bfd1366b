------------------------------- MODULE RiskScore -------------------------------
(***************************************************************************)
(* calculate_change_risk of backend/app/engines.py: the weighted score of  *)
(* a change, its level and the recommendations that go with it.  A change  *)
(* is analysed again whenever something about it becomes known or changes. *)
(*                                                                         *)
(* Shares (coverage, observability, data quality) are percentages; the     *)
(* wording of reasons and recommendations is left out, a recommendation is *)
(* named for what it asks for.                                             *)
(***************************************************************************)
EXTENDS Rounding, FiniteSets, FiniteSetsExt

CONSTANTS
    Files, Lines,   \* numbers of files and of lines a change may have
    Component,      \* services a change may touch
    TierOf,         \* the tier of each of them
    Flags,          \* labels of changes: keys of FlagRisk or others
    Shares,         \* percentages
    Failures        \* numbers of previous failures

ASSUME RiskAssumption ==
    /\ Files \subseteq Nat /\ Files # {} /\ Lines \subseteq Nat /\ Lines # {}
    /\ IsFiniteSet(Component) /\ IsFiniteSet(Flags)
    /\ Shares \subseteq 0..100 /\ Failures \subseteq Nat

VARIABLES
    change,         \* the input of the analysis
    ledger          \* its result

riskVars == <<change, ledger>>

Unknown == -1

\* FLAG_RISK, and 48 for a flag it does not have
FlagRisk ==
    [database_migration |-> 96, schema_change |-> 92, retry_policy |-> 90,
     auth_change |-> 86, api_contract |-> 78, config_change |-> 68,
     dependency_upgrade |-> 58, feature_flag |-> 42, docs_only |-> 8]

RiskOfFlag(f) == IF f \in DOMAIN FlagRisk THEN FlagRisk[f] ELSE 48

Change ==
    [files : Files, lines : Lines, services : SUBSET Component,
     flags : SUBSET Flags, coverage : Shares \cup {Unknown},
     rollback : {"ready", "missing", "unknown"},
     observability : Shares \cup {Unknown},
     failures : Failures \cup {Unknown}]

SizeScore(c) == Clamp(Round(36 * c.files + c.lines, 12), 0, 100)

TierBonus(s) ==
    CASE TierOf[s] = 1 -> 25 [] TierOf[s] = 2 -> 12 [] OTHER -> 4

ScopeScore(c) ==
    LET n == Cardinality(c.services)
        bonus == Max({TierBonus(s) : s \in c.services} \cup {0})
    IN  Clamp(18 * n + 8 * Max({0, n - 1}) + bonus, 0, 100)

\* The mildest flag decides instead of the most serious one
TypeScoreOfMildest(c) ==
    LET n == Cardinality(c.flags)
        base == IF c.flags = {} THEN 20
                ELSE Min({RiskOfFlag(f) : f \in c.flags})
    IN  Clamp(base + 4 * Max({0, n - 1}), 0, 100)

TypeScore(c) ==
    LET n == Cardinality(c.flags)
        base == IF c.flags = {} THEN 20
                ELSE Max({RiskOfFlag(f) : f \in c.flags})
    IN  Clamp(base + 4 * Max({0, n - 1}), 0, 100)

TestScore(c) == IF c.coverage = Unknown THEN 50 ELSE 100 - c.coverage

HistoryScore(c) ==
    IF c.failures = Unknown THEN 25 ELSE Clamp(25 * c.failures, 0, 100)

\* In twentieths: 65 and 32.5 for the rollback, 35 for the observability
SafetyScore(c) ==
    LET rollback == CASE c.rollback = "ready" -> 0
                      [] c.rollback = "missing" -> 1300
                      [] c.rollback = "unknown" -> 650
        telemetry == IF c.observability = Unknown THEN 350
                     ELSE 7 * (100 - c.observability)
    IN  Clamp(Round(rollback + telemetry, 20), 0, 100)

\* RISK_WEIGHTS, in hundredths
Overall(c) ==
    Clamp(Round(25 * SizeScore(c) + 20 * ScopeScore(c) + 20 * TypeScore(c)
                + 15 * TestScore(c) + 10 * HistoryScore(c)
                + 10 * SafetyScore(c), 100), 0, 100)

Level(score) ==
    CASE score < 25 -> "low"
      [] score < 50 -> "moderate"
      [] score < 70 -> "high"
      [] OTHER -> "critical"

\* What a reviewer is asked to do
AskedFor(c) ==
    {r \in {"owner review", "test evidence", "tests", "staged rollout",
            "rollback", "telemetry"} :
       \/ r = "owner review" /\ TypeScore(c) >= 70
       \/ r = "test evidence" /\ c.coverage = Unknown
       \/ r = "tests" /\ c.coverage # Unknown /\ TestScore(c) >= 35
       \/ r = "staged rollout" /\ ScopeScore(c) >= 60
       \/ r = "rollback" /\ c.rollback # "ready"
       \/ r = "telemetry" /\ c.observability < 70}

\* data_quality in percent: what is known of the change
Quality(c) ==
    LET known(field) == IF field = Unknown THEN 0 ELSE field
        given(condition) == IF condition THEN 1000 ELSE 0
    IN  Clamp(Round(3500 + 20 * known(c.observability) + 15 * known(c.coverage)
                    + given(c.rollback # "unknown")
                    + given(c.failures # Unknown)
                    + given(c.services # {}), 100), 0, 100)

CalculateChangeRisk(c) ==
    LET score == Overall(c)
        asked == AskedFor(c)
    IN  [overall |-> score, level |-> Level(score),
         recommendations |-> IF asked = {} THEN {"proceed"} ELSE asked,
         quality |-> Quality(c)]

RiskInit ==
    /\ change = [files |-> Min(Files), lines |-> Min(Lines), services |-> {},
                 flags |-> {}, coverage |-> Unknown, rollback |-> "unknown",
                 observability |-> Unknown, failures |-> Unknown]
    /\ ledger = CalculateChangeRisk(change)

\* The change is analysed again after one of its properties changed
Reanalyse(field, values) ==
    /\ \E v \in values :
         change' = [change EXCEPT ![field] = v]
    /\ ledger' = CalculateChangeRisk(change')

RiskNext ==
    \/ Reanalyse("files", Files)
    \/ Reanalyse("lines", Lines)
    \/ Reanalyse("services", SUBSET Component)
    \/ Reanalyse("flags", SUBSET Flags)
    \/ Reanalyse("coverage", Shares \cup {Unknown})
    \/ Reanalyse("rollback", {"ready", "missing", "unknown"})
    \/ Reanalyse("observability", Shares \cup {Unknown})
    \/ Reanalyse("failures", Failures \cup {Unknown})

RiskSpec == RiskInit /\ [][RiskNext]_riskVars
--------------------------------------------------------------------------------
RiskTypeOK ==
    /\ change \in Change
    /\ ledger.overall \in 0..100 /\ ledger.quality \in 0..100

\* c is at least as serious as b in everything both of them know
AtLeast(c, b) ==
    /\ c.files >= b.files /\ c.lines >= b.lines
    /\ b.services \subseteq c.services
    /\ b.flags \subseteq c.flags /\ (b.flags = {} => c.flags = {})
    /\ c.coverage <= b.coverage /\ (c.coverage = Unknown <=> b.coverage = Unknown)
    /\ c.rollback = b.rollback \/ c.rollback = "missing" \/ b.rollback = "ready"
    /\ c.observability <= b.observability
    /\ c.observability = Unknown <=> b.observability = Unknown
    /\ c.failures >= b.failures /\ (b.failures = Unknown => c.failures = Unknown)

\* A change that gets worse in one respect, and better in none, is never given
\* a lower score: the caps, the roundings and the bonuses of
\* calculate_change_risk do not work against each other
MonotoneRisk == AtLeast(change', change) => ledger'.overall >= ledger.overall

\* A critical score comes with something to do about it: "proceed with the
\* normal review path" is only said below 70, although size and history alone
\* have no recommendation of their own
CriticalIsExplained ==
    ledger.level = "critical" => ledger.recommendations # {"proceed"}

\* Every analysis of a change keeps both: its score does not fall when the
\* change gets worse, and it is explained when it is critical
ScoresAreSound == [][MonotoneRisk /\ CriticalIsExplained']_riskVars
================================================================================
