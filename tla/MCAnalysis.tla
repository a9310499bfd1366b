------------------------------ MODULE MCAnalysis ------------------------------
(***************************************************************************)
(* The analyses of a change and of an incident, what the console is told   *)
(* of the connection and of delivery, the readiness of the control plane,  *)
(* the verification command and the maintenance scripts.  They share no    *)
(* state: a behaviour follows one of them, chosen by the first state,      *)
(* while the others stay as they were.                                     *)
(***************************************************************************)
EXTENDS RiskScore, BlastRadius, HypothesisRanking, ChangeAnalysis,
        EvidenceSynthesis, DoraMetrics, ConnectorHealth, ReadinessProbe,
        VerifyGate, Backup, RestoreRehearsal, Retention, TLC

CONSTANTS c1, c2, r1, r2, n1, s1, s2, s3, none

VARIABLE subject   \* the component the behaviour follows

Clients == {c1, c2}

\* RiskScore: services p, q and r of tiers 1, 2 and 3
Tiers == [p |-> 1, q |-> 2, r |-> 3]

\* BlastRadius: cycles, parallel edges, two of them alike in what they are sorted
\* by, ways of equal length, an edge of no confidence and one to a service that is
\* listed only when it is changed
Edge(s, t, r, c, p) ==
    [source |-> s, target |-> t, relation |-> r, confidence |-> c, place |-> p]

FivePool ==
    {Edge(1, 2, 1, 1, 1), Edge(1, 2, 2, 2, 2), Edge(1, 3, 1, 2, 3),
     Edge(2, 3, 1, 2, 4), Edge(3, 2, 1, 2, 5), Edge(2, 4, 1, 2, 6),
     Edge(3, 4, 1, 1, 7), Edge(3, 4, 1, 2, 8), Edge(4, 1, 1, 1, 9),
     Edge(4, 5, 1, 2, 10), Edge(2, 5, 1, 0, 11)}

FiveTiers == <<1, 2, 3, 3, 1>>

FiveHealths == <<"healthy", "critical", "degraded", "unknown", "critical">>

\* HypothesisRanking
Item(n, t, q, s, c) ==
    [n |-> n, type |-> t, quality |-> q, supports |-> s, contradicts |-> c]

Priors == <<50, 40, 60>>

SomeEvidence ==
    {Item(1, "trace", 90, {1}, {}), Item(2, "log", 20, {1}, {}),
     Item(3, "metric", 60, {2}, {}), Item(4, "human", 10, {2}, {}),
     Item(5, "config", 80, {}, {1}), Item(6, "trace", 50, {3}, {1}),
     Item(7, "other", 75, {}, {2}), Item(8, "metric", 100, {3}, {}),
     Item(9, "log", 40, {}, {3}), Item(10, "deployment", 95, {1, 2}, {3}),
     Item(11, "trace", 100, {2}, {}), Item(12, "topology", 100, {2}, {}),
     Item(13, "metric", 100, {2}, {})}

\* ChangeAnalysis
OneRefers == n1 :> s1

\* EvidenceSynthesis
Qualities == <<50, 20, 20>>

\* VerifyGate: the built-in policy and three more
Policy(required, skipDocs, threshold, blocked, pathRules) ==
    [required |-> required, skipDocs |-> skipDocs, threshold |-> threshold,
     blocked |-> blocked, pathRules |-> pathRules]

BuiltinPolicy ==
    Policy({"tests"}, TRUE, 0, {"critical", "high"},
           {[patterns |-> {"auth", "guide"}, evidence |-> {"security"}]})

SomePolicies ==
    {Policy({"tests", "build"}, FALSE, 50, {"critical"}, {}),
     Policy({"security", "coverage"}, TRUE, 50, {"critical", "high", "medium"},
            {[patterns |-> {"code"}, evidence |-> {"tests", "coverage"}]}),
     Policy({}, FALSE, 0, {}, {})}

Parsed(kind, cases, failed, rate, found) ==
    [kind |-> kind, cases |-> cases, failed |-> failed, rate |-> rate,
     found |-> found]

SomeReports ==
    {Parsed("tests", 2, 0, 0, {}), Parsed("tests", 2, 1, 0, {}),
     Parsed("tests", 0, 0, 0, {}), Parsed("coverage", 0, 0, 40, {}),
     Parsed("coverage", 0, 0, 60, {}), Parsed("security", 0, 0, 0, {}),
     Parsed("security", 0, 0, 0, {"medium"}), Parsed("security", 0, 0, 0, {"high"})}

\* Retention
TwoCutoffs == (r1 :> 3) @@ (r2 :> 4)

Symmetry == Permutations(Clients)

Init ==
    /\ subject \in {"risk", "blast", "ranking", "change", "synthesis", "dora",
                    "health", "probe", "verify", "backup", "rehearsal",
                    "retention"}
    /\ RiskInit /\ RankingInit /\ SynthesisInit /\ HealthInit /\ ProbeInit
    /\ RehearsalInit
    \* what the other components leave open is fixed
    /\ IF subject = "blast" THEN edges \in SUBSET EdgePool /\ changed \in Changes
                            ELSE edges = {} /\ changed = {1}
    /\ WalkBegins
    /\ IF subject = "dora" THEN DoraInit
       ELSE /\ today = Horizon /\ deploys = [d \in Deploys |-> Absent]
            /\ outages = [i \in Outages |-> Absent] /\ metrics = Metrics
    /\ AnalysisInit /\ rows \in {Entries, {s3}}
    /\ subject # "change" => rows = Entries
    /\ subject # "probe" => upstreamUp
    /\ VerifyInit /\ (subject # "verify" => receipt = NoFile)
    /\ BackupInit /\ (subject # "backup" => archive = Absence
                                            /\ \A b \in Dumps : force[b])
    /\ RetentionInit /\ (subject # "retention" => present = {} /\ hold)

Next ==
    /\ UNCHANGED subject
    /\ IF subject = "risk" THEN RiskNext ELSE UNCHANGED riskVars
    /\ IF subject = "blast" THEN BlastNext ELSE UNCHANGED blastVars
    /\ IF subject = "ranking" THEN RankingNext ELSE UNCHANGED rankingVars
    /\ IF subject = "change" THEN AnalysisNext ELSE UNCHANGED analysisVars
    /\ IF subject = "synthesis" THEN SynthesisNext ELSE UNCHANGED synthesisVars
    /\ IF subject = "dora" THEN DoraNext ELSE UNCHANGED doraVars
    /\ IF subject = "health" THEN HealthNext ELSE UNCHANGED healthVars
    /\ IF subject = "probe" THEN ProbeNext ELSE UNCHANGED probeVars
    /\ IF subject = "verify" THEN VerifyNext ELSE UNCHANGED verifyVars
    /\ IF subject = "backup" THEN BackupNext ELSE UNCHANGED backupVars
    /\ IF subject = "rehearsal" THEN RehearsalNext ELSE UNCHANGED rehearsalVars
    /\ IF subject = "retention" THEN RetentionNext ELSE UNCHANGED retentionVars

vars == <<subject, riskVars, blastVars, rankingVars, analysisVars,
          synthesisVars, doraVars, healthVars, probeVars, verifyVars,
          backupVars, rehearsalVars, retentionVars>>

Spec == Init /\ [][Next]_vars

\* Types of the component that takes the steps
TypeOK ==
    /\ subject = "risk" => RiskTypeOK
    /\ subject = "blast" => BlastTypeOK
    /\ subject = "ranking" => RankingTypeOK
    /\ subject = "change" => AnalysisTypeOK
    /\ subject = "synthesis" => SynthesisTypeOK
    /\ subject = "dora" => DoraTypeOK
    /\ subject = "health" => HealthTypeOK
    /\ subject = "probe" => ProbeTypeOK
    /\ subject = "verify" => VerifyTypeOK
    /\ subject = "backup" => BackupTypeOK
    /\ subject = "rehearsal" => RehearsalTypeOK
    /\ subject = "retention" => RetentionTypeOK
===============================================================================
