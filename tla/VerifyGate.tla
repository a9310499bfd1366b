------------------------------ MODULE VerifyGate -------------------------------
(***************************************************************************)
(* The verification command, verify/deployguard_verify: one invocation in  *)
(* a checkout that may hold the receipt of an earlier one.  The change is  *)
(* collected from Git, the policy loaded, the reports parsed, the decision *)
(* made, the receipt written and the exit code set; every stage can fail   *)
(* and the process can be stopped anywhere.                                *)
(*                                                                         *)
(* A path stands for the paths a pattern tells apart.  A report is what    *)
(* the decision uses of it: numbers of test cases and failed ones, the     *)
(* line rate in percent, the severities with a finding.  Every report of   *)
(* an invocation is declared for one commit.  Digests and wording are left *)
(* out, and so is the set-up command.                                      *)
(***************************************************************************)
EXTENDS Integers, FiniteSets

CONSTANTS
    DocPaths,     \* paths of documentation
    ChangeSets,   \* sets of paths a change may have
    Policies,     \* policies a repository may have
    Builtin,      \* DEFAULT_POLICY
    Reports,      \* reports a run may find
    MaxReports    \* bound: how many it finds

VARIABLES
    stage,        \* where the invocation is
    paths,        \* change.paths
    rules,        \* the policy in force
    reports,      \* the reports found
    build,        \* --build-status
    declared,     \* the commit the reports are declared for, or "none"
    temporary,    \* the receipt's temporary file
    receipt,      \* the receipt
    exit          \* the exit code, Running or Killed

verifyVars == <<stage, paths, rules, reports, build, declared, temporary,
                receipt, exit>>

Kinds == {"tests", "build", "coverage", "security"}

\* What _validate_policy and the parsers of the reports make sure of
ASSUME VerifyAssumption ==
    /\ \A policy \in Policies \cup {Builtin} :
         /\ policy.required \subseteq Kinds /\ policy.threshold \in Nat
         /\ \A rule \in policy.pathRules : rule.evidence \subseteq Kinds
    /\ \A r \in Reports :
         /\ r.kind \in Kinds /\ {r.cases, r.failed, r.rate} \subseteq Nat
         /\ r.failed <= r.cases

Running == -1

Killed == -2

NoFile == [of |-> "nobody", decision |-> "none", whole |-> TRUE]

VerifyInit ==
    /\ stage = "change"
    /\ paths = {} /\ rules = Builtin /\ reports = {} /\ build = "unknown"
    /\ declared = "none"
    /\ temporary = NoFile /\ exit = Running
    /\ receipt \in {NoFile, [of |-> "earlier", decision |-> "pass", whole |-> TRUE]}

End(code) == stage' = "end" /\ exit' = code

\* EXIT_CODES; a Git command that takes too long raises what main does not
\* catch, and Python exits with 1
ExitCode(decision) ==
    CASE decision = "pass" -> 0 [] decision = "review" -> 2
      [] decision = "block" -> 3 [] decision = "error" -> 4

CollectGitChange ==
    /\ stage = "change"
    /\ \/ stage' = "policy" /\ paths' \in ChangeSets /\ UNCHANGED exit
       \/ (End(ExitCode("error")) \/ End(1)) /\ UNCHANGED paths
    /\ UNCHANGED <<rules, reports, build, declared, temporary, receipt>>

\* The policy of the base commit or of the working tree, and the built-in one
\* if it is asked for or git show does not succeed; an invalid policy ends
\* the invocation
LoadPolicy ==
    /\ stage = "policy"
    /\ \/ stage' = "evidence" /\ rules' \in Policies \cup {Builtin}
          /\ UNCHANGED exit
       \/ (End(ExitCode("error")) \/ End(1)) /\ UNCHANGED rules
    /\ UNCHANGED <<paths, reports, build, declared, temporary, receipt>>

\* collect_artifacts: a report that cannot be read or is malformed, and a
\* declared commit that is none, end the invocation
CollectArtifacts ==
    /\ stage = "evidence"
    /\ \/ /\ stage' = "decide"
          /\ reports' \in {r \in SUBSET Reports : Cardinality(r) <= MaxReports}
          /\ build' \in {"unknown", "success", "failure"}
          /\ declared' \in {"none", "head", "other"}
          /\ UNCHANGED exit
       \/ End(ExitCode("error")) /\ UNCHANGED <<reports, build, declared>>
    /\ UNCHANGED <<paths, rules, temporary, receipt>>

\* Without --evidence-sha the reports count as reports on the head
SourceMatches(sha) == sha \in {"none", "head"}

\* parse_junit
TestState(r) ==
    IF r.cases = 0 THEN "unknown" ELSE IF r.failed > 0 THEN "fail" ELSE "pass"

\* parse_coverage: the threshold is the policy's business
CoverageState(r) == "pass"

\* parse_sarif
SecurityState(r) ==
    IF r.found \cap {"critical", "high"} # {} THEN "fail" ELSE "pass"

BuildState(r) == IF r.failed > 0 THEN "fail" ELSE "pass"

State(r, sha) ==
    IF ~SourceMatches(sha) THEN "unknown"
    ELSE CASE r.kind = "tests" -> TestState(r)
           [] r.kind = "coverage" -> CoverageState(r)
           [] r.kind = "security" -> SecurityState(r)
           [] r.kind = "build" -> BuildState(r)

BuildReport(status) ==
    IF status = "unknown" THEN {}
    ELSE {[kind |-> "build", cases |-> 1, rate |-> 0, found |-> {},
           failed |-> IF status = "success" THEN 0 ELSE 1]}

DocsOnly(p) == p # {} /\ p \subseteq DocPaths

Required(policy, p, kind) ==
    /\ kind \in policy.required
    /\ ~(kind = "tests" /\ DocsOnly(p) /\ policy.skipDocs)

MatchingRules(policy, p) ==
    {rule \in policy.pathRules : rule.patterns \cap p # {}}

\* The states of the evidence of a kind
StatesOf(evidence, sha, kind) ==
    {State(r, sha) : r \in {e \in evidence : e.kind = kind}}

SecurityBlocks(policy, evidence, sha) ==
    \E r \in evidence : /\ r.kind = "security" /\ State(r, sha) # "unknown"
                        /\ r.found \cap policy.blocked # {}

Blocked(p, policy, evidence, sha) ==
    \/ \E kind \in Kinds :
         /\ Required(policy, p, kind)
         /\ StatesOf(evidence, sha, kind) \cap {"pass", "fail"} = {"fail"}
    \/ \E kind \in {"tests", "build"} : "fail" \in StatesOf(evidence, sha, kind)
    \/ \E r \in evidence : /\ r.kind = "coverage" /\ State(r, sha) # "unknown"
                           /\ r.rate < policy.threshold
    \/ SecurityBlocks(policy, evidence, sha)

\* Path rules are not looked at
ReviewedWithoutRules(p, policy, evidence, sha) ==
    \/ p = {}
    \/ \E kind \in Kinds :
         /\ Required(policy, p, kind)
         /\ StatesOf(evidence, sha, kind) \cap {"pass", "fail"} = {}

Reviewed(p, policy, evidence, sha) ==
    \/ p = {}
    \/ \E kind \in Kinds :
         /\ Required(policy, p, kind)
         /\ StatesOf(evidence, sha, kind) \cap {"pass", "fail"} = {}
    \/ \E rule \in MatchingRules(policy, p), kind \in Kinds :
         /\ kind \in rule.evidence
         /\ "pass" \notin StatesOf(evidence, sha, kind)

\* _evaluate_decision
EvaluateDecision(p, policy, evidence, sha) ==
    IF Blocked(p, policy, evidence, sha) THEN "block"
    ELSE IF Reviewed(p, policy, evidence, sha) THEN "review" ELSE "pass"

Decision ==
    EvaluateDecision(paths, rules, reports \cup BuildReport(build), declared)

OurReceipt(whole) == [of |-> "ours", decision |-> Decision, whole |-> whole]

\* verify_change, then the first half of _write_json
WriteTemporary ==
    /\ stage = "decide"
    /\ \/ stage' = "replace" /\ temporary' = OurReceipt(TRUE) /\ UNCHANGED exit
       \/ /\ temporary' \in {NoFile, OurReceipt(FALSE)}
          /\ End(ExitCode("error"))
    /\ UNCHANGED <<paths, rules, reports, build, declared, receipt>>

\* temporary.replace(path)
ReplaceReceipt ==
    /\ stage = "replace"
    /\ \/ /\ stage' = "summary" /\ UNCHANGED exit
          /\ receipt' = temporary /\ temporary' = NoFile
       \/ End(ExitCode("error")) /\ UNCHANGED <<receipt, temporary>>
    /\ UNCHANGED <<paths, rules, reports, build, declared>>

\* The summary and the outputs of the workflow; then the decision is the exit
\* code
AppendSummary ==
    /\ stage = "summary"
    /\ End(ExitCode(Decision)) \/ End(ExitCode("error"))
    /\ UNCHANGED <<paths, rules, reports, build, declared, temporary, receipt>>

\* The job is cancelled
Kill ==
    /\ stage # "end" /\ End(Killed)
    /\ temporary' \in {temporary} \cup (IF stage = "decide"
                                        THEN {OurReceipt(FALSE)} ELSE {})
    /\ UNCHANGED <<paths, rules, reports, build, declared, receipt>>

VerifyNext ==
    \/ CollectGitChange \/ LoadPolicy \/ CollectArtifacts \/ WriteTemporary
    \/ ReplaceReceipt \/ AppendSummary \/ Kill

VerifySpec == VerifyInit /\ [][VerifyNext]_verifyVars
--------------------------------------------------------------------------------
VerifyTypeOK ==
    /\ stage \in {"change", "policy", "evidence", "decide", "replace", "summary",
                  "end"}
    /\ paths \in ChangeSets \cup {{}} /\ rules \in Policies \cup {Builtin}
    /\ reports \subseteq Reports
    /\ declared \in {"none", "head", "other"}

\* What a good report on the head is, in terms of the report itself
Good(r) ==
    /\ declared # "other"
    /\ CASE r.kind = "tests" -> r.cases > 0 /\ r.failed = 0
         [] r.kind = "build" -> r.failed = 0
         [] r.kind = "security" -> r.found \cap {"critical", "high"} = {}
         [] OTHER -> TRUE

\* A pass is earned: the command exits with 0 only for a change that is not
\* empty, if every kind of evidence that the policy requires of it, or one of
\* its path rules, has a good report that was not declared for another commit,
\* and no report on the head shows a failed test or build, a coverage below
\* the threshold or a finding of a severity that blocks
PassIsEarned ==
    exit = 0 =>
      LET evidence == reports \cup BuildReport(build)
          needed == {k \in rules.required :
                       ~(k = "tests" /\ rules.skipDocs /\ paths \subseteq DocPaths)}
                    \cup UNION {r.evidence : r \in MatchingRules(rules, paths)}
      IN  /\ paths # {}
          /\ \A k \in needed : \E r \in evidence : r.kind = k /\ Good(r)
          /\ declared # "other" =>
               \A r \in evidence :
                 /\ r.kind \in {"tests", "build"} => r.failed = 0
                 /\ r.kind = "coverage" => r.rate >= rules.threshold
                 /\ r.kind = "security" => r.found \cap rules.blocked = {}

\* Reports on another commit decide nothing: with them the decision is the one
\* without any report
StaleDecidesNothing ==
    declared = "other" =>
      Decision = EvaluateDecision(paths, rules, {}, declared)

\* The exit code answers for the receipt: whenever the process stops, the
\* receipt is whole, and it is this invocation's and says what the exit code
\* says unless the exit code reports an error
ReceiptAnswers ==
    /\ receipt.whole
    /\ exit \in {0, 2, 3} =>
         receipt.of = "ours" /\ ExitCode(receipt.decision) = exit

\* The verification command can be relied on: a pass is earned, reports on
\* another commit have no say, and the receipt says what the exit code says
VerdictIsEarned == PassIsEarned /\ StaleDecidesNothing /\ ReceiptAnswers
================================================================================
