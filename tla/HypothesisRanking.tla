--------------------------- MODULE HypothesisRanking ---------------------------
(***************************************************************************)
(* rank_hypotheses of backend/app/engines.py: candidates for the cause of  *)
(* an incident, scored by the evidence for and against them.  A step ranks *)
(* the same candidates over one more item of evidence.                     *)
(*                                                                         *)
(* Qualities, reliabilities and priors are percentages, strengths are ten  *)
(* thousandths.  Causes, reasoning texts and next steps are left out.      *)
(***************************************************************************)
EXTENDS Rounding, Sorting, FiniteSets, FiniteSetsExt, Sequences

CONSTANTS
    Candidate,     \* numbers, in the order of the candidates' identifiers
    Prior,         \* the prior of each
    Evidence,      \* items that may be recorded
    Limit          \* how many candidates are reported

ASSUME RankingAssumption ==
    /\ Candidate \subseteq Nat /\ IsFiniteSet(Candidate) /\ Limit \in Nat
    /\ \A h \in Candidate : Prior[h] \in 0..100
    /\ \A e \in Evidence : e.quality \in 0..100

VARIABLES
    recorded,      \* the evidence of the incident
    ranked         \* the hypotheses reported, best first

rankingVars == <<recorded, ranked>>

\* EVIDENCE_TYPE_RELIABILITY, and 70 for a type it does not have
Reliability ==
    [trace |-> 100, metric |-> 95, deployment |-> 92, config |-> 90,
     log |-> 85, topology |-> 75, human |-> 72]

Strength(e) ==
    e.quality * (IF e.type \in DOMAIN Reliability THEN Reliability[e.type]
                 ELSE 70)

Supporting(evidence, h) == {e \in evidence : h \in e.supports}

Contradicting(evidence, h) == {e \in evidence : h \in e.contradicts}

\* The mean strength of the items instead of their sum
SupportStrengthMean(items) ==
    IF items = {} THEN 0
    ELSE MapThenSumSet(Strength, items) \div Cardinality(items)

SupportStrength(items) == MapThenSumSet(Strength, items)

HypothesisScore(evidence, h) ==
    LET supporting == Supporting(evidence, h)
        counter == MapThenSumSet(Strength, Contradicting(evidence, h))
        types == Cardinality({e.type : e \in supporting})
    IN  Clamp(Round(2500 * Prior[h]
                    + Min({550000, 16 * SupportStrength(supporting)})
                    - Min({450000, 28 * counter})
                    + Min({100000, 30000 * types})
                    + Min({60000, 15000 * Cardinality(supporting)}),
                    10000), 0, 100)

ItemQuality(e) == e.quality

\* In percent.  The average quality of no evidence is 0.
Confidence(evidence, h) ==
    LET supporting == Supporting(evidence, h)
        n == Max({1, Cardinality(supporting)})
        counter == MapThenSumSet(Strength, Contradicting(evidence, h))
    IN  Clamp(Round(n * (150000 + 5500 * HypothesisScore(evidence, h)
                         + 75000 * Min({2, Cardinality(supporting)})
                         - 12 * Min({10000, counter}))
                    + 1000 * MapThenSumSet(ItemQuality, supporting),
                    10000 * n), 5, 98)

Scores(evidence) == [h \in Candidate |-> HypothesisScore(evidence, h)]

\* Higher scores first, ties by identifier
Ahead(scores, g, h) ==
    scores[g] > scores[h] \/ (scores[g] = scores[h] /\ g < h)

\* The report, from the scores
RankHypotheses(evidence, scores) ==
    LET Before(g, h) == Ahead(scores, g, h)
        order == InOrder(Candidate, Before)
    IN  [rank \in 1..Min({Limit, Len(order)}) |->
           [id |-> order[rank], score |-> scores[order[rank]],
            confidence |-> Confidence(evidence, order[rank])]]

RankingInit ==
    /\ recorded = {}
    /\ ranked = RankHypotheses({}, Scores({}))

\* The candidates are ranked over one more item of evidence
AddEvidence(e) ==
    /\ e \notin recorded
    /\ recorded' = recorded \cup {e}
    /\ \E scores \in {Scores(recorded')} :
         ranked' = RankHypotheses(recorded', scores)

RankingNext == \E e \in Evidence : AddEvidence(e)

RankingSpec == RankingInit /\ [][RankingNext]_rankingVars
--------------------------------------------------------------------------------
RankingTypeOK ==
    /\ recorded \subseteq Evidence
    /\ \A i \in DOMAIN ranked :
         /\ ranked[i].id \in Candidate /\ ranked[i].score \in 0..100
         /\ ranked[i].confidence \in 5..98

\* The place of a candidate: those that are not reported share the last one
Place(list, h) ==
    LET places == {i \in DOMAIN list : list[i].id = h}
    IN  IF places = {} THEN Len(list) + 1 ELSE CHOOSE i \in places : TRUE

\* A piece of evidence moves the candidates it speaks of and no others:
\* support never costs its candidate a place, contradiction never earns it one
\* or raises its confidence, and two candidates it does not mention keep their
\* order
RankingFollowsEvidence ==
    [][\A e \in recorded' \ recorded, g, h \in Candidate :
         /\ e.supports = {h} /\ e.contradicts = {} =>
              Place(ranked', h) <= Place(ranked, h)
         /\ e.contradicts = {h} /\ e.supports = {} =>
              /\ Place(ranked', h) >= Place(ranked, h)
              /\ \A i \in DOMAIN ranked, j \in DOMAIN ranked' :
                   ranked[i].id = h /\ ranked'[j].id = h =>
                     ranked'[j].confidence <= ranked[i].confidence
         /\ ({g, h} \cap (e.supports \cup e.contradicts) = {}
               /\ Place(ranked, g) < Place(ranked, h)) =>
              Place(ranked', g) <= Place(ranked', h)]_rankingVars
================================================================================
