--------------------------- MODULE EvidenceSynthesis ---------------------------
(***************************************************************************)
(* The explanation of an incident: build_evidence_synthesis and its        *)
(* validator, backend/app/evidence_synthesis.py, called by                 *)
(* synthesize_evidence_hypotheses of backend/app/services.py.  Evidence    *)
(* and hypotheses come from elsewhere and change between requests: a       *)
(* hypothesis may cite evidence the incident does not have, or none.       *)
(*                                                                         *)
(* A statement is the set of evidence it cites.  The digest of the bundle  *)
(* is the bundle.  Wording, confidence, versions and the audit row are     *)
(* left out.                                                               *)
(***************************************************************************)
EXTENDS Naturals, Sequences, FiniteSets, FiniteSetsExt, Sorting

CONSTANTS
    Items,        \* evidence identifiers, numbers in their order
    QualityOf,    \* the quality of each item
    Theories,     \* hypothesis identifiers, numbers: also their ranks
    MaxExplained  \* how many hypotheses are explained

ASSUME SynthesisAssumption ==
    /\ Items \subseteq Nat /\ QualityOf \in [Items -> Nat]
    /\ Theories \subseteq Nat /\ IsFiniteSet(Theories)
    /\ MaxExplained \in Nat \ {0}

VARIABLES
    evidence,     \* the evidence of the incident
    cites,        \* per hypothesis: what it cites, for and against
    synthesis     \* the response to a request for this bundle, if any

synthesisVars == <<evidence, cites, synthesis>>

Refused == [refused |-> TRUE]

NotAsked == [refused |-> FALSE, bundle |-> <<>>]

SynthesisInit ==
    /\ evidence = {} /\ cites = [h \in Theories |-> {}]
    /\ synthesis = NotAsked

\* The incident changes: an item of evidence more, other citations
Record ==
    /\ \/ \E e \in Items : evidence' = evidence \cup {e} /\ UNCHANGED cites
       \/ \E h \in Theories, c \in SUBSET Items :
            cites' = [cites EXCEPT ![h] = c] /\ UNCHANGED evidence
    /\ synthesis' = NotAsked

Bundle == [evidence |-> evidence, cites |-> cites]

\* Any hypothesis that cites something
ExplicableIfCiting(h) == cites[h] # {}

\* A hypothesis that can be explained
Explicable(h) == cites[h] # {} /\ cites[h] \subseteq evidence

\* validate_evidence_synthesis
Valid(s) ==
    /\ s.bundle = Bundle
    /\ evidence # {}
    /\ \A statement \in {s.summary, s.uncertainty} : statement \subseteq evidence
    /\ \A i \in DOMAIN s.explained :
         /\ s.explained[i].cited \subseteq evidence
         /\ s.explained[i].cited \subseteq cites[s.explained[i].id]
    /\ s.coverage = (/\ s.summary # {} /\ s.uncertainty # {}
                     /\ \A i \in DOMAIN s.explained : s.explained[i].cited # {})

\* The item of the primary hypothesis that deserves the least trust
Weakest(cited) ==
    CHOOSE e \in cited :
      \A f \in cited : \/ QualityOf[e] < QualityOf[f]
                       \/ QualityOf[e] = QualityOf[f] /\ e <= f

\* The response to the request; coverage says that every statement is cited
Built ==
    LET ranked == InOrder({h \in Theories : Explicable(h)}, <)
        selected == SubSeq(ranked, 1, Min({MaxExplained, Len(ranked)}))
        primary == cites[selected[1]]
    IN  [refused |-> FALSE, bundle |-> Bundle, summary |-> primary,
         explained |-> [i \in DOMAIN selected |->
                          [id |-> selected[i], cited |-> cites[selected[i]]]],
         uncertainty |-> IF primary \cap evidence = {} THEN {}
                         ELSE {Weakest(primary \cap evidence)},
         coverage |-> TRUE]

\* A refusal answers 409
Synthesize ==
    /\ IF (\E h \in Theories : Explicable(h)) /\ evidence # {} /\ Valid(Built)
       THEN synthesis' = Built
       ELSE synthesis' = Refused
    /\ UNCHANGED <<evidence, cites>>

SynthesisNext == Record \/ Synthesize

SynthesisSpec == SynthesisInit /\ [][SynthesisNext]_synthesisVars
--------------------------------------------------------------------------------
SynthesisTypeOK ==
    /\ evidence \subseteq Items /\ cites \in [Theories -> SUBSET Items]

\* One hypothesis with broken citations does not cost the incident its
\* explanation: a request is refused only if no hypothesis has citations that
\* are all in the evidence, and what is answered cites nothing else
OnlySoundOnesAreExplained ==
    [][Synthesize =>
         LET sound == {h \in Theories : cites[h] # {}
                                        /\ cites[h] \subseteq evidence}
         IN  /\ synthesis'.refused <=> sound = {}
             /\ ~synthesis'.refused =>
                  /\ synthesis'.explained[1].id = Min(sound)
                  /\ synthesis'.uncertainty # {}
                  /\ \A i \in DOMAIN synthesis'.explained :
                       synthesis'.explained[i].id \in sound]_synthesisVars
================================================================================
