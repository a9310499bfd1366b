---------------------------- MODULE ChangeAnalysis -----------------------------
(***************************************************************************)
(* analyze_change of backend/app/services.py: the analysis of a change is  *)
(* stored under an identifier made of everything it was computed from, and *)
(* a request that leads to an identifier already stored gets the stored    *)
(* analysis.  Meanwhile administrators edit the service catalog the        *)
(* analysis reads.                                                         *)
(*                                                                         *)
(* An analysis is the set of services it says are hit: scores and hops are *)
(* the business of RiskScore and BlastRadius.  The digest is the tuple of  *)
(* what is digested.  Left out: the provider's own topology below the      *)
(* catalog's, and the limit of 100 changed services.                       *)
(***************************************************************************)
EXTENDS Naturals, FiniteSets

CONSTANTS
    Analysts,     \* clients, each with one request at a time
    Entries,      \* catalog services
    Names,        \* names a request may give for a service
    Refers,       \* the entry each name stands for, or NoEntry
    Owned,        \* entries that belong to the repository of the requests
    NoEntry,
    MaxEdits      \* bound: edits of the catalog

ASSUME AnalysisAssumption ==
    /\ Refers \in [Names -> Entries \cup {NoEntry}] /\ NoEntry \notin Entries
    /\ Owned \subseteq Entries /\ Names \cap Entries = {} /\ MaxEdits \in Nat

VARIABLES
    rows,         \* the entries the catalog has
    needs,        \* per entry: the services it depends on
    edits,
    stored,       \* ChangeRecord rows: identifier and analysis
    asking,       \* per analyst: its request and what it read
    answer        \* what was told last, with the catalog it was read from

analysisVars == <<rows, needs, edits, stored, asking, answer>>

NoAnalysis == [step |-> "idle"]

NoAnswer == [request |-> {}, hit |-> {}, edges |-> {}, roots |-> {}]

AnalysisInit ==
    /\ rows \in SUBSET Entries
    /\ needs = [s \in Entries |-> {}]
    /\ edits = 0
    /\ stored = {} /\ answer = NoAnswer
    /\ asking = [c \in Analysts |-> NoAnalysis]

\* update_service changed what s depends on
EditCatalog(s) ==
    /\ s \in rows /\ edits < MaxEdits /\ edits' = edits + 1
    /\ \E d \in rows \ {s} :
         needs' = [needs EXCEPT ![s] = IF d \in @ THEN @ \ {d} ELSE @ \cup {d}]
    /\ UNCHANGED <<rows, stored, asking, answer>>

\* The roots: what the names refer to and what the repository owns, or the
\* names themselves if that is nothing
Roots(request) ==
    LET resolved == ({Refers[x] : x \in request} \cup Owned) \cap rows
    IN  IF resolved = {} THEN request ELSE resolved

\* An edge leads from a dependency to the service that needs it
Edges == {e \in rows \X rows : e[1] \in needs[e[2]]}

\* calculate_blast_radius follows ways of at most this length
MaxWay == 4

\* What is hit by a change of the roots
Hit(roots, edges) ==
    LET hit[k \in 0..MaxWay] ==
          IF k = 0 THEN roots
          ELSE hit[k - 1] \cup {e[2] : e \in {f \in edges : f[1] \in hit[k - 1]}}
    IN  hit[MaxWay]

\* The topology is not part of the digest
IdentifierOfRequest(request) == <<request, Roots(request), {}>>

\* change_id
Identifier(request) == <<request, Roots(request), Edges>>

Told(c, record) ==
    /\ answer' = [request |-> record.id[1], hit |-> record.hit,
                  edges |-> Edges, roots |-> Roots(record.id[1])]
    /\ asking' = [asking EXCEPT ![c] = NoAnalysis]

\* The catalog is read, the identifier computed and looked up
Analyse(c) ==
    /\ asking[c] = NoAnalysis
    /\ \E request \in SUBSET Names \ {{}} :
         LET found == {r \in stored : r.id = Identifier(request)}
             fresh == [id |-> Identifier(request),
                       hit |-> Hit(Roots(request), Edges)]
         IN  IF found # {}
             THEN /\ Told(c, CHOOSE r \in found : TRUE)
                  /\ UNCHANGED stored
             ELSE /\ asking' = [asking EXCEPT ![c] =
                                  [step |-> "insert", record |-> fresh,
                                   answer |-> [request |-> request,
                                               hit |-> fresh.hit,
                                               edges |-> Edges,
                                               roots |-> Roots(request)]]]
                  /\ UNCHANGED <<stored, answer>>
    /\ UNCHANGED <<rows, needs, edits>>

\* The insert of two requests with one identifier succeeds once; the other
\* request fails on the primary key
InsertAnalysis(c) ==
    /\ asking[c].step = "insert"
    /\ IF \E r \in stored : r.id = asking[c].record.id
       THEN UNCHANGED <<stored, answer>>
       ELSE /\ stored' = stored \cup {asking[c].record}
            /\ answer' = asking[c].answer
    /\ asking' = [asking EXCEPT ![c] = NoAnalysis]
    /\ UNCHANGED <<rows, needs, edits>>

\* The request stops before its commit
DropAnalysis(c) ==
    /\ asking[c] # NoAnalysis
    /\ asking' = [asking EXCEPT ![c] = NoAnalysis]
    /\ UNCHANGED <<rows, needs, edits, stored, answer>>

AnalysisNext ==
    \/ \E s \in Entries : EditCatalog(s)
    \/ \E c \in Analysts : Analyse(c) \/ InsertAnalysis(c) \/ DropAnalysis(c)

AnalysisSpec == AnalysisInit /\ [][AnalysisNext]_analysisVars
--------------------------------------------------------------------------------
AnalysisTypeOK ==
    /\ rows \subseteq Entries /\ needs \in [Entries -> SUBSET Entries]
    /\ edits \in 0..MaxEdits
    /\ \A r \in stored : r.hit \subseteq Entries \cup Names
    /\ \A c \in Analysts : asking[c].step \in {"idle", "insert"}

\* Reuse is never stale: whatever an analyst was told, from the table or new,
\* is the analysis of the catalog as the request read it, however often the
\* catalog was edited since the analysis was stored
AnswerFitsCatalog ==
    answer.hit = Hit(answer.roots, answer.edges)
================================================================================
