------------------------------ MODULE BlastRadius ------------------------------
(***************************************************************************)
(* calculate_blast_radius of backend/app/engines.py: a breadth-first walk  *)
(* from the changed services along the active edges of the topology.  A    *)
(* service is entered again when a way of the same length and of higher    *)
(* confidence turns up, so a service may be in the queue more than once.   *)
(*                                                                         *)
(* The confidence of an edge is a numerator over Scale; that of a way of d *)
(* edges is the product of the numerators, over Scale^d.  Two ways are     *)
(* only compared when they have the same length.  Labels, kinds and teams  *)
(* are left out.                                                           *)
(***************************************************************************)
EXTENDS Sequences, Rounding, Sorting

CONSTANTS
    Node,      \* names of services, numbers in the order of their names
    Listed,    \* the nodes of the topology
    EdgePool,  \* edges a topology may have, each with its place in the list
    Changes,   \* sets of services a change may name
    Tier,      \* per node, 3 when nothing is known
    Health,    \* per node
    MaxHops,   \* max_hops
    Scale      \* denominator of a confidence

ASSUME BlastAssumption ==
    /\ Node \subseteq Nat /\ Node # {} /\ Listed \subseteq Node
    /\ \A c \in Changes : c \subseteq Node /\ IsFiniteSet(c)
    /\ IsFiniteSet(EdgePool)
    /\ \A e \in EdgePool :
         /\ e.source \in Node /\ e.target \in Node
         /\ e.relation \in Nat /\ e.place \in Nat /\ e.confidence \in 0..Scale
    /\ \A d, e \in EdgePool : d.place = e.place => d = e
    /\ MaxHops \in Nat /\ Scale \in Nat \ {0}
    /\ \A n \in Node : Tier[n] \in 1..3
    /\ \A n \in Node : Health[n] \in {"critical", "degraded", "healthy", "unknown"}

VARIABLES
    edges,     \* the active edges
    changed,   \* changed_services
    queue,
    source,    \* the service whose outgoing edges are followed
    outgoing,  \* those of its edges that are still to follow
    distance,  \* per service: hops, or Far
    certainty, \* path_confidence
    origin,    \* the changed service the best way starts at
    impact     \* the result: per service its score, or Far

blastVars == <<edges, changed, queue, source, outgoing, distance, certainty,
               origin, impact>>

Far == -1

\* Edges leave a service in the order of their targets and relations; the
\* sort keeps those that agree in both as the list has them
Before(d, e) ==
    \/ d.target < e.target
    \/ d.target = e.target /\ d.relation < e.relation
    \/ /\ d.target = e.target /\ d.relation = e.relation
       /\ d.place < e.place

Adjacent(n) == InOrder({e \in edges : e.source = n}, Before)

\* distances, path_confidence, origins and the queue before the walk
WalkBegins ==
    /\ queue = InOrder(changed, <)
    /\ source = CHOOSE n \in Node : TRUE
    /\ outgoing = <<>>
    /\ distance = [n \in Node |-> IF n \in changed THEN 0 ELSE Far]
    /\ certainty = [n \in Node |-> IF n \in changed THEN 1 ELSE Far]
    /\ origin = [n \in Node |-> IF n \in changed THEN n ELSE Far]
    /\ impact = [n \in Node |-> Far]

BlastInit ==
    /\ edges \in SUBSET EdgePool /\ changed \in Changes
    /\ WalkBegins

\* A changed service that the topology does not list is added to it
Known == Listed \cup changed

\* max_hops is not looked at
PopUnbounded ==
    /\ outgoing = <<>> /\ queue # <<>>
    /\ source' = Head(queue) /\ queue' = Tail(queue)
    /\ outgoing' = Adjacent(source')
    /\ UNCHANGED <<edges, changed, distance, certainty, origin, impact>>

\* popleft
Pop ==
    /\ outgoing = <<>> /\ queue # <<>>
    /\ source' = Head(queue) /\ queue' = Tail(queue)
    /\ outgoing' = IF distance[source'] >= MaxHops THEN <<>>
                   ELSE Adjacent(source')
    /\ UNCHANGED <<edges, changed, distance, certainty, origin, impact>>

\* A way of the same length never replaces the first one found
IsBetterIfShorter(e, hops, confidence) ==
    distance[e.target] = Far \/ hops < distance[e.target]

\* is_better
IsBetter(e, hops, confidence) ==
    \/ distance[e.target] = Far
    \/ hops < distance[e.target]
    \/ hops = distance[e.target] /\ confidence > certainty[e.target]

\* One edge of the popped service
Follow ==
    /\ outgoing # <<>>
    /\ LET e == Head(outgoing)
           hops == distance[source] + 1
           confidence == certainty[source] * e.confidence
       IN  IF e.target \in Known /\ IsBetter(e, hops, confidence)
           THEN /\ distance' = [distance EXCEPT ![e.target] = hops]
                /\ certainty' = [certainty EXCEPT ![e.target] = confidence]
                /\ origin' = [origin EXCEPT ![e.target] = origin[source]]
                /\ queue' = Append(queue, e.target)
           ELSE UNCHANGED <<distance, certainty, origin, queue>>
    /\ outgoing' = Tail(outgoing)
    /\ UNCHANGED <<edges, changed, source, impact>>

\* tier_factors in fiftieths and health_factors in tenths
TierFactor == <<50, 46, 41>>

HealthFactor ==
    [critical |-> 12, degraded |-> 11, healthy |-> 10, unknown |-> 9]

\* The powers of b, by as many hops as there can be
Power(b) ==
    LET power[k \in 0..MaxHops] == IF k = 0 THEN 1 ELSE b * power[k - 1]
    IN  power

\* The score falls by 18/25 with every hop
Score(n) ==
    LET d == distance[n]
    IN  IF d = 0 THEN 100
        ELSE Clamp(Round(Power(18)[d] * certainty[n] * TierFactor[Tier[n]]
                              * HealthFactor[Health[n]],
                         5 * Power(25 * Scale)[d]), 0, 100)

\* The edges of the result: those that lie on a shortest way
Drawn ==
    {e \in edges : /\ distance[e.source] # Far /\ distance[e.target] # Far
                   /\ distance[e.target] = distance[e.source] + 1}

\* The walk is over; the result is put together
Report ==
    /\ outgoing = <<>> /\ queue = <<>>
    /\ \A n \in Node : impact[n] = Far
    /\ impact' = [n \in Node |-> IF distance[n] = Far THEN Far ELSE Score(n)]
    /\ UNCHANGED <<edges, changed, queue, source, outgoing, distance,
                   certainty, origin>>

BlastNext == Pop \/ Follow \/ Report

BlastSpec == BlastInit /\ [][BlastNext]_blastVars /\ WF_blastVars(BlastNext)
--------------------------------------------------------------------------------
BlastTypeOK ==
    /\ edges \subseteq EdgePool /\ changed \in Changes
    /\ queue \in Seq(Node) /\ source \in Node /\ outgoing \in Seq(EdgePool)
    /\ distance \in [Node -> Far..MaxHops]
    /\ certainty \in [Node -> Far..Power(Scale)[MaxHops]]
    /\ origin \in [Node -> Node \cup {Far}]
    /\ impact \in [Node -> Far..100]

Reported == \E n \in Node : impact[n] # Far

\* Ways of k edges from s to n, by the confidence they have
Walks ==
    LET walk[k \in 0..MaxHops] ==
          IF k = 0 THEN {<<s, s, 1>> : s \in changed}
          ELSE {<<p[1][1], p[2].target, p[1][3] * p[2].confidence>> :
                  p \in {q \in walk[k - 1] \X edges :
                            q[2].source = q[1][2] /\ q[2].target \in Known}}
    IN  walk

\* When the walk is over, a service is reported if a way of at most max_hops
\* edges leads to it, with the length of the shortest one and the highest
\* confidence of those that are this short, and its origin is where one of the
\* best ways starts
ShortestAndSurest ==
    Reported =>
      \A n \in Node :
        LET lengths == {k \in 0..MaxHops : \E w \in Walks[k] : w[2] = n}
            first == CHOOSE k \in lengths : \A l \in lengths : k <= l
            best == {w \in Walks[first] : w[2] = n}
        IN  IF lengths = {} THEN distance[n] = Far /\ impact[n] = Far
            ELSE /\ distance[n] = first
                 /\ <<origin[n], n, certainty[n]>> \in best
                 /\ \A w \in best : w[3] <= certainty[n]

\* The edges of the result explain it: every service that is hit indirectly
\* has one that leaves a reported service and carries its certainty on
ImpactIsDrawn ==
    Reported =>
      \A n \in Node :
        distance[n] > 0 =>
          \E e \in Drawn :
            /\ e.target = n /\ impact[e.source] # Far
            /\ certainty[n] = certainty[e.source] * e.confidence

\* The report of calculate_blast_radius is exact and explains itself: the
\* services, distances and certainties of the best ways, with edges to show
BlastRadiusIsExact == ShortestAndSurest /\ ImpactIsDrawn
================================================================================
