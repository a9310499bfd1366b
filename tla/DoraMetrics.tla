------------------------------ MODULE DoraMetrics ------------------------------
(***************************************************************************)
(* get_dora_metrics of backend/app/services.py: delivery metrics over the  *)
(* changes and incidents of the last Days days.  The window of a dataset   *)
(* that is synthetic throughout ends at its newest record, any other       *)
(* window ends now.                                                        *)
(*                                                                         *)
(* Times are integers.  The mean of a set of durations is kept as the sum  *)
(* and the number of them; rates are kept as counts.                       *)
(***************************************************************************)
EXTENDS Integers, FiniteSets, FiniteSetsExt

CONSTANTS
    Deploys,     \* change identifiers
    Outages,     \* incident identifiers
    Days,        \* the length of the window
    Horizon,     \* bound: records are from 0..Horizon
    LastDay      \* bound: the clock

ASSUME DoraAssumption ==
    /\ Days \in Nat /\ Horizon \in Nat /\ LastDay \in Nat /\ Horizon <= LastDay
    /\ IsFiniteSet(Deploys) /\ IsFiniteSet(Outages)

VARIABLES
    today,       \* the time of the request
    deploys,     \* ChangeRecord rows
    outages,     \* IncidentRecord rows
    metrics      \* the last response

doraVars == <<today, deploys, outages, metrics>>

None == -1

Times == 0..Horizon

DeployRow ==
    [created : Times, status : {"not_deployed", "deployed", "rolled_back"},
     mode : {"synthetic", "connected"}]

OutageRow ==
    [started : Times, resolved : Times \cup {None}, change : Deploys \cup {None},
     deployMark : Times \cup {None}, recoveryMark : Times \cup {None},
     mode : {"synthetic", "connected"}]

Absent == [mode |-> "none"]

\* The window of a dataset ends now, whatever it consists of
WindowEndNow == today

WindowEnd ==
    LET rows == {deploys[d] : d \in Deploys} \cup {outages[i] : i \in Outages}
        present == rows \ {Absent}
        observed == {deploys[d].created : d \in {e \in Deploys : deploys[e] # Absent}}
                    \cup {outages[i].started : i \in {o \in Outages : outages[o] # Absent}}
    IN  IF present # {} /\ \A r \in present : r.mode = "synthetic"
        THEN Max(observed) ELSE today

InWindow(time) == time >= WindowEnd - Days

Deployed ==
    {d \in Deploys : /\ deploys[d] # Absent
                     /\ deploys[d].status \in {"deployed", "rolled_back"}
                     /\ InWindow(deploys[d].created)}

Seen == {i \in Outages : outages[i] # Absent /\ InWindow(outages[i].started)}

Failed == {outages[i].change : i \in Seen} \cap Deployed

\* Deployment markers of the change's incidents, not before the change
Marks(d) ==
    {m \in {outages[i].deployMark : i \in {o \in Seen : outages[o].change = d}} :
       m # None /\ m >= deploys[d].created}

LeadTime(d) == Min(Marks(d)) - deploys[d].created

\* When service was restored: resolved_at, else the recovery marker
Restored(i) ==
    IF outages[i].resolved # None THEN outages[i].resolved
    ELSE IF outages[i].recoveryMark >= outages[i].started
    THEN outages[i].recoveryMark ELSE None

RestoreTime(i) == Restored(i) - outages[i].started

Metrics ==
    LET measured == {d \in Deployed : Marks(d) # {}}
        restored == {i \in Seen : /\ Restored(i) # None
                                  /\ Restored(i) >= outages[i].started}
    IN  [deployments |-> Cardinality(Deployed),
         failures |-> Cardinality(Failed),
         rollbacks |-> Cardinality({d \in Deployed :
                                      deploys[d].status = "rolled_back"}),
         incidents |-> Cardinality(Seen),
         lead |-> [sum |-> MapThenSumSet(LeadTime, measured),
                   count |-> Cardinality(measured)],
         restore |-> [sum |-> MapThenSumSet(RestoreTime, restored),
                      count |-> Cardinality(restored)]]

DoraInit ==
    /\ today = Horizon
    /\ deploys \in [Deploys -> DeployRow \cup {Absent}]
    /\ outages \in [Outages -> OutageRow \cup {Absent}]
    /\ metrics = Metrics

\* The console asks again, some time later
AskMetrics ==
    /\ metrics' = Metrics /\ metrics' # metrics
    /\ UNCHANGED <<today, deploys, outages>>

NextDay ==
    /\ today < LastDay /\ today' = today + 1
    /\ UNCHANGED <<deploys, outages, metrics>>

DoraNext == AskMetrics \/ NextDay

DoraSpec == DoraInit /\ [][DoraNext]_doraVars
--------------------------------------------------------------------------------
DoraTypeOK ==
    /\ today \in 0..LastDay
    /\ deploys \in [Deploys -> DeployRow \cup {Absent}]
    /\ outages \in [Outages -> OutageRow \cup {Absent}]

\* A demonstration does not fade: the metrics of a dataset that is synthetic
\* throughout do not change as time passes
SyntheticStandsStill ==
    (\A r \in {deploys[d] : d \in Deploys} \cup {outages[i] : i \in Outages} :
       r.mode # "connected")
      => metrics = Metrics

\* The rates are rates and the durations durations: no more failures or
\* rollbacks than deployments, at most one lead time per deployment and one
\* restore time per incident, and none of them negative
RatesAreRates ==
    /\ metrics.failures <= metrics.deployments
    /\ metrics.rollbacks <= metrics.deployments
    /\ metrics.lead.count <= metrics.deployments
    /\ metrics.restore.count <= metrics.incidents
    /\ metrics.lead.sum >= 0 /\ metrics.restore.sum >= 0

\* The metrics make sense of whatever rows there are, and time alone does not
\* change those of a demonstration
MetricsAreCoherent == RatesAreRates /\ SyntheticStandsStill
================================================================================
