---------------------------- MODULE ConnectorHealth ----------------------------
(***************************************************************************)
(* connector_health of backend/app/provider_services.py: what the console  *)
(* shows of the GitHub connection of a workspace, computed from its        *)
(* webhook deliveries and its Check publications while both go on.  It     *)
(* only reads, so one request, begun at any moment, stands for each, and a *)
(* behaviour ends with its answer.                                         *)
(*                                                                         *)
(* The request is one transaction at READ COMMITTED: every statement sees  *)
(* what is committed when it runs, so deliveries, publications and the     *)
(* connection change between the statements.                               *)
(*                                                                         *)
(* A delivery is one of those of backend/app/services.py: it is recorded   *)
(* as processing, ends as processed or failed, may be sent again, and      *)
(* stays processing if its process stops.  Counts of repositories and of   *)
(* publications that will be retried are shown but decide nothing.         *)
(***************************************************************************)
EXTENDS Naturals, FiniteSets, FiniteSetsExt

CONSTANTS
    Deliveries,
    StaleAfter,  \* how long a delivery may be processing: 5 minutes
    LastTick     \* bound: the clock

ASSUME HealthAssumption == StaleAfter \in Nat /\ LastTick \in Nat \ {0}

VARIABLES
    tick,        \* the clock, which begins at 1
    link,        \* connection_state
    fault,       \* the connection has an error_code
    delivery,    \* per delivery: status and created_at
    lost,        \* a publication is permanent_failed
    view,        \* what the request has read: step names its last statement
    during       \* history: the statuses of each delivery while the request runs

worldVars == <<tick, link, fault, delivery, lost>>
healthVars == <<worldVars, view, during>>

Never == 0  \* a maximum over no rows: None

NotSent == [status |-> "none", created |-> Never]

Successful == {"processed", "verified", "ignored"}

Reading == {"connection", "success", "failure", "stuck"}

HealthInit ==
    /\ tick = 1 /\ link = "pending_verification" /\ fault = FALSE /\ lost = FALSE
    /\ delivery = [d \in Deliveries |-> NotSent]
    /\ view = [step |-> "none", link |-> "pending_verification", fault |-> FALSE,
               cutoff |-> Never, success |-> Never, failure |-> Never,
               stuck |-> FALSE, lost |-> FALSE]
    /\ during = [d \in Deliveries |-> {}]
--------------------------------------------------------------------------------
\* A signed delivery of the installation changes the connection
InstallationEvent(d) ==
    /\ delivery[d] = NotSent
    /\ link' \in {"connected", "revoked"}
    /\ delivery' = [delivery EXCEPT ![d] =
                      [status |-> "verified", created |-> tick]]
    /\ UNCHANGED <<tick, fault, lost>>

\* Any other event is recorded: to be processed, verified if it is of a kind
\* that is not monitored, or ignored if its repository is not selected
Receive(d) ==
    /\ delivery[d] = NotSent
    /\ \E s \in {"processing", "verified", "ignored"} :
         delivery' = [delivery EXCEPT ![d] = [status |-> s, created |-> tick]]
    /\ UNCHANGED <<tick, link, fault, lost>>

\* GitHub sends a pull request event again: one that failed, or one whose
\* repository was selected since
Redeliver(d) ==
    /\ delivery[d].status \in {"failed", "ignored"}
    /\ delivery' = [delivery EXCEPT ![d].status = "processing"]
    /\ UNCHANGED <<tick, link, fault, lost>>

FinishDelivery(d) ==
    /\ delivery[d].status = "processing"
    /\ \E s \in {"processed", "failed"} :
         delivery' = [delivery EXCEPT ![d].status = s]
    /\ UNCHANGED <<tick, link, fault, lost>>

\* A publication or a synchronisation ends; the error of the connection is
\* recorded or cleared
Publish ==
    /\ fault' \in BOOLEAN /\ lost' \in BOOLEAN
    /\ <<fault', lost'>> # <<fault, lost>>
    /\ UNCHANGED <<tick, link, delivery>>

PassTime ==
    /\ tick < LastTick /\ tick' = tick + 1
    /\ UNCHANGED <<link, fault, delivery, lost>>

\* What the request lives through while it runs
Witness ==
    during' = IF view.step \in Reading
              THEN [d \in Deliveries |-> during[d] \cup {delivery'[d].status}]
              ELSE during
--------------------------------------------------------------------------------
(* The statements of the request, in their order. *)

TimesOf(statuses) ==
    {delivery[d].created : d \in {e \in Deliveries : delivery[e].status \in statuses}}

\* max(created_at) over the deliveries with one of the statuses
Latest(statuses) ==
    IF TimesOf(statuses) = {} THEN Never ELSE Max(TimesOf(statuses))

\* The connections of the workspace; the clock is read once, for the request
ReadConnection ==
    /\ view.step = "none"
    /\ view' = [step |-> "connection", link |-> link, fault |-> fault,
                cutoff |-> tick, success |-> Never, failure |-> Never,
                stuck |-> FALSE, lost |-> FALSE]
    /\ during' = [d \in Deliveries |-> {delivery[d].status}]

\* last_success_at
ReadSuccess ==
    /\ view.step = "connection"
    /\ view' = [view EXCEPT !.step = "success", !.success = Latest(Successful)]
    /\ UNCHANGED during

\* last_failure_at
ReadFailure ==
    /\ view.step = "success"
    /\ view' = [view EXCEPT !.step = "failure", !.failure = Latest({"failed"})]
    /\ UNCHANGED during

\* stuck_delivery_count: created before the clock read at first - 5 minutes
CountStuck ==
    /\ view.step = "failure"
    /\ view' = [view EXCEPT !.step = "stuck",
                            !.stuck = \E t \in TimesOf({"processing"}) :
                                        t + StaleAfter < view.cutoff]
    /\ UNCHANGED during

\* permanent_failure_count, after which the answer is computed
CountLost ==
    /\ view.step = "stuck"
    /\ view' = [view EXCEPT !.step = "answered", !.lost = lost]
    /\ UNCHANGED during

\* What the deliveries, the publications and the clock do meanwhile
Meanwhile ==
    \/ \E d \in Deliveries : \/ InstallationEvent(d) \/ Receive(d)
                             \/ Redeliver(d) \/ FinishDelivery(d)
    \/ Publish
    \/ PassTime

Request == ReadConnection \/ ReadSuccess \/ ReadFailure \/ CountStuck \/ CountLost

HealthNext ==
    \/ view.step # "answered" /\ Meanwhile /\ Witness /\ UNCHANGED view
    \/ Request /\ UNCHANGED worldVars

HealthSpec == HealthInit /\ [][HealthNext]_healthVars
--------------------------------------------------------------------------------
\* Only a failure that nothing succeeded before is shown
LatestFailedIfFirst == view.failure # Never /\ view.success = Never

\* last_failure_at > last_success_at
LatestFailed ==
    view.failure # Never /\ (view.success = Never \/ view.failure > view.success)

Reasons ==
    {r \in {"unavailable", "error", "delivery failed", "stuck", "publication"} :
       \/ r = "unavailable" /\ view.link # "connected"
       \/ r = "error" /\ view.fault
       \/ r = "delivery failed" /\ LatestFailed
       \/ r = "stuck" /\ view.stuck
       \/ r = "publication" /\ view.lost}

HealthStatus ==
    CASE view.link = "pending_verification" -> "pending"
      [] view.link = "revoked" -> "revoked"
      [] OTHER -> IF Reasons = {} THEN "healthy" ELSE "degraded"

HealthTypeOK ==
    /\ tick \in 1..LastTick /\ fault \in BOOLEAN /\ lost \in BOOLEAN
    /\ link \in {"pending_verification", "connected", "revoked"}
    /\ \A d \in Deliveries :
         /\ delivery[d].created \in 0..LastTick
         /\ delivery[d].status \in {"none", "verified", "processing", "ignored",
                                    "processed", "failed"}
    /\ view.step \in Reading \cup {"none", "answered"}
    /\ {view.cutoff, view.success, view.failure} \subseteq 0..LastTick
    /\ {view.fault, view.stuck, view.lost} \subseteq BOOLEAN

\* An answer "healthy" is earned by what was committed while its request ran,
\* however deliveries arrive, end and are sent again between its statements: the
\* connection was up at the first statement and no publication is lost at the last;
\* a delivery that was failed all along has one recorded no earlier that had
\* succeeded at some moment in between; and one that was processing all along was
\* not older than StaleAfter when the request read the clock.  Nothing is said of
\* a delivery whose status changed meanwhile: a stuck one that fails between the
\* statements ReadFailure and CountStuck is in neither.
HealthyIsEarned ==
    (view.step = "answered" /\ HealthStatus = "healthy") =>
      /\ view.link = "connected" /\ ~view.fault /\ ~lost
      /\ \A d \in Deliveries :
           /\ during[d] = {"failed"} =>
                \E e \in Deliveries :
                  /\ during[e] \cap Successful # {}
                  /\ delivery[e].created >= delivery[d].created
           /\ during[d] = {"processing"} =>
                delivery[d].created + StaleAfter >= view.cutoff
================================================================================
