----------------------------- MODULE MCOperations -----------------------------
(***************************************************************************)
(* The components that the API serves besides the outbox and the webhook.  *)
(* They share no state, so no interleaving of two of them tells more than  *)
(* each of them does alone: a behaviour follows one component, chosen by   *)
(* the first state, while the others stay as they were.                    *)
(***************************************************************************)
EXTENDS Catalog, RiskPolicy, IncidentLifecycle, Feedback, DatasetConsent,
        EventLedger, UserContext, Identity, InstallState, TenantSetting,
        RateLimit, TLC

CONSTANTS c1, c2, api, web, db, h1, h2, ra, rb, w1, w2, w3, s1, s2, e1, e2,
          u1, u2, u3, k1, k2

VARIABLE subject   \* the component the behaviour follows

Clients == {c1, c2}
ThreeServices == {api, web, db}
TwoServices == {api, web}
TwoHypotheses == {h1, h2}
TwoRepositories == {ra, rb}
Home == (ra :> w1) @@ (rb :> w2)
TwoWorkspaces == {w1, w2}
ThreeWorkspaces == {w1, w2, w3}
TwoSubjects == {s1, s2}
TwoEmails == {e1, e2}
ThreeAccounts == {u1, u2, u3}
TwoKeys == {k1, k2}

Symmetry == Permutations(Clients)

Init ==
    /\ CatalogInit /\ PolicyInit /\ LifecycleInit /\ FeedbackInit
    /\ ConsentInit /\ LedgerInit /\ ContextInit /\ IdentityInit
    /\ InstallInit /\ SettingInit /\ RateInit
    /\ subject \in {"catalog", "policy", "lifecycle", "feedback", "consent",
                    "ledger", "context", "identity", "install", "setting",
                    "rate"}
    \* what the other components leave open is fixed
    /\ subject # "lifecycle" => incident.severity = 1
    /\ subject # "consent" => connected
    /\ subject # "ledger" => home = ra
    /\ subject # "context" => repos = {}

Next ==
    /\ UNCHANGED subject
    /\ IF subject = "catalog" THEN CatalogNext ELSE UNCHANGED catalogVars
    /\ IF subject = "policy" THEN PolicyNext ELSE UNCHANGED policyVars
    /\ IF subject = "lifecycle" THEN LifecycleNext ELSE UNCHANGED lifecycleVars
    /\ IF subject = "feedback" THEN FeedbackNext ELSE UNCHANGED feedbackVars
    /\ IF subject = "consent" THEN ConsentNext ELSE UNCHANGED consentVars
    /\ IF subject = "ledger" THEN LedgerNext ELSE UNCHANGED ledgerVars
    /\ IF subject = "context" THEN ContextNext ELSE UNCHANGED contextVars
    /\ IF subject = "identity" THEN IdentityNext ELSE UNCHANGED identityVars
    /\ IF subject = "install" THEN InstallNext ELSE UNCHANGED installVars
    /\ IF subject = "setting" THEN SettingNext ELSE UNCHANGED settingVars
    /\ IF subject = "rate" THEN RateNext ELSE UNCHANGED rateVars

vars == <<subject, catalogVars, policyVars, lifecycleVars, feedbackVars,
          consentVars, ledgerVars, contextVars, identityVars, installVars,
          settingVars, rateVars>>

Spec == Init /\ [][Next]_vars

\* Types of the component that takes the steps
TypeOK ==
    /\ subject = "catalog" => CatalogTypeOK
    /\ subject = "policy" => PolicyTypeOK
    /\ subject = "lifecycle" => LifecycleTypeOK
    /\ subject = "feedback" => FeedbackTypeOK
    /\ subject = "consent" => ConsentTypeOK
    /\ subject = "ledger" => LedgerTypeOK
    /\ subject = "context" => ContextTypeOK
    /\ subject = "identity" => IdentityTypeOK
    /\ subject = "install" => InstallTypeOK
    /\ subject = "setting" => SettingTypeOK
    /\ subject = "rate" => RateTypeOK
===============================================================================
