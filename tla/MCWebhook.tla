------------------------------ MODULE MCWebhook ------------------------------
EXTENDS Webhook, TLC

CONSTANTS p1, p2, i1, i2, pr1, pr2, s1, s2, s3, w1, o1, c1, c2

OneProcess == {p1}
TwoProcesses == {p1, p2}
OneChange == {c1}
TwoChanges == {c1, c2}

E(kind, change, state, at) ==
    [kind |-> kind, change |-> change, state |-> state, at |-> at]

Opened == pr1 :> E("pull_request", c1, "opened", 1)

\* The app is installed and uninstalled; a pull request is opened, and opened
\* again with the same content.
PullRequestEvents ==
    Opened @@
    i1 :> E("installation", None, "created", 1) @@
    i2 :> E("installation", None, "deleted", 1) @@
    pr2 :> E("pull_request", c1, "reopened", 1)

\* Two statuses of the deployment in the same second.
ReplayEvents ==
    s1 :> E("deployment", None, "in_progress", 1) @@
    s2 :> E("deployment", None, "success", 1)

\* They are followed by a third; two pull requests are analysed from the commit,
\* a workflow runs and a push, which is not monitored, arrives.
DeploymentEvents ==
    Opened @@ ReplayEvents @@
    pr2 :> E("pull_request", c2, "opened", 1) @@
    s3 :> E("deployment", None, "inactive", 2) @@
    w1 :> E("workflow_run", None, "success", 1) @@
    o1 :> E("other", None, "push", 1)

PullRequests == DOMAIN PullRequestEvents
Deployments == DOMAIN DeploymentEvents
Replays == DOMAIN ReplayEvents

Symmetry == Permutations(Processes)
==============================================================================
