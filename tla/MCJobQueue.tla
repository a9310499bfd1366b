----------------------------- MODULE MCJobQueue -----------------------------
EXTENDS JobQueue

CONSTANTS j1, j2, w1, w2, a1, a2

OneJob == {j1}
TwoJobs == {j1, j2}
OneWorker == {w1}
TwoWorkers == {w1, w2}
OneAdmin == {a1}
TwoAdmins == {a1, a2}
=============================================================================
