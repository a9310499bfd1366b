----------------------------- MODULE MCInvitation -----------------------------
EXTENDS Invitation, TLC

CONSTANTS i1, i2, w1, r1, r2, s1, s2

OneInvitation == {i1}
TwoInvitations == {i1, i2}
OneWorker == {w1}
TwoRequests == {r1, r2}
TwoSecrets == {s1, s2}

Symmetry ==
    Permutations(Invitations) \cup Permutations(Requests) \cup Permutations(Secrets)
===============================================================================
