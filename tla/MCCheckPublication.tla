-------------------------- MODULE MCCheckPublication --------------------------
EXTENDS CheckPublication

CONSTANTS p1, p2

TwoPublishers == {p1, p2}
===============================================================================
