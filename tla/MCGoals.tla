------------------------------ MODULE MCGoals ------------------------------
EXTENDS Goals, Rungs
=============================================================================
