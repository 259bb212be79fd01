------------------------------ MODULE MCRunTalk ------------------------------
\* Instances of RunTalk for TLC; what a turn is promised of the model (Answers)
\* is evaluated with them.
EXTENDS RunTalk, Answers, TLC
=============================================================================
