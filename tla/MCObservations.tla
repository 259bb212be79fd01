--------------------------- MODULE MCObservations ---------------------------
\* Two runs, of one bot or of two (Init chooses).
EXTENDS Observations
=============================================================================
