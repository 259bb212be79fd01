------------------------------ MODULE MCMachines ------------------------------
\* Small instances of Machines for TLC; nothing is interchangeable where
\* liveness is checked.
EXTENDS Machines
=============================================================================
