------------------------------ MODULE MCHooks ------------------------------
EXTENDS Hooks, TLC

Interchangeable == Permutations(Delivery)
=============================================================================
