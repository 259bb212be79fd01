---------------------------- MODULE MCPurchasing ----------------------------
EXTENDS Purchasing, TLC

Interchangeable == Permutations(Call) \cup Permutations(Charge) \cup Permutations(Delivery)
=============================================================================
