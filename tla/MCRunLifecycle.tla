--------------------------- MODULE MCRunLifecycle ---------------------------
(* Small instances of RunLifecycle for TLC. *)
EXTENDS RunLifecycle, TLC

\* Runs, requests and sweeps are interchangeable.
Interchangeable ==
  Permutations(Run) \cup Permutations(Decider) \cup Permutations(Sweeper)
=============================================================================
