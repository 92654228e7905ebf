-------------------------- MODULE MCRunnerManager --------------------------
(***************************************************************************)
(* Small instances of RunnerManager for TLC.  The sets are sets of model   *)
(* values that the specification never orders or chooses from, so that the *)
(* run without liveness may use their symmetry.                            *)
(***************************************************************************)
EXTENDS RunnerManager, TLC

Symmetry == Permutations(Threads) \cup Permutations(Pids) \cup Permutations(Ports)

=============================================================================
