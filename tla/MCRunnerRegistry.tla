-------------------------- MODULE MCRunnerRegistry --------------------------
(* Finite instances of RunnerRegistry for TLC. *)
EXTENDS RunnerRegistry, TLC

Symmetry == Permutations(AdminCall) \cup Permutations(HostPort)
=============================================================================
