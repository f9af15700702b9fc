---------------------------- MODULE MCLifecycle ----------------------------
(***************************************************************************)
(* Lifecycle with interchangeable processes.                               *)
(***************************************************************************)
EXTENDS Lifecycle, TLC

ProcSymmetry == Permutations(Procs)

=============================================================================
