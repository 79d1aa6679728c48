-------------------------- MODULE MCInstanceLocks --------------------------
(***************************************************************************)
(* InstanceLocks for TLC: processes and devices are interchangeable.       *)
(***************************************************************************)
EXTENDS InstanceLocks, TLC

Symmetry == Permutations(Procs) \cup Permutations(Devices)
=============================================================================
