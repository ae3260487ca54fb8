----------------------------- MODULE MCScanGuard -----------------------------
(* Instances of ScanGuard for TLC. *)
EXTENDS ScanGuard, TLC

Symmetry == Permutations(Requests)
=============================================================================
