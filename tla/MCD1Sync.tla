------------------------------ MODULE MCD1Sync ------------------------------
(* D1Sync for TLC: interchangeable processes, and the last change of the   *)
(* log is one of the markers that have no local table.                     *)
EXTENDS D1Sync, TLC
OneArtifact == {[seq |-> 1, side |-> {}]}
Symmetric == Permutations(Procs)
=============================================================================
