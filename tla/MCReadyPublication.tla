------------------------- MODULE MCReadyPublication -------------------------
(***************************************************************************)
(* Small instances of READY publication for TLC.                           *)
(***************************************************************************)
EXTENDS ReadyPublication

Symmetric == Permutations(Publishers)

=============================================================================
