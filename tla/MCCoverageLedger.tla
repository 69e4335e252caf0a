-------------------------- MODULE MCCoverageLedger --------------------------
(* One dataset over a month of two days. *)
EXTENDS CoverageLedger

CONSTANT d1
=============================================================================
