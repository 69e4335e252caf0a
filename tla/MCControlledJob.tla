--------------------------- MODULE MCControlledJob ---------------------------
(***************************************************************************)
(* TLC instance of ControlledJob.                                          *)
(***************************************************************************)
EXTENDS ControlledJob

CONSTANTS c1, c2
=============================================================================
