---------------------------- MODULE RunLifecycle ----------------------------
(***************************************************************************)
(* What the budget ledger promises about a run (one reservation with its   *)
(* lease), whoever calls it and whatever expires meanwhile.                *)
(*                                                                         *)
(* A run is admitted at most once, only while the ledger is open, and      *)
(* never beyond Slots runs in progress.  Its provider is started at most   *)
(* once.  A run that was started ends settled; only a run that was not can *)
(* be given back.  Settled and released runs are final.  One step may end  *)
(* any number of runs (the recovery of expired leases) but admits at most  *)
(* one and starts at most one.                                             *)
(***************************************************************************)
EXTENDS Naturals, FiniteSets

CONSTANTS Run, Slots

VARIABLES run,    \* the stage of every run
          closed  \* no run is admitted or started any more

vars == <<run, closed>>

Stage == {"none", "held", "started", "settled", "released"}

InProgress(f) == {r \in Run : f[r] \in {"held", "started"}}

Ends(r) ==
    \/ run[r] = "held" /\ run'[r] \in {"settled", "released"}
    \/ run[r] = "started" /\ run'[r] = "settled"

Admits(r) ==
    /\ ~closed'
    /\ run[r] = "none" /\ run'[r] = "held"
    /\ Cardinality(InProgress(run')) <= Slots

Starts(r) ==
    /\ ~closed'
    /\ run[r] = "held" /\ run'[r] = "started"

Init == run = [r \in Run |-> "none"] /\ closed = FALSE

Next ==
    /\ run' \in [Run -> Stage]
    /\ closed' \in BOOLEAN
    /\ closed => closed'
    /\ \E S \in {{}} \cup {{r} : r \in Run} :
         /\ \A r \in S : Admits(r) \/ Starts(r)
         /\ \A r \in Run \ S : Ends(r) \/ run'[r] = run[r]

Spec == Init /\ [][Next]_vars
=============================================================================
