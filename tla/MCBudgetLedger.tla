--------------------------- MODULE MCBudgetLedger ---------------------------
(***************************************************************************)
(* TLC instances of BudgetLedger: two counters, one that only a provider   *)
(* call spends and one of the paper runs.                                  *)
(***************************************************************************)
EXTENDS BudgetLedger, TLC

CONSTANTS k1, k2, d1, d2, o1, o2, r1, r2, r3

MCCounter == {"model_calls", "paper_runs"}
MCProviderCounter == {"model_calls"}
MCCap == [model_calls |-> 3, paper_runs |-> 2]

Calls(n) == [model_calls |-> n, paper_runs |-> 0]
Paper == [model_calls |-> 0, paper_runs |-> 2]

CallAmounts == {Calls(1), Calls(2), Paper}
PaperAmounts == {Calls(1), Paper}
OneCall == {Calls(1)}
CallUsage == {Calls(1), Calls(2)}

RunsAndKeys == Permutations(LeaseId) \cup Permutations(Key)
AllNames == RunsAndKeys \cup Permutations(Digest) \cup Permutations(Owner)
=============================================================================
