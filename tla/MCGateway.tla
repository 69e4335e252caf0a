------------------------------ MODULE MCGateway ------------------------------
(***************************************************************************)
(* TLC instances of Gateway: concurrent invocations of one client request. *)
(***************************************************************************)
EXTENDS Gateway, TLC

CONSTANTS k1, k2, d1, d2, o1, o2, p, r1, r2, r3

MCCounter == {"model_calls", "paper_runs"}
MCProviderCounter == {"model_calls"}
MCCap == [model_calls |-> 3, paper_runs |-> 2]
NoPaperLeft == [model_calls |-> 3, paper_runs |-> 0]

Calls(n) == [model_calls |-> n, paper_runs |-> 0]
Paper == [model_calls |-> 0, paper_runs |-> 2]
OneCall == {Calls(1)}
CallOrPaper == {Calls(1), Paper}
CallUsage == {Calls(1), Calls(2)}

SameKey == [i \in Caller |-> k1]
SameDigest == [i \in Caller |-> d1]
OneCallEach == [d \in Digest |-> Calls(1)]

Names == Permutations(LeaseId) \cup Permutations(Caller)
=============================================================================
