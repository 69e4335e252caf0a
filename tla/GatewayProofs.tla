---------------------------- MODULE GatewayProofs ----------------------------
(***************************************************************************)
(* What the concurrent invocations of the gateway, with their lost and     *)
(* delayed calls, may rely on: one provider call per key, each covered by  *)
(* a durable marker, and answers charged exactly, while paper runs are     *)
(* settled on the same ledger.                                             *)
(***************************************************************************)
EXTENDS Gateway, BudgetLedgerProofs

\* A marker is sent only for the run of an answered reservation, and a finalize only
\* with the evidence of a measured call.
Prepared(op, run, report) ==
    /\ op = "mark" => run \in LeaseId
    /\ op = "finalize" => report \in Report

\* What an invocation knows at each point.
Knows(x) ==
    /\ x \in Invocation
    /\ x.pc \in {"mark", "mark_retry"} => x.run \in LeaseId
    /\ x.pc = "finalize" => x.report \in Report

\* The type invariant of the invocations, strengthened by that.
LocalInv ==
    /\ inv \in [Caller -> Invocation]
    /\ inflight \subseteq Rpc
    /\ \A i \in Caller : Knows(inv[i])
    /\ \A m \in inflight : Prepared(m.op, m.run, m.report)

\* A report is looked at only when it settles: any other stands for it.
LEMMA FinalizeAnyReport ==
    ASSUME NEW k, NEW d, NEW o, NEW l, NEW report \in Report, FinalizeExact(k, d, o, l, report)
    PROVE  \E r \in Reports(k, d, o, l) : FinalizeExact(k, d, o, l, r)
<1>1. CASE SettleVerdict(Opened, k, d, o, l) = "settle"
  BY <1>1 DEF Reports
<1>2. CASE SettleVerdict(Opened, k, d, o, l) # "settle"
  <2> DEFINE r == [usage |-> Null, costKnown |-> FALSE, result |-> "none"]
  <2>1. r \in Reports(k, d, o, l)
    BY <1>2 DEF Reports
  <2>2. finalizeBudget(Opened, k, d, o, l, r, now) = finalizeBudget(Opened, k, d, o, l, report, now)
    BY <1>2 DEF finalizeBudget
  <2> HIDE DEF r
  <2>3. FinalizeExact(k, d, o, l, r)
    BY <2>2 DEF FinalizeExact
  <2>4. QED BY <2>1, <2>3
<1>3. QED BY <1>1, <1>2

\* An RPC that runs is an operation of the ledger.
LEMMA ExecutesIsNext ==
    ASSUME TypeOK, NEW i \in Caller, NEW op, NEW run \in LeaseId \cup {Null},
           NEW report \in Report \cup {Null}, NEW sent, Prepared(op, run, report),
           Executes(i, op, run, report, sent)
    PROVE  Next
<1> DEFINE k == KeyOf[i]
           d == DigestOf[i]
<1>1. k \in Key /\ d \in Digest /\ AmountsOf[d] \in ReserveAmounts /\ i \in Owner
  BY InvocationAssumption DEF Caller
<1> HIDE DEF k, d
<1>2. CASE op = "reserve" /\ \E l \in LeaseId : Reserve(k, d, i, AmountsOf[d], l)
  BY <1>1, <1>2 DEF Next
<1>3. CASE op = "cancel" /\ \E t \in ClockReadings : sent <= t /\ CancelPreProvider(k, d, i, t)
  BY <1>1, <1>3 DEF Next
<1>4. CASE op = "mark" /\ \E seen \in LeaseId \cup {Null} : MarkProviderStarted(k, d, i, run, seen)
  BY <1>1, <1>4 DEF Next, Prepared
<1>5. CASE op = "settle" /\ SettleUncertain(k, d, i, run)
  BY <1>1, <1>5 DEF Next
<1>6. CASE op = "finalize" /\ FinalizeExact(k, d, i, run, report)
  <2>1. \E r \in Reports(k, d, i, run) : FinalizeExact(k, d, i, run, r)
    BY <1>6, FinalizeAnyReport DEF Prepared
  <2>2. QED BY <1>1, <2>1 DEF Next
<1>7. QED BY <1>2, <1>3, <1>4, <1>5, <1>6 DEF Executes, k, d

\* The run an answered reservation names.
LEMMA ReservedRunType ==
    ASSUME TypeOK, NEW i \in Caller, NEW l \in LeaseId, AfterReserve(i) = "mark"
    PROVE  ReservedRun(i, l) \in LeaseId
<1> DEFINE k == KeyOf[i]
           v == ReserveVerdict(Opened, k, DigestOf[i], i, AmountsOf[DigestOf[i]])
<1>1. k \in Key
  BY InvocationAssumption
<1>2. Opened \in LedgerState
  BY RecoverType, BoundAssumption DEF TypeOK, Opened
<1>3. CASE v = "fresh"
  BY <1>3 DEF ReservedRun
<1>4. CASE v # "fresh"
  <2>1. v = "existing"
    BY <1>4 DEF AfterReserve
  <2>2. Opened.reservations[k] # Null
    BY <2>1 DEF ReserveVerdict, HasStatus
  <2>3. Opened.reservations[k].lease_id \in LeaseId
    BY <1>1, <1>2, <2>2 DEF LedgerState, Reservation
  <2>4. QED BY <1>4, <2>3 DEF ReservedRun
<1>5. QED BY <1>3, <1>4

\* One invocation moves on, possibly leaving a prepared call in flight.
LEMMA LocalStep ==
    ASSUME LocalInv, NEW i \in Caller, NEW x, Knows(x), inv' = [inv EXCEPT ![i] = x],
           \A m \in inflight' : m \in inflight \/ (m \in Rpc /\ Prepared(m.op, m.run, m.report))
    PROVE  LocalInv'
BY DEF LocalInv, Knows

\* ... by changing its program counter only.
LEMMA GotoStep ==
    ASSUME LocalInv, NEW i \in Caller, NEW pc \in Pc, Goto(i, pc),
           pc \in {"mark", "mark_retry"} => inv[i].run \in LeaseId,
           pc # "finalize",
           \A m \in inflight' : m \in inflight \/ (m \in Rpc /\ Prepared(m.op, m.run, m.report))
    PROVE  LocalInv'
<1> DEFINE x == [inv[i] EXCEPT !.pc = pc]
<1>1. inv[i] \in Invocation
  BY DEF LocalInv
<1>2. x \in Invocation /\ x.pc = pc /\ x.run = inv[i].run
  BY <1>1 DEF Invocation
<1>3. Knows(x)
  BY <1>2 DEF Knows
<1>4. inv' = [inv EXCEPT ![i] = x]
  BY DEF Goto, LocalInv
<1> HIDE DEF x
<1>5. QED BY <1>3, <1>4, LocalStep

\* A lost call may stay in flight, and the ledger is not touched.
LEMMA LostStep ==
    ASSUME TypeOK, LocalInv, NEW i \in Caller, NEW pc \in Pc, pc # "finalize",
           NEW op \in {"reserve", "cancel", "mark", "settle", "finalize"},
           Prepared(op, inv[i].run, inv[i].report), Lost(i, op, pc),
           pc \in {"mark", "mark_retry"} => inv[i].run \in LeaseId
    PROVE  UNCHANGED vars /\ LocalInv'
<1> DEFINE n == [op |-> op, inv |-> i, run |-> inv[i].run, report |-> inv[i].report,
                 sent |-> IF op = "cancel" THEN now ELSE 0]
<1>1. inv[i].run \in LeaseId \cup {Null} /\ inv[i].report \in Report \cup {Null}
  BY DEF LocalInv, Invocation
<1>2. n \in Rpc
  BY <1>1, BoundAssumption DEF Rpc, TypeOK
<1>3. Prepared(n.op, n.run, n.report)
  OBVIOUS
<1>4. inflight' \subseteq inflight \cup {n} /\ Goto(i, pc) /\ UNCHANGED vars
  BY DEF Lost
<1> HIDE DEF n
<1>5. \A m \in inflight' : m \in inflight \/ (m \in Rpc /\ Prepared(m.op, m.run, m.report))
  BY <1>2, <1>3, <1>4
<1>6. QED BY <1>4, <1>5, GotoStep

\* The steps of one invocation.
InvocationStep(i) ==
    \/ ReserveOwned(i) \/ ReserveMalformed(i) \/ ReserveLost(i)
    \/ Cancel(i) \/ CancelLost(i)
    \/ Mark(i) \/ MarkLost(i)
    \/ \E bill \in Usage, report \in Report \cup {Null} : CallProvider(i, bill, report)
    \/ FinalizeMeasured(i) \/ FinalizeLost(i)
    \/ SettleUnmeasured(i) \/ SettleLost(i)
    \/ Crash(i)

\* Each is an operation of the ledger or leaves it alone, and keeps the invariant.
LEMMA InvocationSteps ==
    ASSUME TypeOK, LocalInv, NEW i \in Caller, InvocationStep(i)
    PROVE  [Next]_vars /\ LocalInv'
<1> DEFINE k == KeyOf[i]
           d == DigestOf[i]
<1>0. /\ inv[i] \in Invocation /\ Knows(inv[i])
      /\ inv[i].run \in LeaseId \cup {Null} /\ inv[i].report \in Report \cup {Null}
      /\ inv[i].bill \in Usage \cup {Null} /\ inv[i].served \in BOOLEAN
  BY DEF LocalInv, Invocation
<1>00. k \in Key /\ d \in Digest /\ AmountsOf[d] \in ReserveAmounts /\ i \in Owner
  BY InvocationAssumption DEF Caller
<1>1. CASE ReserveOwned(i)
  <2>1. PICK l \in LeaseId :
          /\ Reserve(k, d, i, AmountsOf[d], l)
          /\ inv' = [inv EXCEPT ![i].pc = AfterReserve(i),
                                ![i].run = IF AfterReserve(i) = "mark" THEN ReservedRun(i, l)
                                           ELSE @]
    BY <1>1 DEF ReserveOwned
  <2>2. Next
    BY <1>00, <2>1 DEF Next
  <2> DEFINE run == IF AfterReserve(i) = "mark" THEN ReservedRun(i, l) ELSE inv[i].run
             x == [[inv[i] EXCEPT !.pc = AfterReserve(i)] EXCEPT !.run = run]
  <2>3. AfterReserve(i) \in {"mark", "cancel", "done"}
    BY DEF AfterReserve
  <2>4. run \in LeaseId \cup {Null} /\ (AfterReserve(i) = "mark" => run \in LeaseId)
    BY <1>0, ReservedRunType
  <2>5. inv' = [inv EXCEPT ![i] = x]
    BY <2>1 DEF LocalInv
  <2> HIDE DEF run
  <2>6. x \in Invocation /\ x.pc = AfterReserve(i) /\ x.run = run
    BY <1>0, <2>3, <2>4 DEF Invocation, Pc
  <2>7. Knows(x)
    BY <2>3, <2>4, <2>6 DEF Knows
  <2> HIDE DEF x
  <2>8. inflight' = inflight
    BY <1>1 DEF ReserveOwned
  <2>9. QED BY <2>2, <2>5, <2>7, <2>8, LocalStep
<1>2. CASE ReserveMalformed(i)
  <2>1. Executes(i, "reserve", Null, Null, 0) /\ Goto(i, "cancel") /\ inflight' = inflight
    BY <1>2 DEF ReserveMalformed
  <2>2. Next
    BY <2>1, ExecutesIsNext DEF Prepared
  <2>3. QED BY <2>1, <2>2, GotoStep DEF Pc
<1>3. CASE ReserveLost(i)
  BY <1>3, LostStep DEF ReserveLost, Prepared, Pc
<1>4. CASE Cancel(i)
  <2>1. Executes(i, "cancel", Null, Null, now) /\ Goto(i, "done") /\ inflight' = inflight
    BY <1>4 DEF Cancel
  <2>2. Next
    BY <2>1, ExecutesIsNext DEF Prepared
  <2>3. QED BY <2>1, <2>2, GotoStep DEF Pc
<1>5. CASE CancelLost(i)
  BY <1>5, LostStep DEF CancelLost, Prepared, Pc
<1>6. CASE Mark(i)
  <2>1. inv[i].run \in LeaseId /\ inflight' = inflight
    BY <1>0, <1>6 DEF Mark, Knows
  <2>2. PICK seen \in LeaseId \cup {Null}, pc \in {"provider", "mark_retry", "cancel"} :
          MarkProviderStarted(k, d, i, inv[i].run, seen) /\ Goto(i, pc)
    BY <1>6 DEF Mark, AfterMarkFailure
  <2>3. Next
    BY <1>00, <2>1, <2>2 DEF Next
  <2>4. QED BY <2>1, <2>2, <2>3, GotoStep DEF Pc
<1>7. CASE MarkLost(i)
  <2>1. inv[i].run \in LeaseId
    BY <1>0, <1>7 DEF MarkLost, Knows
  <2>2. AfterMarkFailure(i) \in {"mark_retry", "cancel"}
    BY DEF AfterMarkFailure
  <2>3. QED BY <1>7, <2>1, <2>2, LostStep DEF MarkLost, Prepared, Pc
<1>8. CASE \E bill \in Usage, report \in Report \cup {Null} : CallProvider(i, bill, report)
  <2>1. PICK bill \in Usage, report \in Report \cup {Null} : CallProvider(i, bill, report)
    BY <1>8
  <2> DEFINE pc == IF report = Null THEN "settle" ELSE "finalize"
             x == [[[inv[i] EXCEPT !.bill = bill] EXCEPT !.report = report] EXCEPT !.pc = pc]
  <2>2. inv' = [inv EXCEPT ![i] = x] /\ inflight' = inflight /\ UNCHANGED vars
    BY <2>1 DEF CallProvider, LocalInv
  <2>3. x \in Invocation /\ x.pc = pc /\ x.report = report
    BY <1>0 DEF Invocation, Pc
  <2>4. Knows(x)
    BY <2>3 DEF Knows
  <2> HIDE DEF x
  <2>5. QED BY <2>2, <2>4, LocalStep
<1>9. CASE FinalizeMeasured(i)
  <2> DEFINE ok == FinalizeVerdict(Opened, k, d, i, inv[i].run, inv[i].report) = "ok"
             pc == IF ok THEN "done" ELSE "finalize_settle"
             x == [[inv[i] EXCEPT !.served = ok] EXCEPT !.pc = pc]
  <2>1. /\ inv[i].pc = "finalize" /\ inflight' = inflight
        /\ Executes(i, "finalize", inv[i].run, inv[i].report, 0)
        /\ inv' = [inv EXCEPT ![i] = x]
    BY <1>9 DEF FinalizeMeasured, LocalInv
  <2>2. inv[i].report \in Report
    BY <1>0, <2>1 DEF Knows
  <2>3. Next
    BY <1>0, <2>1, <2>2, ExecutesIsNext DEF Prepared
  <2>4. ok \in BOOLEAN
    OBVIOUS
  <2> HIDE DEF ok
  <2>5. x \in Invocation /\ x.pc = pc
    BY <1>0, <2>4 DEF Invocation, Pc
  <2>6. Knows(x)
    BY <2>5 DEF Knows
  <2> HIDE DEF x
  <2>7. QED BY <2>1, <2>3, <2>6, LocalStep
<1>10. CASE FinalizeLost(i)
  <2>1. inv[i].report \in Report
    BY <1>0, <1>10 DEF FinalizeLost, Knows
  <2>2. QED BY <1>10, <2>1, LostStep DEF FinalizeLost, Prepared, Pc
<1>11. CASE SettleUnmeasured(i)
  <2>1. Executes(i, "settle", inv[i].run, Null, 0) /\ Goto(i, "done") /\ inflight' = inflight
    BY <1>11 DEF SettleUnmeasured
  <2>2. Next
    BY <1>0, <2>1, ExecutesIsNext DEF Prepared
  <2>3. QED BY <2>1, <2>2, GotoStep DEF Pc
<1>12. CASE SettleLost(i)
  BY <1>12, LostStep DEF SettleLost, Prepared, Pc
<1>13. CASE Crash(i)
  BY <1>13, GotoStep DEF Crash, Pc
<1>14. QED BY <1>1, <1>2, <1>3, <1>4, <1>5, <1>6, <1>7, <1>8, <1>9, <1>10, <1>11, <1>12,
              <1>13 DEF InvocationStep

\* Every step of the gateway is a step of the ledger.
LEMMA GatewaySteps ==
    ASSUME TypeOK, LocalInv, [GNext]_gvars
    PROVE  [Next]_vars /\ LocalInv'
<1>1. CASE \E i \in Caller : InvocationStep(i)
  BY <1>1, InvocationSteps
<1>2. CASE \E m \in inflight : Deliver(m)
  <2>1. PICK m \in inflight : Deliver(m)
    BY <1>2
  <2>2. /\ m.inv \in Caller /\ m.run \in LeaseId \cup {Null} /\ m.report \in Report \cup {Null}
        /\ Prepared(m.op, m.run, m.report)
    BY DEF LocalInv, Rpc
  <2>3. Next
    BY <2>1, <2>2, ExecutesIsNext DEF Deliver
  <2>4. inv' = inv /\ inflight' \subseteq inflight
    BY <2>1 DEF Deliver
  <2>5. QED BY <2>3, <2>4 DEF LocalInv
<1>3. CASE ControlledPaper
  <2>1. Next /\ inv' = inv /\ inflight' = inflight
    BY <1>3, PaperAssumption DEF ControlledPaper, Next
  <2>2. QED BY <2>1 DEF LocalInv
<1>4. CASE LedgerAlone
  <2>1. Next /\ inv' = inv /\ inflight' = inflight
    BY <1>4 DEF LedgerAlone, Next
  <2>2. QED BY <2>1 DEF LocalInv
<1>5. CASE UNCHANGED gvars
  BY <1>5 DEF gvars, vars, LocalInv
<1>6. QED BY <1>1, <1>2, <1>3, <1>4, <1>5 DEF GNext, InvocationStep

\* Initially no invocation knows anything and no call is in flight.
LEMMA GatewayInit == GInit => TypeOK /\ LocalInv
<1> SUFFICES ASSUME GInit PROVE TypeOK /\ LocalInv
  OBVIOUS
<1> DEFINE x == [pc |-> "reserve", run |-> Null, bill |-> Null, report |-> Null, served |-> FALSE]
<1>1. x \in Invocation /\ x.pc = "reserve"
  BY DEF Invocation, Pc
<1>2. Knows(x)
  BY <1>1 DEF Knows
<1>3. inv = [i \in Caller |-> x] /\ inflight = {} /\ Init
  BY DEF GInit
<1> HIDE DEF x
<1>4. QED BY <1>1, <1>2, <1>3, TypeInit DEF LocalInv

\* The ledger, the invocations and the calls in flight keep their types.
THEOREM GatewayTypeCorrect == GSpec => []GTypeOK
<1>1. TypeOK /\ LocalInv /\ [GNext]_gvars => TypeOK' /\ LocalInv'
  BY GatewaySteps, TypeStep
<1>2. TypeOK /\ LocalInv => GTypeOK
  BY DEF LocalInv, GTypeOK
<1>3. QED BY <1>1, <1>2, GatewayInit, PTL DEF GSpec

\* The stored ledger changes only by the ledger's operations, so that what was proved of
\* them holds under the gateway.
LEMMA GatewayDrivesLedger == GSpec => Spec
<1>1. TypeOK /\ LocalInv /\ [GNext]_gvars => [Next]_vars /\ TypeOK' /\ LocalInv'
  BY GatewaySteps, TypeStep
<1>2. GInit => Init
  BY DEF GInit
<1>3. QED BY <1>1, <1>2, GatewayInit, PTL DEF GSpec, Spec

\* Under the gateway the hard budget holds.
THEOREM GatewayHardBudget == GSpec => []SpendWithinCaps
BY GatewayDrivesLedger, HardBudgetTheorem, PTL

-----------------------------------------------------------------------------
(* What an invocation may rely on.  The ledger knows reservations by key;  *)
(* a provider call is tied to its reservation by the run the invocation    *)
(* was given, which no other reservation ever carries again.               *)

\* Charged in full because the usage was not known.
Uncertain(r) == r.finalize_error = "provider_usage_uncertain" /\ r.actual = r.amounts

\* The invocation calls the provider or has called it.
Calling(x) == x.pc = "provider" \/ x.bill # Null

\* The ledger s as invocation i, in local state x, may rely on it: its run exists; a
\* reservation that carries it is its own; once the provider may be called the run is
\* started and stays open or settled, and it is settled at the maximum or at the bill;
\* an answer was served only for the exact bill.
Relies(s, x, i) ==
    LET r == s.reservations[KeyOf[i]] IN
    /\ x.run # Null => s.leases[x.run] # Null
    /\ x.run # Null /\ r # Null /\ r.lease_id = x.run => r.owner = i
    /\ Calling(x) => /\ x.run # Null /\ r # Null /\ r.lease_id = x.run /\ r.started
                     /\ r.status \in {"reserved", "reconciled"}
    /\ Calling(x) /\ r.status = "reconciled" =>
           Uncertain(r) \/ (x.bill # Null /\ r.actual = x.bill)
    /\ x.served => /\ x.bill # Null /\ r.status = "reconciled"
                   /\ r.actual = x.bill /\ r.finalize_error = Null

\* Local facts: the bill is known from the call on, evidence is of that bill.
Billed(x) ==
    /\ x.pc \in {"reserve", "reserve_retry", "cancel", "cancel_retry", "mark", "mark_retry",
                 "provider"} => x.bill = Null
    /\ x.pc \in {"finalize", "finalize_settle", "settle"} => x.bill # Null
    /\ x.pc \in {"mark", "mark_retry", "provider"} => x.run # Null
    /\ x.pc = "finalize" => x.report # Null
    /\ x.report # Null => x.bill # Null /\ x.report.usage = x.bill
    /\ x.served => x.bill # Null

\* Only the bill of its own call is reported for an invocation.
Reported(m, f) == m.op = "finalize" => f[m.inv].bill # Null /\ m.report.usage = f[m.inv].bill

\* Every reservation the gateway makes has an owner.
Owned(s) == \A k \in Key : s.reservations[k] # Null => s.reservations[k].owner \in Owner

CallInv ==
    /\ Owned(ledger)
    /\ \A i \in Caller : Billed(inv[i]) /\ Relies(ledger, inv[i], i)
    /\ \A m \in inflight : Reported(m, inv)

-----------------------------------------------------------------------------
(* How a ledger step changes a reservation.  f gives the local states of   *)
(* the invocations: a run is settled exactly only at the bill of its owner, *)
(* unless it was never started.                                             *)

Evolves(s, r, x, f) ==
    \/ x = r
    \/ /\ r # Null /\ x # Null /\ SameRun(r, x)
       /\ \/ /\ r.status = "reconciled" /\ x.status = "reconciled"
             /\ x.actual = r.actual /\ x.finalize_error = r.finalize_error
          \/ /\ r.status = "reserved" /\ x.status = "reconciled"
             /\ \/ Uncertain(x)
                \/ f[r.owner].bill # Null /\ x.actual = f[r.owner].bill
          \/ r.status = "reserved" /\ x.status \in {"released", "reconciled"} /\ ~x.started
    \/ /\ r # Null /\ x # Null /\ r.status = "reserved" /\ x.status = "reserved"
       /\ x.lease_id = r.lease_id /\ x.owner = r.owner
       /\ ~r.started /\ x.started
    \/ /\ r = Null \/ r.status = "released"
       /\ x # Null /\ x.status = "reserved" /\ x.owner \in Owner
       /\ x.lease_id \in LeaseId /\ s.leases[x.lease_id] = Null

Frame(s, q, f) ==
    /\ \A k \in Key : Evolves(s, s.reservations[k], q.reservations[k], f)
    /\ \A l \in LeaseId : s.leases[l] # Null => q.leases[l] # Null

\* Such a step keeps what every invocation relies on: a run that may have been called
\* is neither given back nor replaced, and it is settled at the maximum or at its bill.
LEMMA FrameRelies ==
    ASSUME NEW s, NEW q, NEW f, Frame(s, q, f), NEW i \in Caller,
           f[i].run \in LeaseId \cup {Null}, Relies(s, f[i], i)
    PROVE  Relies(q, f[i], i)
<1> DEFINE x == f[i]
           r == s.reservations[KeyOf[i]]
           y == q.reservations[KeyOf[i]]
<1>1. KeyOf[i] \in Key
  BY InvocationAssumption
<1>2. Evolves(s, r, y, f)
  BY <1>1 DEF Frame
<1>3. /\ x.run # Null => s.leases[x.run] # Null
      /\ x.run # Null /\ r # Null /\ r.lease_id = x.run => r.owner = i
      /\ Calling(x) => /\ x.run # Null /\ r # Null /\ r.lease_id = x.run /\ r.started
                       /\ r.status \in {"reserved", "reconciled"}
      /\ Calling(x) /\ r.status = "reconciled" =>
             Uncertain(r) \/ (x.bill # Null /\ r.actual = x.bill)
      /\ x.served => /\ x.bill # Null /\ r.status = "reconciled"
                     /\ r.actual = x.bill /\ r.finalize_error = Null
  BY DEF Relies
<1>4. x.run # Null => q.leases[x.run] # Null
  BY <1>3 DEF Frame
<1>5. x.run # Null /\ r # Null /\ r.lease_id = x.run => f[r.owner] = x
  BY <1>3
<1> HIDE DEF x, r, y
<1>6. x.run # Null /\ y # Null /\ y.lease_id = x.run => y.owner = i
  BY <1>2, <1>3 DEF Evolves, SameRun
<1>7. ASSUME Calling(x)
      PROVE  /\ x.run # Null /\ y # Null /\ y.lease_id = x.run /\ y.started
             /\ y.status \in {"reserved", "reconciled"}
             /\ y.status = "reconciled" => Uncertain(y) \/ (x.bill # Null /\ y.actual = x.bill)
  <2>1. /\ x.run # Null /\ r # Null /\ r.lease_id = x.run /\ r.started
        /\ r.status \in {"reserved", "reconciled"} /\ f[r.owner] = x
    BY <1>3, <1>5, <1>7
  <2>2. CASE y = r
    BY <1>3, <1>7, <2>1, <2>2
  <2>3. CASE /\ r # Null /\ y # Null /\ SameRun(r, y)
             /\ r.status = "reconciled" /\ y.status = "reconciled"
             /\ y.actual = r.actual /\ y.finalize_error = r.finalize_error
    BY <1>3, <1>7, <2>1, <2>3 DEF SameRun, Uncertain
  <2>4. CASE /\ r # Null /\ y # Null /\ SameRun(r, y)
             /\ r.status = "reserved" /\ y.status = "reconciled"
             /\ \/ Uncertain(y)
                \/ f[r.owner].bill # Null /\ y.actual = f[r.owner].bill
    BY <2>1, <2>4 DEF SameRun
  <2>5. QED BY <1>2, <2>1, <2>2, <2>3, <2>4 DEF Evolves, SameRun
<1>8. x.served => /\ x.bill # Null /\ y.status = "reconciled"
                  /\ y.actual = x.bill /\ y.finalize_error = Null
  <2> SUFFICES ASSUME x.served PROVE /\ y.status = "reconciled"
                                     /\ y.actual = x.bill /\ y.finalize_error = Null
    BY <1>3
  <2>1. /\ x.bill # Null /\ r.status = "reconciled" /\ r # Null
        /\ r.actual = x.bill /\ r.finalize_error = Null
    BY <1>3 DEF Calling
  <2>2. QED BY <1>2, <2>1 DEF Evolves
<1>9. QED BY <1>4, <1>6, <1>7, <1>8 DEF Relies, x, y

\* Owners stay owners.
LEMMA FrameOwned ==
    ASSUME NEW s, NEW q, NEW f, Frame(s, q, f), Owned(s)
    PROVE  Owned(q)
BY DEF Frame, Evolves, SameRun, Owned

-----------------------------------------------------------------------------
(* The operations of the ledger as such steps *)

\* A ledger in which nothing changed but for one reservation, and leases were closed.
LEMMA OneEvolves ==
    ASSUME NEW s \in LedgerState, NEW q \in LedgerState, NEW f, NEW k \in Key, NEW L, NEW t \in Nat,
           NEW x, q.reservations = [s.reservations EXCEPT ![k] = x],
           Evolves(s, s.reservations[k], x, f),
           q.leases = CloseLeases(s.leases, L, t) \/ q.leases = s.leases
    PROVE  Frame(s, q, f)
<1>1. s.reservations \in [Key -> Reservation \cup {Null}]
  BY DEF LedgerState
<1>2. q.reservations[k] = x /\ \A j \in Key : j # k => q.reservations[j] = s.reservations[j]
  BY <1>1
<1>3. \A j \in Key : Evolves(s, s.reservations[j], q.reservations[j], f)
  BY <1>2 DEF Evolves
<1>4. \A l \in LeaseId : s.leases[l] # Null => q.leases[l] # Null
  <2>1. CASE q.leases = s.leases
    BY <2>1
  <2>2. CASE q.leases = CloseLeases(s.leases, L, t)
    <3>1. SameKeys(s, q)
      BY <2>2, CloseLeasesKeys
    <3>2. QED BY <3>1 DEF SameKeys
  <2>3. QED BY <2>1, <2>2
<1>5. QED BY <1>3, <1>4 DEF Frame

\* A ledger with the same reservations and leases.
LEMMA SameFrame ==
    ASSUME NEW s, NEW q, NEW f, q.reservations = s.reservations, q.leases = s.leases
    PROVE  Frame(s, q, f)
BY DEF Frame, Evolves

\* What charging at the maximum and giving back make of an open reservation.
LEMMA ChargedEvolves ==
    ASSUME NEW s, NEW f, NEW r \in Reservation, r.status = "reserved"
    PROVE  /\ Evolves(s, r, ChargedAtMaximum(r), f)
           /\ ~r.started => Evolves(s, r, [r EXCEPT !.status = "released"], f)
<1>1. ChargedAtMaximum(r) \in Reservation
  BY ChargedType
<1>2. r # Null /\ ChargedAtMaximum(r) # Null
  BY <1>1, NullIsNoRecord
<1>3. /\ SameRun(r, ChargedAtMaximum(r)) /\ ChargedAtMaximum(r).status = "reconciled"
      /\ Uncertain(ChargedAtMaximum(r))
  BY DEF ChargedAtMaximum, Reservation, SameRun, Uncertain
<1>4. Evolves(s, r, ChargedAtMaximum(r), f)
  BY <1>2, <1>3 DEF Evolves
<1>5. ASSUME ~r.started PROVE Evolves(s, r, [r EXCEPT !.status = "released"], f)
  <2> DEFINE x == [r EXCEPT !.status = "released"]
  <2>1. x \in Reservation /\ SameRun(r, x) /\ x.status = "released" /\ ~x.started
    BY <1>5 DEF Reservation, SameRun
  <2>2. x # Null
    BY <2>1, NullIsNoRecord
  <2> HIDE DEF x
  <2>3. Evolves(s, r, x, f)
    BY <1>2, <2>1, <2>2 DEF Evolves
  <2>4. QED BY <2>3 DEF x
<1>6. QED BY <1>4, <1>5

\* recoverExpired charges the started and gives back the others.
LEMMA RecoverFrame ==
    ASSUME NEW s \in LedgerState, NEW t \in Nat, NEW f
    PROVE  Frame(s, recoverExpired(s, t), f)
<1> DEFINE K == ExpiredKeys(s, t)
           charged == {k \in K : s.reservations[k].started}
           q == recoverExpired(s, t)
<1>0. q \in LedgerState
  BY RecoverType
<1>1. \A k \in K : k \in Key /\ HasStatus(s, k, "reserved")
  BY DEF ExpiredKeys
<1>2. q.reservations =
        [k \in Key |-> IF k \in charged THEN ChargedAtMaximum(s.reservations[k])
                       ELSE IF k \in K THEN [s.reservations[k] EXCEPT !.status = "released"]
                       ELSE s.reservations[k]]
  BY DEF recoverExpired, LedgerState
<1>3. q.leases = CloseLeases(s.leases, ExpiredLeases(s, t), t)
  BY DEF recoverExpired, LedgerState
<1>4. ASSUME NEW k \in Key PROVE Evolves(s, s.reservations[k], q.reservations[k], f)
  <2>1. CASE k \in K
    <3>1. s.reservations[k] \in Reservation /\ s.reservations[k].status = "reserved"
      BY <1>1, <2>1 DEF HasStatus, LedgerState
    <3>2. CASE k \in charged
      <4>1. q.reservations[k] = ChargedAtMaximum(s.reservations[k])
        BY <1>2, <3>2
      <4>2. QED BY <3>1, <4>1, ChargedEvolves
    <3>3. CASE k \notin charged
      <4>1. q.reservations[k] = [s.reservations[k] EXCEPT !.status = "released"]
        BY <1>2, <2>1, <3>3
      <4>2. ~s.reservations[k].started
        BY <2>1, <3>3
      <4>3. QED BY <3>1, <4>1, <4>2, ChargedEvolves
    <3>4. QED BY <3>2, <3>3
  <2>2. CASE k \notin K
    <3>1. q.reservations[k] = s.reservations[k]
      BY <1>2, <2>2
    <3>2. QED BY <3>1 DEF Evolves
  <2>3. QED BY <2>1, <2>2
<1> HIDE DEF q
<1>5. \A l \in LeaseId : s.leases[l] # Null => q.leases[l] # Null
  BY <1>0, <1>3, CloseLeasesKeys DEF SameKeys
<1>6. QED BY <1>4, <1>5 DEF Frame, q

\* reserveBudget under a fresh lease.
LEMMA ReserveFrame ==
    ASSUME NEW s \in LedgerState, NEW t \in Nat, NEW f, NEW k \in Key, NEW d \in Digest,
           NEW o \in Owner, NEW a \in ReserveAmounts, NEW l \in LeaseId,
           ReserveVerdict(s, k, d, o, a) = "fresh" => s.leases[l] = Null
    PROVE  Frame(s, reserveBudget(s, k, d, o, a, l, t), f)
<1> DEFINE q == reserveBudget(s, k, d, o, a, l, t)
<1>1. CASE ReserveVerdict(s, k, d, o, a) = "fresh"
  <2>1. s.reservations[k] # Null =>
          s.reservations[k].status \in {"reserved", "reconciled", "released"}
    BY DEF LedgerState, Reservation
  <2>2. s.reservations[k] = Null \/ s.reservations[k].status = "released"
    BY <1>1, <2>1 DEF ReserveVerdict, HasStatus
  <2>3. q = AdmitReservation(ensureCreated(s), k, d, o, a, l, t)
    BY <1>1 DEF reserveBudget
  <2> HIDE DEF q
  <2>4. /\ q.reservations[k] # Null /\ q.reservations[k].status = "reserved"
        /\ q.reservations[k].lease_id = l /\ q.reservations[k].owner = o
        /\ \A j \in Key : j # k => q.reservations[j] = s.reservations[j]
        /\ q.leases[l] # Null
        /\ \A m \in LeaseId : m # l => q.leases[m] = s.leases[m]
    BY <2>3, AdmitWrites
  <2>5. Evolves(s, s.reservations[k], q.reservations[k], f)
    BY <1>1, <2>2, <2>4 DEF Evolves
  <2>6. \A j \in Key : Evolves(s, s.reservations[j], q.reservations[j], f)
    BY <2>4, <2>5 DEF Evolves
  <2>7. QED BY <2>4, <2>6 DEF Frame, q
<1>2. CASE ReserveVerdict(s, k, d, o, a) # "fresh"
  <2>1. q = ensureCreated(s)
    BY <1>2 DEF reserveBudget
  <2>2. q.reservations = s.reservations /\ q.leases = s.leases
    BY <2>1 DEF ensureCreated, LedgerState
  <2>3. QED BY <2>2, SameFrame
<1>3. QED BY <1>1, <1>2

\* markProviderStarted.
LEMMA MarkFrame ==
    ASSUME NEW s \in LedgerState, NEW f, NEW k \in Key, NEW d, NEW o, NEW l, NEW seen
    PROVE  Frame(s, markProviderStarted(s, k, d, o, l, seen), f)
<1> DEFINE q == markProviderStarted(s, k, d, o, l, seen)
<1>1. CASE MarkVerdict(s, k, d, o, l, seen) = "started"
  <2> HIDE DEF q
  <2>1. /\ HasStatus(s, k, "reserved") /\ HasStatus(q, k, "reserved")
        /\ ~s.reservations[k].started /\ q.reservations[k].started
        /\ q.reservations[k].lease_id = s.reservations[k].lease_id
        /\ q.reservations[k].owner = s.reservations[k].owner
        /\ \A j \in Key : j # k => q.reservations[j] = s.reservations[j]
        /\ q.leases = s.leases
    BY <1>1, MarkWrites DEF q
  <2>2. Evolves(s, s.reservations[k], q.reservations[k], f)
    BY <2>1 DEF Evolves, HasStatus
  <2>3. \A j \in Key : Evolves(s, s.reservations[j], q.reservations[j], f)
    BY <2>1, <2>2 DEF Evolves
  <2>4. QED BY <2>1, <2>3 DEF Frame, q
<1>2. CASE MarkVerdict(s, k, d, o, l, seen) # "started"
  BY <1>2, SameFrame DEF markProviderStarted
<1>3. QED BY <1>1, <1>2

\* What an exact settlement writes.
LEMMA ExactlyWrites ==
    ASSUME NEW r \in Reservation, NEW actual \in Amounts, NEW costKnown \in BOOLEAN,
           NEW hasResult \in BOOLEAN, NEW y, y = ExactlySettled(r, actual, costKnown, hasResult)
    PROVE  /\ SameRun(r, y) /\ y.status = "reconciled" /\ y.actual = actual
           /\ y.finalize_error = IF exceedsReserved(r.amounts, actual)
                                 THEN "actual_exceeds_reserved" ELSE Null
<1> DEFINE st == [usage_source |-> IF costKnown THEN "provider"
                                   ELSE "provider_tokens_estimated_cost",
                  actual_cost_known |-> costKnown]
           fe == IF exceedsReserved(r.amounts, actual) THEN "actual_exceeds_reserved" ELSE Null
<1>1. y = [r EXCEPT !.status = "reconciled", !.actual = actual, !.settlement = st,
                    !.finalize_error = fe, !.cached = hasResult, !.consumed = TRUE,
                    !.secret = FALSE]
  BY DEF ExactlySettled
<1> HIDE DEF st, fe
<1>2. SameRun(r, y) /\ y.status = "reconciled" /\ y.actual = actual /\ y.finalize_error = fe
  BY <1>1 DEF Reservation, SameRun
<1>3. QED BY <1>2 DEF fe

\* settleUncertainBudget, and finalizeBudget with the bill of the owner.
LEMMA SettleFrame ==
    ASSUME NEW s \in LedgerState, NEW t \in Nat, NEW f, NEW k \in Key, NEW d, NEW o \in Owner,
           NEW l, Owned(s)
    PROVE  /\ Frame(s, settleUncertainBudget(s, k, d, o, l, t), f)
           /\ \A report \in Report : f[o].bill # Null /\ report.usage = f[o].bill =>
                 Frame(s, finalizeBudget(s, k, d, o, l, report, t), f)
<1> DEFINE v == SettleVerdict(s, k, d, o, l)
           r == s.reservations[k]
<1>1. CASE v = "settle"
  <2>1. r # Null /\ r.status = "reserved" /\ ~OwnerRefused(r, o, d)
    BY <1>1, SettleChecks DEF SettleVerdict, HasStatus
  <2>2. r \in Reservation /\ r.owner \in Owner
    BY <2>1 DEF LedgerState, Owned
  <2>3. r.owner = o
    BY <2>1, <2>2, NullAssumption DEF OwnerRefused, OwnerMatches
  <2>4. Frame(s, chargeUncertainReservation(s, k, t), f)
    <3> DEFINE q == chargeUncertainReservation(s, k, t)
    <3>1. q \in LedgerState
      BY <2>1, ChargeType
    <3>2. /\ q.reservations = [s.reservations EXCEPT ![k] = ChargedAtMaximum(r)]
          /\ q.leases = CloseLeases(s.leases, {r.lease_id}, t)
      BY DEF chargeUncertainReservation, LedgerState
    <3>3. Evolves(s, r, ChargedAtMaximum(r), f)
      BY <2>1, <2>2, ChargedEvolves
    <3> HIDE DEF q
    <3>4. Frame(s, q, f)
      BY <3>1, <3>2, <3>3, OneEvolves
    <3>5. QED BY <3>4 DEF q
  <2>5. settleUncertainBudget(s, k, d, o, l, t) = chargeUncertainReservation(s, k, t)
    BY <1>1 DEF settleUncertainBudget
  <2>6. ASSUME NEW report \in Report, f[o].bill # Null, report.usage = f[o].bill
        PROVE  Frame(s, finalizeBudget(s, k, d, o, l, report, t), f)
    <3>1. CASE report.result = "rejected"
      <4>1. finalizeBudget(s, k, d, o, l, report, t) = s
        BY <1>1, <2>6, <3>1 DEF finalizeBudget
      <4>2. QED BY <4>1, SameFrame
    <3>2. CASE report.result # "rejected"
      <4> DEFINE q == ReconcileExactly(s, k, report.usage, report.costKnown,
                                       report.result = "canonical", t)
                 y == ExactlySettled(r, report.usage, report.costKnown,
                                     report.result = "canonical")
      <4>1. finalizeBudget(s, k, d, o, l, report, t) = q
        BY <1>1, <2>6, <3>2 DEF finalizeBudget
      <4>2. report.usage \in Amounts /\ report.costKnown \in BOOLEAN
        BY <2>6, CounterAssumption DEF Report, Amounts
      <4>3. (report.result = "canonical") \in BOOLEAN
        OBVIOUS
      <4>4. q \in LedgerState
        BY <2>1, <4>2, <4>3, ReconcileType
      <4>5. y \in Reservation
        BY <2>2, <4>2, <4>3, ExactlyType
      <4>6. y # Null /\ SameRun(r, y) /\ y.status = "reconciled" /\ y.actual = report.usage
        <5> DEFINE h == report.result = "canonical"
        <5>1. h \in BOOLEAN /\ y = ExactlySettled(r, report.usage, report.costKnown, h)
          BY <4>3
        <5> HIDE DEF y, h
        <5>2. QED BY <2>2, <4>2, <4>5, <5>1, ExactlyWrites, NullIsNoRecord
      <4>7. /\ q.reservations = [s.reservations EXCEPT ![k] = y]
            /\ q.leases = CloseLeases(s.leases, {r.lease_id}, t)
        BY DEF ReconcileExactly, LedgerState
      <4> HIDE DEF q, y
      <4>8. Evolves(s, r, y, f)
        BY <2>1, <2>3, <2>6, <4>6 DEF Evolves
      <4>9. Frame(s, q, f)
        BY <4>4, <4>7, <4>8, OneEvolves
      <4>10. QED BY <4>1, <4>9
    <3>3. QED BY <3>1, <3>2
  <2>7. QED BY <2>4, <2>5, <2>6
<1>2. CASE v = "replay"
  <2> DEFINE q == [s EXCEPT !.reservations[k].secret = FALSE]
             y == [r EXCEPT !.secret = FALSE]
  <2>1. /\ settleUncertainBudget(s, k, d, o, l, t) = q
        /\ \A report : finalizeBudget(s, k, d, o, l, report, t) = q
    BY <1>2 DEF settleUncertainBudget, finalizeBudget
  <2>2. r # Null /\ r.status = "reconciled"
    BY <1>2, SettleChecks DEF HasStatus
  <2>3. r \in Reservation
    BY <2>2 DEF LedgerState
  <2>4. /\ y \in Reservation /\ SameRun(r, y) /\ y.status = "reconciled"
        /\ y.actual = r.actual /\ y.finalize_error = r.finalize_error
    BY <2>2, <2>3 DEF Reservation, SameRun
  <2>5. y # Null
    BY <2>4, NullIsNoRecord
  <2>6. q \in LedgerState /\ q.reservations = [s.reservations EXCEPT ![k] = y] /\ q.leases = s.leases
    <3>1. q \in LedgerState
      BY <2>2, WritesType
    <3>2. QED BY <3>1 DEF LedgerState
  <2> HIDE DEF q, y
  <2>7. Evolves(s, r, y, f)
    BY <2>2, <2>4, <2>5 DEF Evolves
  <2>8. Frame(s, q, f)
    BY <2>6, <2>7, OneEvolves
  <2>9. QED BY <2>1, <2>8
<1>3. CASE v # "settle" /\ v # "replay"
  <2>1. /\ settleUncertainBudget(s, k, d, o, l, t) = s
        /\ \A report : finalizeBudget(s, k, d, o, l, report, t) = s
    BY <1>3 DEF settleUncertainBudget, finalizeBudget
  <2>2. QED BY <2>1, SameFrame
<1>4. QED BY <1>1, <1>2, <1>3

\* cancelPreProviderReservation.
LEMMA CancelFrame ==
    ASSUME NEW s \in LedgerState, NEW t \in Nat, NEW f, NEW k \in Key, NEW d \in Digest, NEW o \in Owner
    PROVE  Frame(s, cancelPreProviderReservation(s, k, d, o, t), f)
<1> DEFINE v == CancelVerdict(s, k, d, o, t)
           p == WithTombstone(s, o, k, d, t)
           q == cancelPreProviderReservation(s, k, d, o, t)
<1>0. p \in LedgerState /\ p.reservations = s.reservations /\ p.leases = s.leases
  BY TombstoneFrame
<1>1. CASE v = "cancelled"
  <2> DEFINE r == s.reservations[k]
             y == [r EXCEPT !.status = "released"]
  <2>1. r # Null /\ r.status = "reserved" /\ ~r.started
    BY <1>1 DEF CancelVerdict, HasStatus
  <2>2. r \in Reservation
    BY <2>1 DEF LedgerState
  <2>3. q = ReleaseReservation(p, k, t)
    BY <1>1 DEF cancelPreProviderReservation
  <2> HIDE DEF p, q
  <2>4. q \in LedgerState
    BY <1>0, <2>1, <2>3, ReleaseType
  <2>5. q.reservations = [s.reservations EXCEPT ![k] = y] /\ q.leases = CloseLeases(s.leases, {r.lease_id}, t)
    BY <1>0, <2>3 DEF ReleaseReservation, LedgerState
  <2>6. Evolves(s, r, y, f)
    BY <2>1, <2>2, ChargedEvolves
  <2> HIDE DEF y
  <2>7. Frame(s, q, f)
    BY <2>4, <2>5, <2>6, OneEvolves
  <2>8. QED BY <2>7 DEF q
<1>2. CASE v # "cancelled"
  <2>1. q \in {s, p, persistOwnerCancellationQuarantine(s, t)}
    BY <1>2 DEF cancelPreProviderReservation
  <2>2. /\ persistOwnerCancellationQuarantine(s, t).reservations = s.reservations
        /\ persistOwnerCancellationQuarantine(s, t).leases = s.leases
    BY DEF persistOwnerCancellationQuarantine, LedgerState
  <2> HIDE DEF p, q
  <2>3. q.reservations = s.reservations /\ q.leases = s.leases
    BY <1>0, <2>1, <2>2
  <2>4. Frame(s, q, f)
    BY <2>3, SameFrame
  <2>5. QED BY <2>4 DEF q
<1>3. QED BY <1>1, <1>2

\* finalizeOwnedPaperReservation settles a run that was never started.
LEMMA FinalizePaperFrame ==
    ASSUME NEW s \in LedgerState, NEW t \in Nat, NEW f, NEW k \in Key, NEW d, NEW o, NEW l
    PROVE  Frame(s, finalizeOwnedPaperReservation(s, k, d, o, l, t), f)
<1> DEFINE r == s.reservations[k]
           q == SettlePaper(s, k, t)
           y == PaperSettled(r)
<1>1. CASE PaperVerdict(s, k, d, o, l) = "settle"
  <2>1. r # Null /\ r.status \notin {"reconciled", "released"} /\ ~r.started
    BY <1>1 DEF PaperVerdict
  <2>2. r \in Reservation
    BY <2>1 DEF LedgerState
  <2>3. r.status = "reserved"
    BY <2>1, <2>2 DEF Reservation
  <2>4. q \in LedgerState
    BY <2>1, SettlePaperType
  <2>5. /\ q.reservations = [s.reservations EXCEPT ![k] = y]
        /\ q.leases = CloseLeases(s.leases, {r.lease_id}, t)
    BY DEF SettlePaper, LedgerState
  <2>6. y # Null /\ SameRun(r, y) /\ y.status = "reconciled" /\ ~y.started
    <3> DEFINE st == [usage_source |-> "legacy_unattributed", actual_cost_known |-> TRUE]
    <3>1. y = [r EXCEPT !.status = "reconciled", !.actual = PaperUsage(r), !.settlement = st,
                        !.finalize_error = Null]
      BY DEF PaperSettled
    <3> HIDE DEF st, y
    <3>2. SameRun(r, y) /\ y.status = "reconciled" /\ ~y.started
      BY <2>1, <2>2, <3>1 DEF Reservation, SameRun
    <3>3. y # Null
      <4>1. r.amounts \in Amounts
        BY <2>2 DEF Reservation
      <4>2. PaperUsage(r) \in Amounts
        BY <4>1 DEF Amounts, PaperUsage
      <4>3. y \in Reservation
        BY <2>2, <4>2 DEF y, PaperSettled, Reservation, Settlement
      <4>4. QED BY <4>3, NullIsNoRecord
    <3>4. QED BY <3>2, <3>3
  <2> HIDE DEF q, y
  <2>7. Evolves(s, r, y, f)
    BY <2>1, <2>3, <2>6 DEF Evolves
  <2>8. Frame(s, q, f)
    BY <2>4, <2>5, <2>7, OneEvolves
  <2>9. QED BY <1>1, <2>8 DEF finalizeOwnedPaperReservation, q
<1>2. CASE PaperVerdict(s, k, d, o, l) # "settle"
  BY <1>2, SameFrame DEF finalizeOwnedPaperReservation
<1>3. QED BY <1>1, <1>2

\* heartbeatLease moves the expiry of an open lease.
LEMMA HeartbeatFrame ==
    ASSUME NEW s \in LedgerState, NEW t \in Nat, NEW f, NEW l \in LeaseId
    PROVE  Frame(s, heartbeatLease(s, l, t), f)
<1> DEFINE q == heartbeatLease(s, l, t)
<1>1. CASE IsActive(s, l)
  <2> DEFINE e == [s.leases[l] EXCEPT !.expires_at = t + TTL]
  <2>1. s.leases[l] \in Lease /\ s.leases \in [LeaseId -> Lease \cup {Null}]
    BY <1>1 DEF IsActive, LedgerState
  <2>2. e \in Lease
    BY <2>1, BoundAssumption DEF Lease
  <2>3. q.leases = [s.leases EXCEPT ![l] = e] /\ q.reservations = s.reservations
    BY <1>1 DEF heartbeatLease, LedgerState
  <2> HIDE DEF e, q
  <2>4. \A m \in LeaseId : s.leases[m] # Null => q.leases[m] # Null
    BY <2>1, <2>2, <2>3, NullIsNoRecord
  <2>5. Frame(s, q, f)
    BY <2>3, <2>4 DEF Frame, Evolves
  <2>6. QED BY <2>5 DEF q
<1>2. CASE ~IsActive(s, l)
  BY <1>2, SameFrame DEF heartbeatLease
<1>3. QED BY <1>1, <1>2

-----------------------------------------------------------------------------
(* The gateway's steps *)

\* Opening recovers, and what the invocations rely on survives it.
LEMMA OpenedFrame ==
    ASSUME TypeOK, NEW f
    PROVE  now \in Nat /\ Opened \in LedgerState /\ Frame(ledger, Opened, f)
<1>1. ledger \in LedgerState /\ now \in Nat
  BY BoundAssumption DEF TypeOK
<1>2. QED BY <1>1, RecoverType, RecoverFrame DEF Opened

\* A call reports only the bill of the invocation that sent it.
Truthful(i, op, report) ==
    op = "finalize" => report \in Report /\ inv[i].bill # Null /\ report.usage = inv[i].bill

\* The ledger after its opening recovery at time t.
LEMMA RecoveredFrame ==
    ASSUME TypeOK, Owned(ledger), NEW t \in Nat
    PROVE  /\ recoverExpired(ledger, t) \in LedgerState
           /\ Owned(recoverExpired(ledger, t))
           /\ \A l \in LeaseId : ledger.leases[l] = Null => recoverExpired(ledger, t).leases[l] = Null
<1> DEFINE s == recoverExpired(ledger, t)
<1>1. ledger \in LedgerState
  BY DEF TypeOK
<1>2. s \in LedgerState /\ Frame(ledger, s, inv)
  BY <1>1, RecoverType, RecoverFrame
<1>3. s.leases = CloseLeases(ledger.leases, ExpiredLeases(ledger, t), t)
  BY <1>1 DEF recoverExpired, LedgerState
<1> HIDE DEF s
<1>4. SameKeys(ledger, s)
  BY <1>1, <1>2, <1>3, CloseLeasesKeys
<1>5. Owned(s) /\ \A l \in LeaseId : ledger.leases[l] = Null => s.leases[l] = Null
  BY <1>2, <1>4, FrameOwned DEF SameKeys
<1>6. QED BY <1>2, <1>5 DEF s

\* A step of the ledger that recovers at some time and then changes reservations this way.
Framed == \E t \in Nat : Frame(recoverExpired(ledger, t), ledger', inv)

\* So does a call that runs in the ledger.
LEMMA ExecutesFrame ==
    ASSUME TypeOK, Owned(ledger), NEW i \in Caller, NEW op, NEW run, NEW report, NEW sent,
           Truthful(i, op, report), Executes(i, op, run, report, sent)
    PROVE  Framed
<1> DEFINE k == KeyOf[i]
           d == DigestOf[i]
           s == Opened
<1>1. k \in Key /\ d \in Digest /\ AmountsOf[d] \in ReserveAmounts /\ i \in Owner
  BY InvocationAssumption DEF Caller
<1>2. now \in Nat /\ s \in LedgerState /\ Owned(s)
  BY OpenedFrame, RecoveredFrame DEF Opened
<1>02. ASSUME Frame(s, ledger', inv) PROVE Framed
  BY <1>2, <1>02 DEF Opened, Framed
<1> HIDE DEF k, d
<1>3. CASE op = "reserve" /\ \E l \in LeaseId : Reserve(k, d, i, AmountsOf[d], l)
  <2>1. PICK l \in LeaseId : Reserve(k, d, i, AmountsOf[d], l)
    BY <1>3
  <2>2. /\ ReserveVerdict(s, k, d, i, AmountsOf[d]) = "fresh" => ledger.leases[l] = Null
        /\ ledger' = reserveBudget(s, k, d, i, AmountsOf[d], l, now)
    BY <2>1 DEF Reserve, Commit
  <2>3. ledger.leases[l] = Null => s.leases[l] = Null
    BY <1>2, RecoveredFrame DEF Opened
  <2> HIDE DEF s
  <2>4. Frame(s, ledger', inv)
    BY <1>1, <1>2, <2>2, <2>3, ReserveFrame
  <2>5. QED BY <1>02, <2>4
<1>4. CASE op = "cancel" /\ \E t \in ClockReadings : sent <= t /\ CancelPreProvider(k, d, i, t)
  <2>1. PICK t \in ClockReadings : CancelPreProvider(k, d, i, t)
    BY <1>4
  <2>2. t \in Nat
    BY <1>2, BoundAssumption DEF ClockReadings
  <2>3. ledger' = cancelPreProviderReservation(recoverExpired(ledger, t), k, d, i, t)
    BY <2>1 DEF CancelPreProvider, Commit
  <2>4. recoverExpired(ledger, t) \in LedgerState
    BY <2>2, RecoveredFrame
  <2>5. QED BY <1>1, <2>2, <2>3, <2>4, CancelFrame DEF Framed
<1>5. CASE op = "mark" /\ \E seen \in LeaseId \cup {Null} : MarkProviderStarted(k, d, i, run, seen)
  <2>1. PICK seen \in LeaseId \cup {Null} : ledger' = markProviderStarted(s, k, d, i, run, seen)
    BY <1>5 DEF MarkProviderStarted, Commit
  <2>2. QED BY <1>1, <1>2, <1>02, <2>1, MarkFrame
<1>6. CASE op = "settle" /\ SettleUncertain(k, d, i, run)
  <2>1. ledger' = settleUncertainBudget(s, k, d, i, run, now)
    BY <1>6 DEF SettleUncertain, Commit
  <2>2. QED BY <1>1, <1>2, <1>02, <2>1, SettleFrame
<1>7. CASE op = "finalize" /\ FinalizeExact(k, d, i, run, report)
  <2>1. ledger' = finalizeBudget(s, k, d, i, run, report, now)
    BY <1>7 DEF FinalizeExact, Commit
  <2>2. report \in Report /\ inv[i].bill # Null /\ report.usage = inv[i].bill
    BY <1>7 DEF Truthful
  <2>3. QED BY <1>1, <1>2, <1>02, <2>1, <2>2, SettleFrame
<1>8. QED BY <1>3, <1>4, <1>5, <1>6, <1>7 DEF Executes, k, d

\* ... and a paper RPC of the Controlled Pilot.
LEMMA PaperFrame ==
    ASSUME TypeOK, Owned(ledger), ControlledPaper
    PROVE  Framed
<1>1. now \in Nat /\ Opened \in LedgerState
  BY OpenedFrame
<1>2. ASSUME Frame(Opened, ledger', inv) PROVE Framed
  BY <1>1, <1>2 DEF Opened, Framed
<1>3. ASSUME NEW k \in Key, NEW d \in Digest, NEW l \in LeaseId,
             Reserve(k, d, PaperOwner, PaperAmounts, l)
      PROVE  Framed
  <2>1. /\ ReserveVerdict(Opened, k, d, PaperOwner, PaperAmounts) = "fresh" => ledger.leases[l] = Null
        /\ ledger' = reserveBudget(Opened, k, d, PaperOwner, PaperAmounts, l, now)
    BY <1>3 DEF Reserve, Commit
  <2>2. ledger.leases[l] = Null => Opened.leases[l] = Null
    BY <1>1, RecoveredFrame DEF Opened
  <2>3. QED BY <1>1, <1>2, <2>1, <2>2, PaperAssumption, ReserveFrame
<1>4. ASSUME NEW k \in Key, NEW d \in Digest, NEW l \in LeaseId,
             FinalizeOwnedPaper(k, d, PaperOwner, l)
      PROVE  Framed
  <2>1. ledger' = finalizeOwnedPaperReservation(Opened, k, d, PaperOwner, l, now)
    BY <1>4 DEF FinalizeOwnedPaper, Commit
  <2>2. QED BY <1>1, <1>2, <2>1, FinalizePaperFrame
<1>5. ASSUME NEW k \in Key, NEW d \in Digest, NEW t \in ClockReadings,
             CancelPreProvider(k, d, PaperOwner, t)
      PROVE  Framed
  <2>1. t \in Nat
    BY <1>1, BoundAssumption DEF ClockReadings
  <2>2. ledger' = cancelPreProviderReservation(recoverExpired(ledger, t), k, d, PaperOwner, t)
    BY <1>5 DEF CancelPreProvider, Commit
  <2>3. recoverExpired(ledger, t) \in LedgerState
    BY <2>1, RecoveredFrame
  <2>4. QED BY <2>1, <2>2, <2>3, PaperAssumption, CancelFrame DEF Framed
<1>6. ASSUME NEW l \in LeaseId, Heartbeat(l) PROVE Framed
  <2>1. ledger' = heartbeatLease(Opened, l, now)
    BY <1>6 DEF Heartbeat, Commit
  <2>2. QED BY <1>1, <1>2, <2>1, HeartbeatFrame
<1>7. QED BY <1>3, <1>4, <1>5, <1>6 DEF ControlledPaper

\* What every invocation may rely on in the ledger s.
AllRely(s) == Owned(s) /\ \A j \in Caller : Relies(s, inv[j], j)

LEMMA FrameAllRely ==
    ASSUME LocalInv, NEW s, NEW q, AllRely(s), Frame(s, q, inv)
    PROVE  AllRely(q)
<1>1. \A j \in Caller : inv[j].run \in LeaseId \cup {Null}
  BY DEF LocalInv, Invocation
<1>2. \A j \in Caller : Relies(s, inv[j], j)
  BY DEF AllRely
<1>3. \A j \in Caller : Relies(q, inv[j], j)
  BY <1>1, <1>2, FrameRelies
<1>4. Owned(q)
  BY FrameOwned DEF AllRely
<1>5. QED BY <1>3, <1>4 DEF AllRely

LEMMA FramedRely ==
    ASSUME TypeOK, LocalInv, AllRely(ledger), Framed
    PROVE  AllRely(ledger')
<1>1. PICK t \in Nat : Frame(recoverExpired(ledger, t), ledger', inv)
  BY DEF Framed
<1>2. ledger \in LedgerState
  BY DEF TypeOK
<1>3. Frame(ledger, recoverExpired(ledger, t), inv)
  BY <1>2, RecoverFrame
<1>4. AllRely(recoverExpired(ledger, t))
  BY <1>3, FrameAllRely
<1>5. QED BY <1>1, <1>4, FrameAllRely

LEMMA ExecutesRely ==
    ASSUME TypeOK, LocalInv, AllRely(ledger), NEW i \in Caller, NEW op, NEW run, NEW report, NEW sent,
           Truthful(i, op, report), Executes(i, op, run, report, sent)
    PROVE  AllRely(ledger')
<1>1. Owned(ledger)
  BY DEF AllRely
<1>2. Framed
  BY <1>1, ExecutesFrame
<1>3. QED BY <1>2, FramedRely

\* One invocation moves to the local state x.
LEMMA CallStep ==
    ASSUME LocalInv, CallInv, AllRely(ledger'), NEW i \in Caller, NEW x,
           inv' = [inv EXCEPT ![i] = x], Billed(x), Relies(ledger', x, i),
           inv[i].bill # Null => x.bill = inv[i].bill,
           \A m \in inflight' : m \in inflight \/ (m \in Rpc /\ Reported(m, inv))
    PROVE  CallInv'
<1>1. inv'[i] = x /\ \A j \in Caller : j # i => inv'[j] = inv[j]
  BY DEF LocalInv
<1>2. \A j \in Caller : Billed(inv'[j]) /\ Relies(ledger', inv'[j], j)
  BY <1>1 DEF CallInv, AllRely
<1>3. ASSUME NEW m \in inflight' PROVE Reported(m, inv')
  <2>1. Reported(m, inv) /\ m.inv \in Caller
    BY DEF CallInv, LocalInv, Rpc
  <2>2. QED BY <1>1, <2>1 DEF Reported
<1>4. QED BY <1>2, <1>3 DEF CallInv, AllRely

\* Where an invocation may go without calling the provider or being answered.
MayGo(x, pc) ==
    \/ pc = "done"
    \/ pc \in {"reserve_retry", "cancel", "cancel_retry"} /\ x.bill = Null
    \/ pc = "mark_retry" /\ x.bill = Null /\ x.run # Null
    \/ pc = "finalize_settle" /\ x.bill # Null

LEMMA GotoCalls ==
    ASSUME LocalInv, CallInv, AllRely(ledger'), NEW i \in Caller, NEW pc, Goto(i, pc),
           MayGo(inv[i], pc),
           \A m \in inflight' : m \in inflight \/ (m \in Rpc /\ Reported(m, inv))
    PROVE  CallInv'
<1> DEFINE x == [inv[i] EXCEPT !.pc = pc]
<1>1. inv[i] \in Invocation /\ Billed(inv[i]) /\ Relies(ledger', inv[i], i)
  BY DEF LocalInv, CallInv, AllRely
<1>2. /\ x.pc = pc /\ x.run = inv[i].run /\ x.bill = inv[i].bill
      /\ x.report = inv[i].report /\ x.served = inv[i].served
  BY <1>1 DEF Invocation
<1>3. inv' = [inv EXCEPT ![i] = x]
  BY DEF Goto, LocalInv
<1> HIDE DEF x
<1>4. Billed(x)
  BY <1>1, <1>2 DEF Billed, MayGo
<1>5. Calling(x) => Calling(inv[i])
  BY <1>2 DEF MayGo, Calling
<1>6. Relies(ledger', x, i)
  BY <1>1, <1>2, <1>5 DEF Relies
<1>7. QED BY <1>2, <1>3, <1>4, <1>6, CallStep

\* A lost call leaves the ledger alone and carries what the invocation knows.
LEMMA LostCalls ==
    ASSUME TypeOK, LocalInv, CallInv, NEW i \in Caller, NEW pc, MayGo(inv[i], pc),
           NEW op \in {"reserve", "cancel", "mark", "settle", "finalize"}, Lost(i, op, pc),
           op = "finalize" => inv[i].report # Null
    PROVE  CallInv'
<1> DEFINE n == [op |-> op, inv |-> i, run |-> inv[i].run, report |-> inv[i].report,
                 sent |-> IF op = "cancel" THEN now ELSE 0]
<1>1. inv[i].run \in LeaseId \cup {Null} /\ inv[i].report \in Report \cup {Null} /\ Billed(inv[i])
  BY DEF LocalInv, Invocation, CallInv
<1>2. n \in Rpc
  BY <1>1, BoundAssumption DEF Rpc, TypeOK
<1>3. Reported(n, inv)
  BY <1>1 DEF Reported, Billed
<1>4. inflight' \subseteq inflight \cup {n} /\ Goto(i, pc) /\ ledger' = ledger
  BY DEF Lost, vars
<1> HIDE DEF n
<1>5. \A m \in inflight' : m \in inflight \/ (m \in Rpc /\ Reported(m, inv))
  BY <1>2, <1>3, <1>4
<1>6. AllRely(ledger')
  BY <1>4 DEF CallInv, AllRely
<1>7. QED BY <1>4, <1>5, <1>6, GotoCalls

\* An answered reservation: the run the handler goes on with is its own.
LEMMA ReserveCalls ==
    ASSUME TypeOK, LocalInv, CallInv, Safe(ledger), NEW i \in Caller, ReserveOwned(i)
    PROVE  CallInv'
<1> DEFINE k == KeyOf[i]
           d == DigestOf[i]
           a == AmountsOf[d]
           s == Opened
<1>1. PICK l \in LeaseId :
        /\ Reserve(k, d, i, a, l)
        /\ inv' = [inv EXCEPT ![i].pc = AfterReserve(i),
                              ![i].run = IF AfterReserve(i) = "mark" THEN ReservedRun(i, l)
                                         ELSE @]
  BY DEF ReserveOwned
<1>2. k \in Key /\ d \in Digest /\ a \in ReserveAmounts /\ i \in Owner
  BY InvocationAssumption DEF Caller
<1>3. /\ inv[i] \in Invocation /\ Billed(inv[i]) /\ inv[i].bill = Null
      /\ AllRely(ledger) /\ inflight' = inflight
  BY DEF LocalInv, CallInv, ReserveOwned, Billed, AllRely
<1>4. Executes(i, "reserve", Null, Null, 0) /\ Truthful(i, "reserve", Null)
  BY <1>1 DEF Executes, Truthful
<1>5. AllRely(ledger')
  BY <1>3, <1>4, ExecutesRely
<1>6. Relies(ledger', inv[i], i)
  BY <1>5 DEF AllRely
<1>7. s \in LedgerState /\ now \in Nat
  BY OpenedFrame
<1>8. CASE AfterReserve(i) # "mark"
  <2>1. Goto(i, AfterReserve(i))
    BY <1>1, <1>8 DEF Goto, LocalInv, Invocation
  <2>2. AfterReserve(i) \in {"cancel", "done"}
    BY <1>8 DEF AfterReserve
  <2>3. QED BY <1>3, <1>5, <2>1, <2>2, GotoCalls DEF MayGo
<1>9. CASE AfterReserve(i) = "mark"
  <2> DEFINE run == ReservedRun(i, l)
             x == [[inv[i] EXCEPT !.pc = "mark"] EXCEPT !.run = run]
             r == ledger'.reservations[k]
  <2>1. inv' = [inv EXCEPT ![i] = x]
    BY <1>1, <1>9 DEF LocalInv, Invocation
  <2>2. run \in LeaseId
    BY <1>9, ReservedRunType
  <2>3. ledger'.leases[run] # Null /\ r.owner = i
    <3>1. CASE ReserveVerdict(s, k, d, i, a) = "fresh"
      <4>1. run = l
        BY <3>1 DEF ReservedRun
      <4>2. ledger' = AdmitReservation(ensureCreated(s), k, d, i, a, l, now)
        BY <1>1, <3>1 DEF Reserve, Commit, reserveBudget
      <4> HIDE DEF run, k, d, a, s
      <4>3. QED BY <1>2, <1>7, <4>1, <4>2, AdmitWrites
    <3>2. CASE ReserveVerdict(s, k, d, i, a) # "fresh"
      <4>1. /\ ReserveVerdict(s, k, d, i, a) = "existing"
            /\ OwnerMatches(s.reservations[k], i, d)
        BY <1>9, <3>2 DEF AfterReserve
      <4>2. s.reservations[k] # Null
        BY <4>1 DEF ReserveVerdict, HasStatus
      <4>3. run = s.reservations[k].lease_id
        BY <3>2 DEF ReservedRun
      <4>4. ledger' = ensureCreated(s)
        BY <1>1, <3>2 DEF Reserve, Commit, reserveBudget
      <4>5. ledger'.leases = s.leases /\ ledger'.reservations = s.reservations
        BY <1>7, <4>4 DEF ensureCreated, LedgerState
      <4>6. Safe(s)
        <5>1. ledger \in LedgerState
          BY DEF TypeOK
        <5>2. QED BY <1>7, <5>1, RecoverCloses, ClosingSafe DEF Safe, Opened
      <4>7. s.leases[s.reservations[k].lease_id] # Null
        BY <1>2, <4>2, <4>6 DEF Safe, Sound, LifecycleOK
      <4>8. s.reservations[k].owner = i
        BY <4>1 DEF OwnerMatches
      <4> HIDE DEF s, k, d, a, run
      <4>9. QED BY <4>3, <4>5, <4>7, <4>8
    <3>3. QED BY <3>1, <3>2
  <2>4. run # Null
    BY <2>2, NullAssumption
  <2> HIDE DEF run, r
  <2>5. /\ x.pc = "mark" /\ x.run = run /\ x.bill = Null
        /\ x.report = inv[i].report /\ x.served = inv[i].served
    BY <1>3 DEF Invocation
  <2> HIDE DEF x
  <2>6. Billed(x) /\ ~x.served
    BY <1>3, <2>4, <2>5 DEF Billed
  <2>7. ~Calling(x)
    BY <2>5 DEF Calling
  <2>8. Relies(ledger', x, i)
    BY <2>3, <2>5, <2>6, <2>7 DEF Relies, r
  <2>9. QED BY <1>3, <1>5, <2>1, <2>6, <2>8, CallStep
<1>10. QED BY <1>8, <1>9

\* The marker: the provider is called only for a run the ledger holds as started.
LEMMA MarkCalls ==
    ASSUME TypeOK, LocalInv, CallInv, NEW i \in Caller, Mark(i)
    PROVE  CallInv'
<1> DEFINE k == KeyOf[i]
           d == DigestOf[i]
           l == inv[i].run
           s == Opened
<1>1. PICK seen \in LeaseId \cup {Null} :
        LET v == MarkVerdict(s, k, d, i, l, seen)
        IN /\ MarkProviderStarted(k, d, i, l, seen)
           /\ Goto(i, IF v = "started" \/ (v = "replay" /\ s.reservations[k].secret)
                      THEN "provider" ELSE AfterMarkFailure(i))
  BY DEF Mark
<1> DEFINE v == MarkVerdict(s, k, d, i, l, seen)
<1>2. k \in Key
  BY InvocationAssumption
<1>3. /\ inv[i] \in Invocation /\ Billed(inv[i]) /\ inv[i].bill = Null /\ l # Null
      /\ AllRely(ledger) /\ inflight' = inflight
  BY DEF LocalInv, CallInv, Mark, Billed, AllRely
<1>4. Executes(i, "mark", l, Null, 0) /\ Truthful(i, "mark", Null)
  BY <1>1 DEF Executes, Truthful
<1>5. AllRely(ledger')
  BY <1>3, <1>4, ExecutesRely
<1>6. Relies(ledger', inv[i], i)
  BY <1>5 DEF AllRely
<1>7. s \in LedgerState /\ now \in Nat
  BY OpenedFrame
<1>8. ledger' = markProviderStarted(s, k, d, i, l, seen)
  BY <1>1 DEF MarkProviderStarted, Commit
<1>9. CASE Goto(i, AfterMarkFailure(i))
  <2>1. MayGo(inv[i], AfterMarkFailure(i))
    BY <1>3 DEF AfterMarkFailure, MayGo
  <2>2. QED BY <1>3, <1>5, <1>9, <2>1, GotoCalls
<1>10. CASE v \in {"started", "replay"} /\ Goto(i, "provider")
  <2> DEFINE r == ledger'.reservations[k]
             x == [inv[i] EXCEPT !.pc = "provider"]
  <2>1. r # Null /\ r.lease_id = l /\ r.started /\ r.status = "reserved"
    <3>1. CASE v = "started"
      <4> HIDE DEF s, k, d, l
      <4>1. QED BY <1>2, <1>7, <1>8, <3>1, MarkWrites DEF HasStatus
    <3>2. CASE v = "replay"
      <4>1. ledger' = s
        BY <1>8, <3>2 DEF markProviderStarted
      <4>2. /\ s.reservations[k] # Null /\ s.reservations[k].status = "reserved"
            /\ s.reservations[k].lease_id = l /\ s.reservations[k].started
        BY <3>2 DEF MarkVerdict
      <4>3. QED BY <4>1, <4>2
    <3>3. QED BY <1>10, <3>1, <3>2
  <2>2. /\ x.pc = "provider" /\ x.run = l /\ x.bill = Null
        /\ x.report = inv[i].report /\ x.served = inv[i].served
    BY <1>3 DEF Invocation
  <2>3. inv' = [inv EXCEPT ![i] = x]
    BY <1>10 DEF Goto, LocalInv
  <2>4. l # Null /\ r.lease_id = l => r.owner = i
    BY <1>6, <2>1 DEF Relies
  <2>5. ledger'.leases[l] # Null
    BY <1>3, <1>6 DEF Relies
  <2> HIDE DEF x, r
  <2>6. Billed(x) /\ ~x.served
    BY <1>3, <2>2 DEF Billed
  <2>7. Relies(ledger', x, i)
    BY <1>3, <2>1, <2>2, <2>4, <2>5, <2>6 DEF Relies, r
  <2>8. QED BY <1>3, <1>5, <2>3, <2>6, <2>7, CallStep
<1>11. QED BY <1>1, <1>9, <1>10

\* The provider call: a run already settled was settled at its maximum.
LEMMA ProviderCalls ==
    ASSUME LocalInv, CallInv, NEW i \in Caller, NEW bill \in Usage, NEW report \in Report \cup {Null},
           CallProvider(i, bill, report)
    PROVE  CallInv'
<1> DEFINE pc == IF report = Null THEN "settle" ELSE "finalize"
           x == [[[inv[i] EXCEPT !.bill = bill] EXCEPT !.report = report] EXCEPT !.pc = pc]
<1>1. /\ inv[i].pc = "provider" /\ inv[i] \in Invocation /\ Billed(inv[i])
      /\ Relies(ledger, inv[i], i) /\ AllRely(ledger)
      /\ report # Null => report.usage = bill
      /\ inflight' = inflight /\ ledger' = ledger
  BY DEF CallProvider, LocalInv, CallInv, AllRely, vars
<1>2. inv' = [inv EXCEPT ![i] = x]
  BY DEF CallProvider, LocalInv
<1>3. /\ x.pc = pc /\ x.run = inv[i].run /\ x.bill = bill
      /\ x.report = report /\ x.served = inv[i].served
  BY <1>1 DEF Invocation
<1>4. bill # Null
  BY CounterAssumption, NullIsNoRecord DEF Amounts
<1>5. inv[i].bill = Null /\ ~inv[i].served /\ Calling(inv[i])
  BY <1>1 DEF Billed, Calling
<1> HIDE DEF x
<1>6. Billed(x)
  BY <1>1, <1>3, <1>4, <1>5 DEF Billed
<1>7. Relies(ledger', x, i)
  BY <1>1, <1>3, <1>4, <1>5 DEF Relies
<1>8. AllRely(ledger')
  BY <1>1
<1>9. QED BY <1>1, <1>2, <1>5, <1>6, <1>7, <1>8, CallStep

\* A measured call: success is answered only when the ledger holds the exact bill.
LEMMA FinalizeCalls ==
    ASSUME TypeOK, LocalInv, CallInv, NEW i \in Caller, FinalizeMeasured(i)
    PROVE  CallInv'
<1> DEFINE k == KeyOf[i]
           d == DigestOf[i]
           l == inv[i].run
           report == inv[i].report
           s == Opened
           ok == FinalizeVerdict(s, k, d, i, l, report) = "ok"
           pc == IF ok THEN "done" ELSE "finalize_settle"
           x == [[inv[i] EXCEPT !.served = ok] EXCEPT !.pc = pc]
           v == SettleVerdict(s, k, d, i, l)
           r == ledger'.reservations[k]
<1>1. /\ inv[i].pc = "finalize" /\ inflight' = inflight
      /\ Executes(i, "finalize", l, report, 0)
      /\ inv' = [inv EXCEPT ![i] = x]
  BY DEF FinalizeMeasured, LocalInv
<1>2. /\ inv[i] \in Invocation /\ Knows(inv[i]) /\ Billed(inv[i]) /\ AllRely(ledger)
  BY DEF LocalInv, CallInv, AllRely
<1>3. report \in Report /\ inv[i].bill # Null /\ report.usage = inv[i].bill /\ report # Null
  BY <1>1, <1>2 DEF Knows, Billed
<1>4. k \in Key
  BY InvocationAssumption
<1>5. Truthful(i, "finalize", report)
  BY <1>3 DEF Truthful
<1>6. AllRely(ledger')
  BY <1>1, <1>2, <1>5, ExecutesRely
<1>7. Relies(ledger', inv[i], i)
  BY <1>6 DEF AllRely
<1>8. s \in LedgerState /\ now \in Nat
  BY OpenedFrame
<1>9. ledger' = finalizeBudget(s, k, d, i, l, report, now)
  BY <1>1 DEF Executes, FinalizeExact, Commit
<1>10. ASSUME ok
       PROVE  r.status = "reconciled" /\ r.actual = inv[i].bill /\ r.finalize_error = Null
  <2>1. v = "settle" \/ v = "replay"
    BY <1>10 DEF FinalizeVerdict, SettleVerdict
  <2>2. CASE v = "replay"
    <3>1. HasStatus(s, k, "reconciled")
      BY <1>4, <1>8, <2>2, SettleChecks
    <3>2. s.reservations[k] \in Reservation
      BY <1>4, <1>8, <3>1 DEF HasStatus, LedgerState
    <3>3. s.reservations[k].finalize_error = Null
      BY <1>10, <2>2, <3>2 DEF FinalizeVerdict, ReplayedAnswer, Reservation
    <3>4. ledger' = [s EXCEPT !.reservations[k].secret = FALSE]
      BY <1>9, <2>2 DEF finalizeBudget
    <3>5. r = [s.reservations[k] EXCEPT !.secret = FALSE]
      BY <1>4, <1>8, <3>4 DEF LedgerState
    <3>6. r.status = "reconciled" /\ r.finalize_error = Null
      BY <3>1, <3>2, <3>3, <3>5 DEF Reservation, HasStatus
    <3>7. Calling(inv[i]) /\ ~Uncertain(r)
      BY <1>3, <3>6, NullAssumption DEF Calling, Uncertain
    <3>8. r.actual = inv[i].bill
      BY <1>7, <3>6, <3>7 DEF Relies
    <3>9. QED BY <3>6, <3>8
  <2>3. CASE v = "settle"
    <3> DEFINE h == report.result = "canonical"
    <3>1. HasStatus(s, k, "reserved")
      BY <1>4, <1>8, <2>3, SettleChecks
    <3>2. s.reservations[k] \in Reservation
      BY <1>4, <1>8, <3>1 DEF HasStatus, LedgerState
    <3>3. /\ report.usage # Null /\ report.result # "rejected"
          /\ ~exceedsReserved(s.reservations[k].amounts, report.usage)
      BY <1>10, <2>3 DEF FinalizeVerdict
    <3>4. report.usage \in Amounts /\ report.costKnown \in BOOLEAN /\ h \in BOOLEAN
      BY <1>3, <3>3, CounterAssumption DEF Report, Amounts
    <3>5. ledger' = ReconcileExactly(s, k, report.usage, report.costKnown, h, now)
      BY <1>9, <2>3, <3>3 DEF finalizeBudget
    <3>6. r = ExactlySettled(s.reservations[k], report.usage, report.costKnown, h)
      BY <1>4, <1>8, <3>5 DEF ReconcileExactly, LedgerState
    <3> HIDE DEF h, r, report, s
    <3>7. QED BY <1>3, <3>2, <3>3, <3>4, <3>6, ExactlyWrites
  <2>4. QED BY <2>1, <2>2, <2>3
<1>11. ok \in BOOLEAN
  OBVIOUS
<1> HIDE DEF ok, r
<1>12. /\ x.pc = pc /\ x.run = l /\ x.bill = inv[i].bill
       /\ x.report = report /\ x.served = ok
  BY <1>2, <1>11 DEF Invocation
<1> HIDE DEF x
<1>13. Billed(x)
  BY <1>2, <1>3, <1>12 DEF Billed
<1>14. Calling(x) /\ Calling(inv[i])
  BY <1>3, <1>12 DEF Calling
<1>15. Relies(ledger', x, i)
  BY <1>3, <1>7, <1>10, <1>12, <1>14 DEF Relies, r
<1>16. QED BY <1>1, <1>6, <1>12, <1>13, <1>15, CallStep

\* Every step of one invocation keeps the invariant.
LEMMA InvocationCalls ==
    ASSUME TypeOK, LocalInv, CallInv, Safe(ledger), NEW i \in Caller, InvocationStep(i)
    PROVE  CallInv'
<1>0. /\ inv[i] \in Invocation /\ Billed(inv[i]) /\ AllRely(ledger)
  BY DEF LocalInv, CallInv, AllRely
<1>1. CASE ReserveOwned(i)
  BY <1>1, ReserveCalls
<1>2. CASE ReserveMalformed(i)
  <2>1. Executes(i, "reserve", Null, Null, 0) /\ Goto(i, "cancel") /\ inflight' = inflight
    BY <1>2 DEF ReserveMalformed
  <2>2. MayGo(inv[i], "cancel")
    BY <1>0, <1>2 DEF ReserveMalformed, Billed, MayGo
  <2>3. AllRely(ledger')
    BY <1>0, <2>1, ExecutesRely DEF Truthful
  <2>4. QED BY <2>1, <2>2, <2>3, GotoCalls
<1>3. CASE ReserveLost(i)
  <2>1. inv[i].bill = Null
    BY <1>0, <1>3 DEF ReserveLost, Billed
  <2>2. QED BY <1>3, <2>1, LostCalls DEF ReserveLost, MayGo
<1>4. CASE Cancel(i)
  <2>1. Executes(i, "cancel", Null, Null, now) /\ Goto(i, "done") /\ inflight' = inflight
    BY <1>4 DEF Cancel
  <2>2. AllRely(ledger')
    BY <1>0, <2>1, ExecutesRely DEF Truthful
  <2>3. QED BY <2>1, <2>2, GotoCalls DEF MayGo
<1>5. CASE CancelLost(i)
  <2>1. inv[i].bill = Null
    BY <1>0, <1>5 DEF CancelLost, Billed
  <2>2. QED BY <1>5, <2>1, LostCalls DEF CancelLost, MayGo
<1>6. CASE Mark(i)
  BY <1>6, MarkCalls
<1>7. CASE MarkLost(i)
  <2>1. MayGo(inv[i], AfterMarkFailure(i))
    BY <1>0, <1>7 DEF MarkLost, Billed, AfterMarkFailure, MayGo
  <2>2. QED BY <1>7, <2>1, LostCalls DEF MarkLost
<1>8. CASE \E bill \in Usage, report \in Report \cup {Null} : CallProvider(i, bill, report)
  BY <1>8, ProviderCalls
<1>9. CASE FinalizeMeasured(i)
  BY <1>9, FinalizeCalls
<1>10. CASE FinalizeLost(i)
  <2>1. inv[i].bill # Null /\ inv[i].report # Null
    BY <1>0, <1>10 DEF FinalizeLost, Billed
  <2>2. QED BY <1>10, <2>1, LostCalls DEF FinalizeLost, MayGo
<1>11. CASE SettleUnmeasured(i)
  <2>1. Executes(i, "settle", inv[i].run, Null, 0) /\ Goto(i, "done") /\ inflight' = inflight
    BY <1>11 DEF SettleUnmeasured
  <2>2. AllRely(ledger')
    BY <1>0, <2>1, ExecutesRely DEF Truthful
  <2>3. QED BY <2>1, <2>2, GotoCalls DEF MayGo
<1>12. CASE SettleLost(i)
  BY <1>12, LostCalls DEF SettleLost, MayGo
<1>13. CASE Crash(i)
  <2>1. Goto(i, "done") /\ inflight' = inflight /\ ledger' = ledger
    BY <1>13 DEF Crash, vars
  <2>2. AllRely(ledger')
    BY <1>0, <2>1
  <2>3. QED BY <2>1, <2>2, GotoCalls DEF MayGo
<1>14. QED BY <1>1, <1>2, <1>3, <1>4, <1>5, <1>6, <1>7, <1>8, <1>9, <1>10, <1>11, <1>12,
              <1>13 DEF InvocationStep

\* Every step of the gateway keeps it.
LEMMA GatewayCalls ==
    ASSUME TypeOK, LocalInv, CallInv, Safe(ledger), [GNext]_gvars
    PROVE  CallInv'
<1>0. AllRely(ledger)
  BY DEF CallInv, AllRely
<1>00. ASSUME AllRely(ledger'), inv' = inv, inflight' \subseteq inflight PROVE CallInv'
  <2>1. \A i \in Caller : Billed(inv'[i]) /\ Relies(ledger', inv'[i], i)
    BY <1>00 DEF CallInv, AllRely
  <2>2. \A m \in inflight' : Reported(m, inv')
    BY <1>00 DEF CallInv
  <2>3. QED BY <1>00, <2>1, <2>2 DEF CallInv, AllRely
<1>1. CASE \E i \in Caller : InvocationStep(i)
  BY <1>1, InvocationCalls
<1>2. CASE \E m \in inflight : Deliver(m)
  <2>1. PICK m \in inflight : Deliver(m)
    BY <1>2
  <2>2. m.inv \in Caller /\ Prepared(m.op, m.run, m.report) /\ Reported(m, inv)
    BY DEF LocalInv, Rpc, CallInv
  <2>3. /\ Executes(m.inv, m.op, m.run, m.report, m.sent)
        /\ inv' = inv /\ inflight' \subseteq inflight
    BY <2>1 DEF Deliver
  <2>4. Truthful(m.inv, m.op, m.report)
    BY <2>2 DEF Truthful, Reported, Prepared
  <2>5. AllRely(ledger')
    BY <1>0, <2>2, <2>3, <2>4, ExecutesRely
  <2>6. QED BY <1>00, <2>3, <2>5
<1>3. CASE ControlledPaper
  <2>1. Owned(ledger) /\ inv' = inv /\ inflight' \subseteq inflight
    BY <1>0, <1>3 DEF AllRely, ControlledPaper
  <2>2. Framed
    BY <1>3, <2>1, PaperFrame
  <2>3. AllRely(ledger')
    BY <1>0, <2>2, FramedRely
  <2>4. QED BY <1>00, <2>1, <2>3
<1>4. CASE LedgerAlone
  <2>1. inv' = inv /\ inflight' = inflight /\ (ledger' = Opened \/ ledger' = ledger)
    BY <1>4 DEF LedgerAlone, Alarm, RecoverExpiredLeases, Commit, Throw, Tick, vars
  <2>2. Frame(ledger, Opened, inv)
    BY OpenedFrame
  <2>3. AllRely(Opened)
    BY <1>0, <2>2, FrameAllRely
  <2>4. AllRely(ledger')
    BY <1>0, <2>1, <2>3
  <2>5. QED BY <1>00, <2>1, <2>4
<1>5. CASE UNCHANGED gvars
  <2>1. AllRely(ledger') /\ inv' = inv /\ inflight' \subseteq inflight
    BY <1>0, <1>5 DEF gvars
  <2>2. QED BY <1>00, <2>1
<1>6. QED BY <1>1, <1>2, <1>3, <1>4, <1>5 DEF GNext, InvocationStep

\* What the invocations rely on holds throughout.
THEOREM GatewayCallsSafe == GSpec => [](GTypeOK /\ CallInv)
<1>1. GInit => CallInv
  <2> SUFFICES ASSUME GInit PROVE CallInv
    OBVIOUS
  <2> DEFINE x == [pc |-> "reserve", run |-> Null, bill |-> Null, report |-> Null,
                   served |-> FALSE]
  <2>1. (\A k \in Key : ledger.reservations[k] = Null) /\ inflight = {}
    BY DEF GInit, Init, emptyLedger
  <2>2. \A i \in Caller : inv[i] = x
    BY DEF GInit
  <2>3. Billed(x) /\ \A i \in Caller : Relies(ledger, x, i)
    BY DEF Billed, Relies, Calling
  <2> HIDE DEF x
  <2>4. QED BY <2>1, <2>2, <2>3 DEF CallInv, Owned
<1>2. TypeOK /\ LocalInv /\ CallInv /\ Safe(ledger) /\ [GNext]_gvars => CallInv'
  BY GatewayCalls
<1>3. TypeOK /\ LocalInv /\ [GNext]_gvars => TypeOK' /\ LocalInv'
  BY GatewaySteps, TypeStep
<1>4. GSpec => []Safe(ledger)
  BY GatewayDrivesLedger, AccountingSafe, PTL
<1>5. TypeOK /\ LocalInv => GTypeOK
  BY DEF LocalInv, GTypeOK
<1>6. QED BY <1>1, <1>2, <1>3, <1>4, <1>5, GatewayInit, PTL DEF GSpec

\* One client request, one provider call: however often an idempotency key is retried,
\* lost, delayed or abandoned, Workers AI is called for it at most once.
THEOREM GatewayOneCall == GSpec => []OneCallPerKey
<1>1. CallInv => OneCallPerKey
  <2> SUFFICES ASSUME CallInv, NEW i \in Caller, NEW j \in Caller, KeyOf[i] = KeyOf[j],
                      inv[i].bill # Null, inv[j].bill # Null
               PROVE  i = j
    BY DEF OneCallPerKey
  <2> DEFINE r == ledger.reservations[KeyOf[i]]
  <2>1. inv[i].run # Null /\ r # Null /\ r.lease_id = inv[i].run /\ r.owner = i
    BY DEF CallInv, Relies, Calling
  <2>2. inv[j].run # Null /\ r # Null /\ r.lease_id = inv[j].run /\ r.owner = j
    BY DEF CallInv, Relies, Calling
  <2>3. QED BY <2>1, <2>2
<1>2. QED BY <1>1, GatewayCallsSafe, PTL

\* Workers AI is never called unless the ledger has persisted that usage may exist, and
\* what a call used within its reservation is always held or charged.
THEOREM GatewayCallCovered == GSpec => []CallIsCovered
<1>1. GTypeOK /\ CallInv => CallIsCovered
  <2> SUFFICES ASSUME GTypeOK, CallInv, NEW i \in Caller, inv[i].bill # Null
               PROVE  LET r == ledger.reservations[KeyOf[i]] IN
                      /\ r # Null /\ r.lease_id = inv[i].run /\ r.started
                      /\ r.status \in {"reserved", "reconciled"}
                      /\ \A c \in Counter :
                           inv[i].bill[c] <= r.amounts[c] =>
                              inv[i].bill[c] <= (IF r.status = "reserved" THEN r.amounts[c]
                                                 ELSE r.actual[c])
    BY DEF CallIsCovered
  <2> DEFINE r == ledger.reservations[KeyOf[i]]
             b == inv[i].bill
  <2>1. /\ r # Null /\ r.lease_id = inv[i].run /\ r.started
        /\ r.status \in {"reserved", "reconciled"}
        /\ r.status = "reconciled" => Uncertain(r) \/ r.actual = b
    BY DEF CallInv, Relies, Calling
  <2>2. b \in [Counter -> Nat]
    BY CounterAssumption DEF GTypeOK, Invocation
  <2> HIDE DEF r, b
  <2>3. \A c \in Counter : b[c] <= r.amounts[c] =>
            b[c] <= (IF r.status = "reserved" THEN r.amounts[c] ELSE r.actual[c])
    BY <2>1, <2>2 DEF Uncertain
  <2>4. QED BY <2>1, <2>3 DEF r, b
<1>2. QED BY <1>1, GatewayCallsSafe, PTL

\* An answer served as a success was charged exactly what the provider reported.
THEOREM GatewayServedExact == GSpec => []ServedIsExact
<1>1. CallInv => ServedIsExact
  BY DEF CallInv, Relies, Calling, ServedIsExact, HasStatus
<1>2. QED BY <1>1, GatewayCallsSafe, PTL
==============================================================================
