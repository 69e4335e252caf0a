------------------------ MODULE CoverageLedgerProofs ------------------------
(***************************************************************************)
(* COMPLETE is never minted, and stands for covered days, for any          *)
(* datasets, calendar, receipts, policies and builds.                      *)
(***************************************************************************)
EXTENDS CoverageLedger, FiniteSumsProofs

\* A stored aggregate is a record with the fields of a dataset_coverage row.
IsRow(r) ==
  \E st, p, c, n, k, t :
     r = [status |-> st, policy |-> p, candidate |-> c, required |-> n,
          complete |-> k, total |-> t]

RowsShaped ==
  /\ DOMAIN rows = Datasets /\ rows = [d \in Datasets |-> rows[d]]
  /\ \A d \in Datasets : rows[d] = None \/ IsRow(rows[d])

\* The inductive invariant: CompleteIsSigned needs that a row keeps the policy
\* it was stored with when only its status is rewritten.
SignedInv == RowsShaped /\ CompleteIsSigned

\* A running restore is about a dataset.
RestoreShaped == restore # None => restore.dataset \in Datasets

\* Rewriting the counts of a row keeps its status and policy.
LEMMA CountedRow ==
  ASSUME NEW r, IsRow(r), NEW segs, NEW n
  PROVE  /\ IsRow(Counted(r, segs, n))
         /\ Counted(r, segs, n).status = r.status
         /\ Counted(r, segs, n).policy = r.policy
<1> PICK st, p, c, q, k, t :
      r = [status |-> st, policy |-> p, candidate |-> c, required |-> q,
           complete |-> k, total |-> t]
    BY DEF IsRow
<1> DEFINE kk == Cardinality(InStatus(segs, "COMPLETE"))
           tt == Cardinality(Stored(segs))
<1> DEFINE r1 == [r EXCEPT !.required = n]
           r2 == [r1 EXCEPT !.complete = kk]
<1>1. Counted(r, segs, n) =
        [status |-> st, policy |-> p, candidate |-> c, required |-> n,
         complete |-> kk, total |-> tt]
  <2>1. Counted(r, segs, n) = [r2 EXCEPT !.total = tt]
    BY DEF Counted
  <2> HIDE DEF kk, tt
  <2>2. r1 = [status |-> st, policy |-> p, candidate |-> c, required |-> n,
              complete |-> k, total |-> t]
    OBVIOUS
  <2> HIDE DEF r1
  <2>3. r2 = [status |-> st, policy |-> p, candidate |-> c, required |-> n,
              complete |-> kk, total |-> t]
    BY <2>2
  <2> HIDE DEF r2
  <2> QED BY <2>1, <2>3
<1> HIDE DEF kk, tt
<1>2. IsRow(Counted(r, segs, n))
  BY <1>1 DEF IsRow
<1> QED BY <1>1, <1>2

\* Rewriting the status of a row keeps its policy.
LEMMA StatusRow ==
  ASSUME NEW r, IsRow(r), NEW s
  PROVE  /\ IsRow([r EXCEPT !.status = s])
         /\ [r EXCEPT !.status = s].status = s
         /\ [r EXCEPT !.status = s].policy = r.policy
<1> PICK st, p, c, q, k, t :
      r = [status |-> st, policy |-> p, candidate |-> c, required |-> q,
           complete |-> k, total |-> t]
    BY DEF IsRow
<1>1. [r EXCEPT !.status = s] =
        [status |-> s, policy |-> p, candidate |-> c, required |-> q,
         complete |-> k, total |-> t]
  OBVIOUS
<1>2. IsRow([status |-> s, policy |-> p, candidate |-> c, required |-> q,
             complete |-> k, total |-> t])
  BY DEF IsRow
<1> QED BY <1>1, <1>2

\* A promoted row keeps its policy.
LEMMA PromotedRow ==
  ASSUME NEW r, IsRow(r)
  PROVE  IsRow(Promoted(r)) /\ Promoted(r).policy = r.policy
<1> DEFINE done == [r EXCEPT !.status = "COMPLETE"]
<1>1. IsRow(done) /\ done.policy = r.policy
  BY StatusRow
<1>2. Promoted(r) = [done EXCEPT !.candidate = 0]
  BY DEF Promoted
<1> HIDE DEF done
<1> PICK st, p, c, q, k, t :
      done = [status |-> st, policy |-> p, candidate |-> c, required |-> q,
              complete |-> k, total |-> t]
    BY <1>1 DEF IsRow
<1>3. Promoted(r) = [status |-> st, policy |-> p, candidate |-> 0, required |-> q,
                     complete |-> k, total |-> t]
  BY <1>2
<1>4. IsRow(Promoted(r))
  BY <1>3 DEF IsRow
<1> QED BY <1>1, <1>3, <1>4

\* _apply_refresh_complete_gate: what a refresh stores is a row of the current
\* policy, COMPLETE only if the row before it was, under that policy.
LEMMA RefreshKeeps ==
  ASSUME NEW d, NEW segs, NEW g, NEW valid \in BOOLEAN
  PROVE  LET new == RefreshedRow(d, segs, g, valid)
         IN /\ IsRow(new)
            /\ new.status = "COMPLETE" =>
                 WasComplete(d) /\ rows[d].policy = policy /\ new.policy = policy
<1> DEFINE computed == IF valid THEN Aggregate(segs) ELSE "FAILED"
           status == IF computed = "COMPLETE" /\ ~Retains(d, segs, g) THEN "PARTIAL"
                     ELSE computed
           target == IF computed = "COMPLETE" /\ ~WasComplete(d) THEN g ELSE 0
           fresh == [status |-> status, policy |-> policy, candidate |-> target,
                     required |-> 0, complete |-> 0, total |-> 0]
           new == Counted(fresh, segs, Cardinality(Stored(segs)))
<1>1. RefreshedRow(d, segs, g, valid) = new
  BY DEF RefreshedRow
<1>2. IsRow(fresh) /\ fresh.status = status /\ fresh.policy = policy
  <2> HIDE DEF status, target
  <2> QED BY DEF IsRow
<1>3. status = "COMPLETE" => Retains(d, segs, g)
  OBVIOUS
<1>4. IsRow(new) /\ new.status = status /\ new.policy = policy
  <2> HIDE DEF fresh
  <2> QED BY <1>2, CountedRow
<1> HIDE DEF new, status
<1> QED BY <1>1, <1>3, <1>4 DEF Retains

\* sync_dataset_coverage_from_segments: the row keeps its policy and is
\* COMPLETE only if it was.
LEMMA SyncKeeps ==
  ASSUME NEW d, IsRow(rows[d])
  PROVE  /\ IsRow(SyncedRow(d))
         /\ SyncedRow(d).policy = rows[d].policy
         /\ SyncedRow(d).status = "COMPLETE" => WasComplete(d)
<1> DEFINE status == IF Retains(d, segments[d], day) THEN "COMPLETE"
                     ELSE IF Aggregate(segments[d]) = "FAILED" THEN "FAILED" ELSE "PARTIAL"
           r == [rows[d] EXCEPT !.status = status]
           n == Cardinality(Required(day))
<1>1. SyncedRow(d) = Counted(r, segments[d], n)
  BY DEF SyncedRow, WithStatus
<1>2. status = "COMPLETE" => WasComplete(d)
  BY DEF Retains
<1> HIDE DEF status, n
<1>3. IsRow(r) /\ r.status = status /\ r.policy = rows[d].policy
  BY StatusRow
<1> HIDE DEF r
<1> QED BY <1>1, <1>2, <1>3, CountedRow

\* A step that gives one dataset a new row, COMPLETE only if the old row was
\* COMPLETE under the same policy, keeps the invariant.
LEMMA OneRowKeeps ==
  ASSUME SignedInv, NEW d \in Datasets, NEW new,
         rows' = [rows EXCEPT ![d] = new], tombstones' = tombstones,
         IsRow(new),
         new.status = "COMPLETE" => WasComplete(d) /\ new.policy = rows[d].policy
  PROVE  SignedInv'
<1>1. \A e \in Datasets : rows'[e] = IF e = d THEN new ELSE rows[e]
  BY DEF SignedInv, RowsShaped
<1>2. RowsShaped'
  BY <1>1 DEF SignedInv, RowsShaped
<1>3. CompleteIsSigned'
  <2> SUFFICES ASSUME NEW e \in Datasets, WasComplete(e)'
               PROVE  \E t \in tombstones' : e \in t.datasets /\ t.policy = rows'[e].policy
    BY DEF CompleteIsSigned
  <2>1. WasComplete(e) /\ rows'[e].policy = rows[e].policy
    BY <1>1 DEF WasComplete
  <2> QED BY <2>1 DEF SignedInv, CompleteIsSigned
<1> QED BY <1>2, <1>3 DEF SignedInv

\* A step that stores no aggregate and consumes no document keeps it.
LEMMA NoRowKeeps ==
  ASSUME SignedInv, UNCHANGED <<rows, tombstones>>
  PROVE  SignedInv'
  BY DEF SignedInv, RowsShaped, CompleteIsSigned, WasComplete

\* Re-aggregation, by the sync or at the end of a restore, keeps it.
LEMMA AggregateKeeps ==
  ASSUME SignedInv, NEW d \in Datasets, rows[d] # None, SyncAggregate(d),
         UNCHANGED tombstones
  PROVE  SignedInv'
<1>1. IsRow(rows[d])
  BY DEF SignedInv, RowsShaped
<1>2. CASE VerifyOnly(d)
  BY <1>2, NoRowKeeps DEF SyncAggregate
<1>3. CASE ~VerifyOnly(d)
  <2>1. rows' = [rows EXCEPT ![d] = SyncedRow(d)]
    BY <1>3 DEF SyncAggregate
  <2> QED BY <1>1, <2>1, SyncKeeps, OneRowKeeps
<1> QED BY <1>2, <1>3

\* apply_signed_coverage_transition records the tombstone with the rows it makes
\* COMPLETE, which are of the current policy.
LEMMA ApplyKeeps ==
  ASSUME SignedInv, NEW x, Apply(x)
  PROVE  SignedInv'
<1> DEFINE tomb == [build |-> x.build, datasets |-> x.datasets, policy |-> policy]
<1>1. tombstones' = tombstones \union {tomb}
  BY DEF Apply
<1>2. \A d \in Datasets :
        rows'[d] = IF d \in x.datasets THEN Promoted(rows[d]) ELSE rows[d]
  BY DEF Apply
<1>3. \A d \in x.datasets : rows[d] # None /\ rows[d].policy = policy
  BY DEF Apply, BindsLiveState, Derivable, CurrentRow
<1>4. RowsShaped'
  <2>1. DOMAIN rows' = Datasets /\ rows' = [d \in Datasets |-> rows'[d]]
    BY DEF Apply
  <2>2. ASSUME NEW d \in Datasets PROVE rows'[d] = None \/ IsRow(rows'[d])
    <3>1. rows[d] = None \/ IsRow(rows[d])
      BY DEF SignedInv, RowsShaped
    <3>2. CASE d \in x.datasets
      <4>1. IsRow(rows[d])
        BY <1>3, <3>1, <3>2
      <4> QED BY <1>2, <3>2, <4>1, PromotedRow
    <3>3. CASE d \notin x.datasets
      BY <1>2, <3>1, <3>3
    <3> QED BY <3>2, <3>3
  <2> QED BY <2>1, <2>2 DEF RowsShaped
<1>5. CompleteIsSigned'
  <2> SUFFICES ASSUME NEW d \in Datasets, WasComplete(d)'
               PROVE  \E t \in tombstones' : d \in t.datasets /\ t.policy = rows'[d].policy
    BY DEF CompleteIsSigned
  <2>1. CASE d \in x.datasets
    <3>1. IsRow(rows[d])
      BY <1>3, <2>1 DEF SignedInv, RowsShaped
    <3>2. rows'[d].policy = policy
      BY <1>2, <1>3, <2>1, <3>1, PromotedRow
    <3>3. tomb \in tombstones' /\ d \in tomb.datasets /\ tomb.policy = policy
      BY <1>1, <2>1
    <3> QED BY <3>2, <3>3
  <2>2. CASE d \notin x.datasets
    <3>1. WasComplete(d) /\ rows'[d].policy = rows[d].policy
      BY <1>2, <2>2 DEF WasComplete
    <3> QED BY <1>1, <3>1 DEF SignedInv, CompleteIsSigned
  <2> QED BY <2>1, <2>2
<1> QED BY <1>4, <1>5 DEF SignedInv

\* Every step keeps the invariant.
LEMMA StepKeeps == SignedInv /\ RestoreShaped /\ [Next]_vars => SignedInv'
<1> SUFFICES ASSUME SignedInv, RestoreShaped, [Next]_vars PROVE SignedInv'
  OBVIOUS
<1>1. ASSUME NEW d \in Datasets, NEW t, NEW g, Refresh(d, t, g) PROVE SignedInv'
  <2> PICK valid \in BOOLEAN : RefreshWith(d, t, g, valid)
    BY <1>1 DEF Refresh
  <2> DEFINE new == RefreshedRow(d, segments'[d], g, valid)
  <2>1. rows' = [rows EXCEPT ![d] = new] /\ tombstones' = tombstones
    BY DEF RefreshWith
  <2>2. /\ IsRow(new)
        /\ new.status = "COMPLETE" => WasComplete(d) /\ new.policy = rows[d].policy
    BY RefreshKeeps
  <2> HIDE DEF new
  <2> QED BY <2>1, <2>2, OneRowKeeps
<1>2. ASSUME NEW d \in Datasets, RefreshToday(d) PROVE SignedInv'
  BY <1>1, <1>2 DEF RefreshToday
<1>3. ASSUME NEW d \in Datasets, RefreshBuild(d) PROVE SignedInv'
  BY <1>1, <1>3 DEF RefreshBuild
<1>4. ASSUME NEW d \in Datasets, Sync(d) PROVE SignedInv'
  BY <1>4, AggregateKeeps DEF Sync
<1>5. ASSUME NEW d \in Datasets, Plan(d) \/ Record(d) \/ RestorePlan(d) PROVE SignedInv'
  BY <1>5, NoRowKeeps DEF Plan, Record, RestorePlan
<1>6. CASE RestoreSeal \/ StartBuild \/ EndBuild \/ NextDay \/ Deploy
  BY <1>6, NoRowKeeps DEF RestoreSeal, StartBuild, EndBuild, NextDay, Deploy
<1>7. CASE RestoreSync
  <2>1. CASE rows[restore.dataset] = None
    BY <1>7, <2>1, NoRowKeeps DEF RestoreSync
  <2>2. CASE rows[restore.dataset] # None
    BY <1>7, <2>2, AggregateKeeps DEF RestoreSync, RestoreShaped
  <2> QED BY <2>1, <2>2
<1>8. ASSUME NEW ds, Request(ds) PROVE SignedInv'
  BY <1>8, NoRowKeeps DEF Request
<1>9. ASSUME NEW x, Apply(x) PROVE SignedInv'
  BY <1>9, ApplyKeeps
<1>10. ASSUME NEW x, ExpireDocument(x) PROVE SignedInv'
  BY <1>10, NoRowKeeps DEF ExpireDocument
<1>11. CASE UNCHANGED vars
  BY <1>11, NoRowKeeps DEF vars
<1> QED BY <1>2, <1>3, <1>4, <1>5, <1>6, <1>7, <1>8, <1>9, <1>10, <1>11 DEF Next

\* Only RestorePlan starts a restore, for a dataset.
LEMMA RestoreKeeps == RestoreShaped /\ [Next]_vars => RestoreShaped'
<1> SUFFICES ASSUME RestoreShaped, [Next]_vars PROVE RestoreShaped'
  OBVIOUS
<1>1. ASSUME NEW d \in Datasets, RestorePlan(d) PROVE RestoreShaped'
  <2> PICK m, r, v :
        restore' \in {[step |-> "seal", dataset |-> d, month |-> m, run |-> r,
                       policy |-> v], None}
    BY <1>1 DEF RestorePlan
  <2> QED BY DEF RestoreShaped
<1>2. CASE RestoreSeal
  <2>1. restore' = None \/ restore' = [restore EXCEPT !.step = "sync"]
    BY <1>2 DEF RestoreSeal
  <2>2. [restore EXCEPT !.step = "sync"].dataset = restore.dataset
    OBVIOUS
  <2> QED BY <1>2, <2>1, <2>2 DEF RestoreSeal, RestoreShaped
<1>3. CASE RestoreSync
  BY <1>3 DEF RestoreSync, RestoreShaped
<1>4. CASE UNCHANGED restore
  BY <1>4 DEF RestoreShaped
<1> QED
  BY <1>1, <1>2, <1>3, <1>4
  DEF Next, vars, RefreshToday, RefreshBuild, Refresh, RefreshWith, Sync, Plan, Record,
      StartBuild, EndBuild, NextDay, Deploy, Request, Apply, ExpireDocument

\* A dataset is COMPLETE only if a signed transition under its row's policy was
\* consumed for it, for every calendar, receipt set, policy history and
\* interleaving of refreshes, syncs, plans, restores, deployments and documents.
THEOREM CompleteSigned == Spec => []CompleteIsSigned
<1>1. Init => SignedInv /\ RestoreShaped
  BY DEF Init, SignedInv, RowsShaped, CompleteIsSigned, WasComplete, RestoreShaped
<1>2. SignedInv /\ RestoreShaped /\ [Next]_vars => (SignedInv /\ RestoreShaped)'
  BY StepKeeps, RestoreKeeps
<1>3. SignedInv => CompleteIsSigned
  BY DEF SignedInv
<1> QED BY <1>1, <1>2, <1>3, PTL DEF Spec

-----------------------------------------------------------------------------
(* The calendar.                                                           *)

\* A day lies in its month.
LEMMA MonthBounds ==
  ASSUME NEW t \in Nat \ {0}
  PROVE  /\ Month(t) \in Nat \ {0}
         /\ (Month(t) - 1) * MonthDays < t
         /\ t <= Month(t) * MonthDays
<1> DEFINE a == t + MonthDays - 1
           q == a \div MonthDays
<1>1. MonthDays \in Nat \ {0} /\ a \in Nat
  BY CoverageAssumption
<1>2. q \in Nat /\ MonthDays * q <= a /\ a < MonthDays * q + MonthDays
  <2> HIDE DEF a
  <2> QED BY <1>1
<1> HIDE DEF q
<1>3. q * MonthDays \in Nat /\ q * MonthDays = MonthDays * q
  BY <1>1, <1>2
<1>4. (q - 1) * MonthDays = q * MonthDays - MonthDays
  BY <1>1, <1>2
<1>5. (q - 1) * MonthDays < t /\ t <= q * MonthDays
  BY <1>1, <1>2, <1>3, <1>4
<1>6. q # 0
  BY <1>1, <1>5
<1> QED BY <1>2, <1>5, <1>6 DEF Month, q

\* An earlier day lies in no later month.
LEMMA MonthMonotone ==
  ASSUME NEW x \in Nat \ {0}, NEW t \in Nat \ {0}, x <= t
  PROVE  Month(x) <= Month(t)
<1> DEFINE p == Month(x) - 1
           q == Month(t)
<1>1. p \in Nat /\ p * MonthDays < x /\ q \in Nat /\ t <= q * MonthDays
  BY MonthBounds
<1>2. MonthDays \in Nat \ {0} /\ Month(x) = p + 1
  BY CoverageAssumption, MonthBounds
<1> SUFFICES ASSUME q <= p PROVE FALSE
  BY <1>1, <1>2
<1> HIDE DEF p, q
<1>3. q * MonthDays <= p * MonthDays
  BY <1>1, <1>2
<1>4. q * MonthDays \in Nat /\ p * MonthDays \in Nat
  BY <1>1, <1>2
<1> QED BY <1>1, <1>3, <1>4

\* The months of the calendar are finitely many.
LEMMA MonthsFinite ==
  /\ IsFiniteSet(Months) /\ Cardinality(Months) \in Nat
  /\ \A S \in SUBSET Months : Cardinality(S) \in 0 .. Cardinality(Months)
<1>1. MaxDay \in Nat \ {0}
  BY CoverageAssumption
<1>2. Month(MaxDay) \in Nat
  BY <1>1, MonthBounds
<1>3. IsFiniteSet(Months) /\ Cardinality(Months) \in Nat
  BY <1>2, FS_Interval, FS_CardinalityType DEF Months
<1>4. ASSUME NEW S \in SUBSET Months PROVE Cardinality(S) \in 0 .. Cardinality(Months)
  <2>1. IsFiniteSet(S) /\ Cardinality(S) <= Cardinality(Months)
    BY <1>3, FS_Subset
  <2> QED BY <1>3, <2>1, FS_CardinalityType
<1> QED BY <1>3, <1>4

\* plan_required_segments: the planned months are months of the calendar and
\* end on days of it.
LEMMA RequiredMonths ==
  ASSUME NEW t \in Days, NEW m \in 1 .. Month(t)
  PROVE  m \in Months /\ MonthEnd(m, t) \in Days
<1>1. MaxDay \in Nat \ {0} /\ t \in Nat \ {0} /\ t <= MaxDay /\ MonthDays \in Nat \ {0}
  BY CoverageAssumption DEF Days
<1>2. Month(t) <= Month(MaxDay) /\ Month(t) \in Nat /\ Month(MaxDay) \in Nat
  BY <1>1, MonthMonotone, MonthBounds
<1>3. m \in Months /\ m \in Nat \ {0}
  BY <1>2 DEF Months
<1>4. m * MonthDays \in Nat \ {0}
  BY <1>1, <1>3
<1> QED BY <1>1, <1>3, <1>4 DEF MonthEnd, Days

LEMMA RequiredTyped ==
  ASSUME NEW t \in Days, NEW s \in Required(t)
  PROVE  /\ s.month \in Months /\ s.end \in Days
         /\ s.month \in 1 .. Month(t) /\ s.end = MonthEnd(s.month, t)
<1> PICK m \in 1 .. Month(t) : s = [month |-> m, end |-> MonthEnd(m, t)]
  BY DEF Required
<1> QED BY RequiredMonths

\* No plan asks for more months than there are.
LEMMA RequiredCount ==
  ASSUME NEW t \in Days
  PROVE  Cardinality(Required(t)) \in 0 .. Cardinality(Months)
<1> DEFINE S == 1 .. Month(t)
           f == [m \in S |-> [month |-> m, end |-> MonthEnd(m, t)]]
<1>1. S \in SUBSET Months
  BY RequiredMonths
<1>2. IsFiniteSet(S) /\ Cardinality(S) \in 0 .. Cardinality(Months)
  BY <1>1, MonthsFinite, FS_Subset
<1>3. f \in Surjection(S, Required(t))
  BY DEF Surjection, Required
<1>4. IsFiniteSet(Required(t)) /\ Cardinality(Required(t)) <= Cardinality(S)
  BY <1>2, <1>3, FS_Surjection
<1> QED BY <1>2, <1>4, MonthsFinite, FS_CardinalityType

-----------------------------------------------------------------------------
(* Types.                                                                  *)

MonthRows == [Months -> Segment \union {None}]

\* The build that is validated was counted, which types the documents for it.
TypeInv == TypeOK /\ (build # None => build.id \in 1 .. builds)

\* The greatest run of a nonempty set of runs is one of them.
LEMMA GreatestRun ==
  ASSUME NEW S \in SUBSET Runs, S # {}
  PROVE  (CHOOSE r \in S : \A q \in S : r >= q) \in S
<1>1. S \in SUBSET Nat /\ IsFiniteSet(S)
  BY CoverageAssumption, FS_Subset
<1>2. \E r \in S : \A q \in S : r >= q
  BY <1>1, GreatestNatural
<1> QED BY <1>2

\* _evaluate_prepared_segment returns a status of a segment row.
LEMMA EvaluateTyped ==
  ASSUME TypeOK, NEW d \in Datasets, NEW s, s.month \in Months,
         NEW r \in Recorded(d, s.month)
  PROVE  /\ receipts[d][s.month][r] \in Receipt /\ r \in Runs
         /\ Evaluate(d, s, r) \in {"COMPLETE", "PARTIAL", "FAILED"}
<1> DEFINE c == receipts[d][s.month][r]
<1>1. r \in Runs /\ c # None
  BY DEF Recorded
<1>2. c \in Receipt
  BY <1>1 DEF TypeOK
<1>3. c.verdict \in {"COMPLETE", "PARTIAL", "FAILED", "UNVERIFIED"}
  BY <1>2, CoverageAssumption DEF Receipt
<1>4. Evaluate(d, s, r) =
        IF c.verdict = "UNVERIFIED" \/ c.end # s.end \/ c.policy # policy
        THEN "PARTIAL" ELSE c.verdict
  BY DEF Evaluate
<1> HIDE DEF c
<1>5. Evaluate(d, s, r) \in {"COMPLETE", "PARTIAL", "FAILED"}
  BY <1>3, <1>4
<1> QED BY <1>1, <1>2, <1>5 DEF c

\* A refresh stores a segment row of the month's own end.
LEMMA EvaluatedTyped ==
  ASSUME TypeOK, NEW d \in Datasets, NEW s, s.month \in Months, s.end \in Days
  PROVE  Evaluated(d, s) \in Segment
<1> DEFINE before == segments[d][s.month]
           sticky == before # None /\ before.status = "COMPLETE" /\ Eligible(d, s) # {}
           best == Best(d, s)
           top == CHOOSE r \in best : TRUE
           old == CHOOSE r \in Eligible(d, s) : \A q \in Eligible(d, s) : r >= q
           row(status, r) == [end |-> s.end, status |-> status, run |-> r]
<1>1. /\ best \subseteq Recorded(d, s.month) /\ Eligible(d, s) \subseteq Recorded(d, s.month)
      /\ Recorded(d, s.month) \subseteq Runs
  BY DEF Best, Indexed, Eligible, Recorded
<1>2. best # {} => top \in best
  OBVIOUS
<1>3. Eligible(d, s) # {} => old \in Runs
  BY <1>1, GreatestRun
<1>4. ASSUME NEW st \in {"COMPLETE", "PARTIAL", "FAILED"}, NEW r \in Runs \union {0}
      PROVE  row(st, r) \in Segment
  BY DEF Segment
<1>5. best # {} => top \in Runs /\ Evaluate(d, s, top) \in {"COMPLETE", "PARTIAL", "FAILED"}
  BY <1>1, <1>2, EvaluateTyped
<1>6. Evaluated(d, s) =
        IF best = {} THEN row("PARTIAL", 0)
        ELSE IF Evaluate(d, s, top) # "COMPLETE" /\ sticky THEN row("COMPLETE", old)
        ELSE row(Evaluate(d, s, top), top)
  BY DEF Evaluated
<1>7. sticky => Eligible(d, s) # {}
  OBVIOUS
<1> HIDE DEF best, top, old, sticky, row
<1> QED BY <1>3, <1>4, <1>5, <1>6, <1>7

LEMMA EvaluatedMonthsTyped ==
  ASSUME TypeOK, NEW d \in Datasets, NEW t \in Days
  PROVE  /\ EvaluatedMonths(d, t) \in MonthRows
         /\ EvaluatedMonths(d, t)[1] # None /\ 1 \in Months
<1> DEFINE row(m) == Evaluated(d, [month |-> m, end |-> MonthEnd(m, t)])
<1>1. ASSUME NEW m \in 1 .. Month(t) PROVE m \in Months /\ row(m) \in Segment
  <2> DEFINE s == [month |-> m, end |-> MonthEnd(m, t)]
  <2>1. s.month \in Months /\ s.end \in Days
    BY RequiredMonths
  <2> HIDE DEF s
  <2> QED BY <2>1, EvaluatedTyped, RequiredMonths DEF s
<1>2. EvaluatedMonths(d, t) =
        [m \in Months |-> IF m \in 1 .. Month(t) THEN row(m) ELSE None]
  BY DEF EvaluatedMonths
<1> HIDE DEF row
<1>3. EvaluatedMonths(d, t) \in MonthRows
  BY <1>1, <1>2 DEF MonthRows
<1>4. t \in Nat \ {0}
  BY CoverageAssumption DEF Days
<1>5. 1 \in 1 .. Month(t)
  BY <1>4, MonthBounds
<1>6. EvaluatedMonths(d, t)[1] \in Segment /\ 1 \in Months
  BY <1>1, <1>2, <1>5
<1>7. None \notin Segment
  BY DEF None, Segment
<1> QED BY <1>3, <1>6, <1>7

\* The counts of a row are those of stored months.
LEMMA CountedTyped ==
  ASSUME NEW r \in Row, NEW segs, NEW n \in 0 .. Cardinality(Months)
  PROVE  Counted(r, segs, n) \in Row
<1> DEFINE kk == Cardinality(InStatus(segs, "COMPLETE"))
           tt == Cardinality(Stored(segs))
<1>1. InStatus(segs, "COMPLETE") \in SUBSET Months /\ Stored(segs) \in SUBSET Months
  BY DEF InStatus, Stored
<1>2. kk \in 0 .. Cardinality(Months) /\ tt \in 0 .. Cardinality(Months)
  BY <1>1, MonthsFinite
<1>3. Counted(r, segs, n) = [r EXCEPT !.required = n, !.complete = kk, !.total = tt]
  BY DEF Counted
<1> HIDE DEF kk, tt
<1> QED BY <1>2, <1>3 DEF Row

\* The evaluated months are never none, so that a refresh finds a status.
LEMMA AggregateTyped ==
  ASSUME NEW segs \in MonthRows
  PROVE  /\ Aggregate(segs) \in {"UNKNOWN", "COMPLETE", "PARTIAL", "FAILED"}
         /\ Stored(segs) # {} => Aggregate(segs) # "UNKNOWN"
  BY DEF Aggregate

LEMMA RefreshedTyped ==
  ASSUME TypeOK, NEW d \in Datasets, NEW segs \in MonthRows, Stored(segs) # {},
         NEW g \in Days, NEW valid \in BOOLEAN
  PROVE  RefreshedRow(d, segs, g, valid) \in Row
<1> DEFINE computed == IF valid THEN Aggregate(segs) ELSE "FAILED"
           status == IF computed = "COMPLETE" /\ ~Retains(d, segs, g) THEN "PARTIAL"
                     ELSE computed
           target == IF computed = "COMPLETE" /\ ~WasComplete(d) THEN g ELSE 0
           fresh == [status |-> status, policy |-> policy, candidate |-> target,
                     required |-> 0, complete |-> 0, total |-> 0]
<1>1. computed \in {"COMPLETE", "PARTIAL", "FAILED"}
  BY AggregateTyped
<1>2. status \in {"COMPLETE", "PARTIAL", "FAILED"}
  <2> HIDE DEF computed
  <2> QED BY <1>1
<1>3. target \in 0 .. MaxDay
  <2>1. g \in 0 .. MaxDay /\ 0 \in 0 .. MaxDay
    BY CoverageAssumption DEF Days
  <2> HIDE DEF computed
  <2> QED BY <2>1
<1> HIDE DEF status, target
<1>4. fresh \in Row
  BY <1>2, <1>3, MonthsFinite DEF Row, TypeOK
<1>5. Cardinality(Stored(segs)) \in 0 .. Cardinality(Months)
  BY MonthsFinite DEF Stored
<1>6. RefreshedRow(d, segs, g, valid) = Counted(fresh, segs, Cardinality(Stored(segs)))
  BY DEF RefreshedRow, status, target
<1> HIDE DEF fresh
<1> QED BY <1>4, <1>5, <1>6, CountedTyped

LEMMA SyncedTyped ==
  ASSUME TypeOK, NEW d \in Datasets, rows[d] # None
  PROVE  SyncedRow(d) \in Row
<1> DEFINE status == IF Retains(d, segments[d], day) THEN "COMPLETE"
                     ELSE IF Aggregate(segments[d]) = "FAILED" THEN "FAILED" ELSE "PARTIAL"
           r == [rows[d] EXCEPT !.status = status]
<1>1. status \in {"COMPLETE", "PARTIAL", "FAILED"}
  OBVIOUS
<1>2. rows[d] \in Row
  BY DEF TypeOK
<1>3. SyncedRow(d) = Counted(r, segments[d], Cardinality(Required(day)))
  BY DEF SyncedRow, WithStatus
<1> HIDE DEF status
<1>4. r \in Row
  BY <1>1, <1>2 DEF Row
<1>5. Cardinality(Required(day)) \in 0 .. Cardinality(Months)
  BY RequiredCount DEF TypeOK
<1> HIDE DEF r
<1> QED BY <1>3, <1>4, <1>5, CountedTyped

-----------------------------------------------------------------------------
(* Every step keeps the types.                                             *)

\* A step that rewrites one aggregate, and may rewrite the months, kills
\* documents only.
LEMMA RowTyped ==
  ASSUME TypeInv, NEW d \in Datasets, NEW new \in Row,
         rows' = [rows EXCEPT ![d] = new], docs' \subseteq docs,
         segments' \in [Datasets -> MonthRows],
         restore' = restore \/ restore' = None,
         UNCHANGED <<day, policy, receipts, build, builds, tombstones>>
  PROVE  TypeInv'
<1>1. rows' \in [Datasets -> Row \union {None}]
  BY DEF TypeInv, TypeOK
<1> QED BY <1>1 DEF TypeInv, TypeOK, MonthRows

LEMMA RefreshTyped ==
  ASSUME TypeInv, NEW d \in Datasets, NEW t \in Days, NEW g \in Days, Refresh(d, t, g)
  PROVE  TypeInv'
<1> PICK valid \in BOOLEAN : RefreshWith(d, t, g, valid)
  BY DEF Refresh
<1> DEFINE segs == EvaluatedMonths(d, t)
           new == RefreshedRow(d, segs, g, valid)
<1>1. TypeOK /\ segments \in [Datasets -> MonthRows]
  BY DEF TypeInv, TypeOK, MonthRows
<1>2. segs \in MonthRows /\ Stored(segs) # {}
  BY <1>1, EvaluatedMonthsTyped DEF Stored
<1>3. segments' = [segments EXCEPT ![d] = segs] /\ rows' = [rows EXCEPT ![d] = RefreshedRow(d, segments'[d], g, valid)]
  BY DEF RefreshWith
<1> HIDE DEF segs
<1>4. segments'[d] = segs /\ segments' \in [Datasets -> MonthRows]
  BY <1>1, <1>2, <1>3
<1>5. new \in Row
  BY <1>1, <1>2, RefreshedTyped
<1>6. rows' = [rows EXCEPT ![d] = new]
  BY <1>3, <1>4
<1> HIDE DEF new
<1>7. /\ docs' \subseteq docs
      /\ UNCHANGED <<day, policy, receipts, build, builds, tombstones, restore>>
  BY DEF RefreshWith, Unbound
<1> QED BY <1>4, <1>5, <1>6, <1>7, RowTyped

LEMMA AggregateStepTyped ==
  ASSUME TypeInv, NEW d \in Datasets, rows[d] # None, SyncAggregate(d),
         restore' = restore \/ restore' = None,
         UNCHANGED <<day, policy, receipts, segments, build, builds, tombstones>>
  PROVE  TypeInv'
<1>1. CASE VerifyOnly(d)
  BY <1>1 DEF SyncAggregate, TypeInv, TypeOK
<1>2. CASE ~VerifyOnly(d)
  <2>1. rows' = [rows EXCEPT ![d] = SyncedRow(d)] /\ docs' \subseteq docs
    BY <1>2 DEF SyncAggregate, Unbound
  <2>2. TypeOK /\ segments' \in [Datasets -> MonthRows]
    BY DEF TypeInv, TypeOK, MonthRows
  <2>3. SyncedRow(d) \in Row
    BY <2>2, SyncedTyped
  <2> QED BY <2>1, <2>2, <2>3, RowTyped
<1> QED BY <1>1, <1>2

\* A planned month is a month of the calendar without a verdict.
LEMMA PlannedTyped ==
  ASSUME TypeInv, NEW d \in Datasets, NEW m \in Months, NEW e \in Days,
         segments' = [segments EXCEPT ![d][m] = Planned([month |-> m, end |-> e])]
  PROVE  segments' \in [Datasets -> [Months -> Segment \union {None}]]
<1>1. Planned([month |-> m, end |-> e]) \in Segment
  BY DEF Planned, Segment
<1> QED BY <1>1 DEF TypeInv, TypeOK

LEMMA StepTyped == TypeInv /\ [Next]_vars => TypeInv'
<1> SUFFICES ASSUME TypeInv, [Next]_vars PROVE TypeInv'
  OBVIOUS
<1> USE DEF TypeInv
<1>1. ASSUME NEW d \in Datasets, RefreshToday(d) PROVE TypeInv'
  <2>1. PICK t \in Days : Refresh(d, t, day)
    BY <1>1 DEF RefreshToday
  <2>2. day \in Days /\ t \in Days
    BY CoverageAssumption DEF TypeOK, Days
  <2> HIDE DEF TypeInv
  <2> QED BY <2>1, <2>2, RefreshTyped
<1>2. ASSUME NEW d \in Datasets, RefreshBuild(d) PROVE TypeInv'
  <2>1. build.cutoff \in Days
    BY <1>2 DEF RefreshBuild, TypeOK
  <2> HIDE DEF TypeInv
  <2> QED BY <1>2, <2>1, RefreshTyped DEF RefreshBuild
<1>3. ASSUME NEW d \in Datasets, Sync(d) PROVE TypeInv'
  <2> HIDE DEF TypeInv
  <2> QED BY <1>3, AggregateStepTyped DEF Sync
<1>4. ASSUME NEW d \in Datasets, Plan(d) PROVE TypeInv'
  <2>1. PICK t \in 1 .. day : \E s \in Required(t) :
          segments' = [segments EXCEPT ![d][s.month] = Planned(s)]
    BY <1>4 DEF Plan
  <2>2. PICK s \in Required(t) :
          segments' = [segments EXCEPT ![d][s.month] = Planned(s)]
    BY <2>1
  <2>3. t \in Days
    BY CoverageAssumption DEF TypeOK, Days
  <2>4. s.month \in Months /\ s.end \in Days
    BY <2>3, RequiredTyped
  <2>5. Planned(s) = Planned([month |-> s.month, end |-> s.end])
    BY DEF Planned
  <2>6. segments' \in [Datasets -> [Months -> Segment \union {None}]]
    <3> HIDE DEF TypeInv
    <3> QED BY <2>2, <2>4, <2>5, PlannedTyped
  <2> QED BY <1>4, <2>6 DEF Plan, TypeOK
<1>5. ASSUME NEW d \in Datasets, Record(d) PROVE TypeInv'
  <2>1. PICK t \in 1 .. day, r \in Runs, v \in Verdicts : \E s \in Required(t) :
          /\ receipts' = [receipts EXCEPT ![d][s.month][r] =
                            [end |-> s.end, policy |-> policy, verdict |-> v]]
          /\ UNCHANGED <<day, policy, segments, rows, build, builds, docs, tombstones, restore>>
    BY <1>5, Zenon DEF Record
  <2>2. PICK s \in Required(t) :
          receipts' = [receipts EXCEPT ![d][s.month][r] =
                         [end |-> s.end, policy |-> policy, verdict |-> v]]
    BY <2>1
  <2>3. t \in Days
    BY CoverageAssumption DEF TypeOK, Days
  <2>4. s.month \in Months /\ s.end \in Days
    BY <2>3, RequiredTyped
  <2> DEFINE c == [end |-> s.end, policy |-> policy, verdict |-> v]
  <2>5. c \in Receipt
    BY <2>4 DEF Receipt, TypeOK
  <2> HIDE DEF c
  <2>6. receipts' = [receipts EXCEPT ![d][s.month][r] = c]
    BY <2>2 DEF c
  <2>7. receipts' \in [Datasets -> [Months -> [Runs -> Receipt \union {None}]]]
    BY <2>4, <2>5, <2>6 DEF TypeOK
  <2> QED BY <1>5, <2>7 DEF Record, TypeOK
<1>6. ASSUME NEW d \in Datasets, RestorePlan(d) PROVE TypeInv'
  <2>1. PICK m \in Months, v \in 1 .. policy : \E r \in Recorded(d, m) :
          LET s == [month |-> m, end |-> receipts[d][m][r].end]
          IN /\ receipts[d][m][r].verdict \notin {"FAILED", "UNVERIFIED"}
             /\ segments' = Restored(v, d, m, Planned(s))
             /\ restore' = IF Evaluate(d, s, r) = "COMPLETE"
                           THEN [step |-> "seal", dataset |-> d, month |-> m, run |-> r,
                                 policy |-> v]
                           ELSE None
    BY <1>6, Zenon DEF RestorePlan
  <2>2. PICK r \in Recorded(d, m) :
          LET s == [month |-> m, end |-> receipts[d][m][r].end]
          IN /\ segments' = Restored(v, d, m, Planned(s))
             /\ restore' = IF Evaluate(d, s, r) = "COMPLETE"
                           THEN [step |-> "seal", dataset |-> d, month |-> m, run |-> r,
                                 policy |-> v]
                           ELSE None
    BY <2>1
  <2> DEFINE s == [month |-> m, end |-> receipts[d][m][r].end]
  <2>3. r \in Runs /\ receipts[d][m][r] # None
    BY DEF Recorded
  <2>4. receipts[d][m][r].end \in Days
    BY <2>3 DEF TypeOK, Receipt
  <2>5. v \in Policies
    BY CoverageAssumption DEF TypeOK, Policies
  <2>6. segments' \in [Datasets -> [Months -> Segment \union {None}]]
    <3>1. [segments EXCEPT ![d][m] = Planned(s)] \in [Datasets -> [Months -> Segment \union {None}]]
      <4>1. Planned(s) \in Segment
        BY <2>4 DEF Planned, Segment
      <4> HIDE DEF s
      <4> QED BY <4>1 DEF TypeOK
    <3>2. segments \in [Datasets -> [Months -> Segment \union {None}]]
      BY DEF TypeOK
    <3> QED BY <2>2, <3>1, <3>2 DEF Restored
  <2>7. restore' \in [step : {"seal", "sync"}, dataset : Datasets, month : Months,
                      run : Runs, policy : Policies] \union {None}
    <3> HIDE DEF TypeInv
    <3> QED BY <2>2, <2>3, <2>5
  <2> QED BY <1>6, <2>6, <2>7 DEF RestorePlan, TypeOK
<1>7. CASE RestoreSeal
  <2> DEFINE d == restore.dataset
             m == restore.month
             R == [step : {"seal", "sync"}, dataset : Datasets, month : Months, run : Runs,
                   policy : Policies]
             T == [Datasets -> [Months -> Segment \union {None}]]
             sealed == [segments[d][m] EXCEPT !.status = "COMPLETE", !.run = restore.run]
  <2>1. restore \in R
    BY <1>7 DEF RestoreSeal, TypeOK
  <2>2. d \in Datasets /\ m \in Months /\ restore.run \in Runs
    BY <2>1
  <2>3. segments \in T
    BY DEF TypeOK
  <2>4. CASE segments' = segments /\ restore' = None
    BY <1>7, <2>4 DEF RestoreSeal, TypeOK
  <2>5. CASE /\ restore.policy = policy => segments[d][m] # None
             /\ segments' = Restored(restore.policy, d, m, sealed)
             /\ restore' = [restore EXCEPT !.step = "sync"]
    <3>1. restore' \in R
      BY <2>1, <2>5
    <3>2. segments' \in T
      <4>1. CASE restore.policy # policy
        BY <2>3, <2>5, <4>1 DEF Restored
      <4>2. CASE restore.policy = policy
        <5>1. segments[d][m] \in Segment
          BY <2>2, <2>3, <2>5, <4>2
        <5>2. sealed \in Segment
          BY <2>2, <5>1 DEF Segment
        <5> HIDE DEF sealed, d, m
        <5>3. segments' = [segments EXCEPT ![d][m] = sealed]
          BY <2>5, <4>2 DEF Restored
        <5> QED BY <2>2, <2>3, <5>2, <5>3
      <4> QED BY <4>1, <4>2
    <3> QED BY <1>7, <3>1, <3>2 DEF RestoreSeal, TypeOK
  <2> QED BY <1>7, <2>4, <2>5 DEF RestoreSeal
<1>8. CASE RestoreSync
  <2>1. CASE rows[restore.dataset] = None
    BY <1>8, <2>1 DEF RestoreSync, TypeOK
  <2>2. CASE rows[restore.dataset] # None
    <3>1. restore.dataset \in Datasets
      BY <1>8 DEF RestoreSync, TypeOK
    <3> HIDE DEF TypeInv
    <3> QED BY <1>8, <2>2, <3>1, AggregateStepTyped DEF RestoreSync
  <2> QED BY <2>1, <2>2
<1>9. CASE StartBuild
  BY <1>9, CoverageAssumption DEF StartBuild, TypeOK
<1>10. CASE EndBuild
  BY <1>10 DEF EndBuild, TypeOK
<1>11. CASE NextDay
  BY <1>11, CoverageAssumption DEF NextDay, TypeOK, Days
<1>12. CASE Deploy
  BY <1>12, CoverageAssumption DEF Deploy, TypeOK, Policies
<1>13. ASSUME NEW ds \in (SUBSET Datasets) \ {{}}, Request(ds) PROVE TypeInv'
  <2> DEFINE x == [build |-> build.id, datasets |-> ds, proof |-> Proof(ds)]
  <2>1. x.build = build.id /\ x.datasets = ds
    OBVIOUS
  <2>2. build # None
    BY <1>13 DEF Request, Derivable, BoundBuild
  <2>3. docs' = docs \union {x}
    BY <1>13 DEF Request
  <2> HIDE DEF x
  <2>4. \A y \in docs' : y.build \in 1 .. builds /\ y.datasets \in (SUBSET Datasets) \ {{}}
    BY <2>1, <2>2, <2>3 DEF TypeOK
  <2> QED BY <1>13, <2>4 DEF Request, TypeOK
<1>14. ASSUME NEW x \in docs, Apply(x) PROVE TypeInv'
  <2>1. x.build \in 1 .. builds /\ x.datasets \in SUBSET Datasets
    BY DEF TypeOK
  <2>2. tombstones' \subseteq [build : 1 .. builds, datasets : SUBSET Datasets, policy : Policies]
    BY <1>14, <2>1 DEF Apply, TypeOK
  <2>3. ASSUME NEW d \in Datasets PROVE rows'[d] \in Row \union {None}
    <3>1. rows'[d] = IF d \in x.datasets THEN Promoted(rows[d]) ELSE rows[d]
      BY <1>14 DEF Apply
    <3>2. CASE d \in x.datasets
      <4>1. rows[d] \in Row
        BY <1>14, <3>2 DEF Apply, BindsLiveState, Derivable, CurrentRow, TypeOK
      <4>2. 0 \in 0 .. MaxDay
        BY CoverageAssumption
      <4> DEFINE done == [rows[d] EXCEPT !.status = "COMPLETE"]
      <4>3. done \in Row
        BY <4>1 DEF Row
      <4>4. Promoted(rows[d]) = [done EXCEPT !.candidate = 0]
        BY DEF Promoted
      <4> HIDE DEF done
      <4>5. Promoted(rows[d]) \in Row
        BY <4>2, <4>3, <4>4 DEF Row
      <4> QED BY <3>1, <3>2, <4>5
    <3>3. CASE d \notin x.datasets
      BY <3>1, <3>3 DEF TypeOK
    <3> QED BY <3>2, <3>3
  <2>4. rows' \in [Datasets -> Row \union {None}]
    BY <1>14, <2>3 DEF Apply
  <2> QED BY <1>14, <2>2, <2>4 DEF Apply, TypeOK
<1>15. ASSUME NEW x, ExpireDocument(x) PROVE TypeInv'
  BY <1>15 DEF ExpireDocument, TypeOK
<1>16. CASE UNCHANGED vars
  BY <1>16 DEF vars, TypeOK
<1> QED
  <2> HIDE DEF TypeInv
  <2> QED
    BY <1>1, <1>2, <1>3, <1>4, <1>5, <1>6, <1>7, <1>8, <1>9, <1>10, <1>11, <1>12, <1>13,
       <1>14, <1>15, <1>16
    DEF Next

LEMMA InitTyped == Init => TypeInv
<1> SUFFICES ASSUME Init PROVE TypeInv
  OBVIOUS
<1>1. 1 \in Days /\ 1 \in Policies /\ 0 \in 0 .. MaxBuild
  BY CoverageAssumption DEF Days, Policies
<1> QED BY <1>1 DEF Init, TypeInv, TypeOK

LEMMA AlwaysTyped == Spec => []TypeInv
  BY InitTyped, StepTyped, PTL DEF Spec

\* Every part of the ledger is well typed: whatever a refresh, sync, plan,
\* record, restore, apply or deployment stores is a row of its table, no month
\* lies beyond the calendar and no refresh leaves a row without a status.
THEOREM CoverageTypeOK == Spec => []TypeOK
<1>1. TypeInv => TypeOK
  BY DEF TypeInv
<1> QED BY <1>1, AlwaysTyped, PTL

-----------------------------------------------------------------------------
(* What a verification of the months covers.                               *)

\* DayCovered with the months as an argument.
CoveredBy(d, segs, x) ==
  \E m \in Months : /\ (m - 1) * MonthDays < x /\ segs[m] # None
                    /\ segs[m].run \in Recorded(d, m)
                    /\ LET c == receipts[d][m][segs[m].run]
                       IN c.end >= x /\ c.policy = policy /\ c.verdict = "COMPLETE"

\* verify_exact_coverage_complete at day t covers every day up to t: each day
\* lies in a required month, which is stored, and the receipt it selects ends
\* where the month, or the calendar, does.
LEMMA VerifiedCovers ==
  ASSUME NEW d, NEW segs, NEW t \in Days, Verified(d, segs, t), NEW x \in 1 .. t
  PROVE  CoveredBy(d, segs, x)
<1> DEFINE m == Month(x)
           s == [month |-> m, end |-> MonthEnd(m, t)]
<1>1. x \in Nat \ {0} /\ t \in Nat \ {0} /\ x <= t
  BY CoverageAssumption DEF Days
<1>2. m \in 1 .. Month(t) /\ (m - 1) * MonthDays < x /\ x <= m * MonthDays
  BY <1>1, MonthBounds, MonthMonotone
<1>3. m \in Months /\ MonthEnd(m, t) \in Days
  BY <1>2, RequiredMonths
<1>4. x <= MonthEnd(m, t)
  BY <1>1, <1>2 DEF MonthEnd
<1>5. s \in Required(t) /\ s.month = m /\ s.end = MonthEnd(m, t)
  BY <1>2 DEF Required
<1> HIDE DEF s
<1>6. PICK k \in Stored(segs) : s = [month |-> k, end |-> segs[k].end]
  BY <1>5 DEF Verified, InventoryExact
<1>7. k = m /\ segs[m] # None
  BY <1>5, <1>6 DEF Stored
<1>8. segs[m].run \in Recorded(d, m) /\ Evaluate(d, s, segs[m].run) = "COMPLETE"
  BY <1>5 DEF Verified, SelectedClose
<1> DEFINE c == receipts[d][m][segs[m].run]
<1>9. c.end = s.end /\ c.policy = policy /\ c.verdict = "COMPLETE"
  BY <1>5, <1>8 DEF Evaluate
<1>10. c.end >= x
  <2>1. MonthEnd(m, t) \in Int
    BY <1>3, CoverageAssumption DEF Days
  <2> HIDE DEF c, m
  <2> QED BY <1>1, <1>4, <1>5, <1>9, <2>1
<1> QED BY <1>2, <1>3, <1>7, <1>8, <1>9, <1>10 DEF CoveredBy

\* Only the consumption of a document makes a dataset COMPLETE.
LEMMA OnlyApplyPromotes ==
  ASSUME SignedInv, RestoreShaped, [Next]_vars, NEW d \in Datasets,
         ~WasComplete(d), WasComplete(d)'
  PROVE  \E x \in docs : Apply(x) /\ d \in x.datasets
<1>1. ASSUME NEW e \in Datasets, NEW new, rows' = [rows EXCEPT ![e] = new],
             new.status = "COMPLETE" => WasComplete(e)
      PROVE  FALSE
  <2>1. rows'[d] = IF d = e THEN new ELSE rows[d]
    BY <1>1 DEF SignedInv, RowsShaped
  <2> QED BY <1>1, <2>1 DEF WasComplete
<1>2. rows' # rows
  BY DEF WasComplete
<1>3. ASSUME NEW e \in Datasets, NEW t, NEW g, Refresh(e, t, g) PROVE FALSE
  <2> PICK valid \in BOOLEAN : RefreshWith(e, t, g, valid)
    BY <1>3 DEF Refresh
  <2> DEFINE new == RefreshedRow(e, segments'[e], g, valid)
  <2>1. rows' = [rows EXCEPT ![e] = new]
    BY DEF RefreshWith
  <2>2. new.status = "COMPLETE" => WasComplete(e)
    BY RefreshKeeps
  <2> HIDE DEF new
  <2> QED BY <1>1, <2>1, <2>2
<1>4. ASSUME NEW e \in Datasets, rows[e] # None, SyncAggregate(e) PROVE FALSE
  <2>1. IsRow(rows[e])
    BY <1>4 DEF SignedInv, RowsShaped
  <2>2. SyncedRow(e).status = "COMPLETE" => WasComplete(e)
    BY <2>1, SyncKeeps
  <2> QED BY <1>1, <1>2, <1>4, <2>2 DEF SyncAggregate
<1>5. ASSUME NEW e \in Datasets,
             RefreshToday(e) \/ RefreshBuild(e) \/ Sync(e) \/ Plan(e) \/ Record(e) \/ RestorePlan(e)
      PROVE  FALSE
  BY <1>2, <1>3, <1>4, <1>5
  DEF RefreshToday, RefreshBuild, Sync, Plan, Record, RestorePlan
<1>6. CASE RestoreSync
  BY <1>2, <1>4, <1>6 DEF RestoreSync, RestoreShaped
<1>7. ASSUME NEW x \in docs, Apply(x) PROVE d \in x.datasets
  <2>1. rows'[d] = IF d \in x.datasets THEN Promoted(rows[d]) ELSE rows[d]
    BY <1>7 DEF Apply
  <2> QED BY <2>1 DEF WasComplete
<1>8. ASSUME NEW ds, Request(ds) PROVE FALSE
  BY <1>2, <1>8 DEF Request
<1>9. ASSUME NEW x, ExpireDocument(x) PROVE FALSE
  BY <1>2, <1>9 DEF ExpireDocument
<1>10. CASE RestoreSeal \/ StartBuild \/ EndBuild \/ NextDay \/ Deploy \/ UNCHANGED vars
  BY <1>2, <1>10 DEF RestoreSeal, StartBuild, EndBuild, NextDay, Deploy, vars
<1> QED BY <1>5, <1>6, <1>7, <1>8, <1>9, <1>10 DEF Next

LEMMA PromotionCovers ==
  ASSUME TypeInv, SignedInv, RestoreShaped, [Next]_vars, NEW d \in Datasets,
         ~WasComplete(d), WasComplete(d)', NEW x \in 1 .. build.cutoff
  PROVE  DayCovered(d, x)
<1>1. PICK y \in docs : Apply(y) /\ d \in y.datasets
  BY OnlyApplyPromotes
<1>2. build # None /\ Verified(d, segments[d], build.cutoff)
  BY <1>1 DEF Apply, BindsLiveState, Derivable, BoundBuild
<1>3. build.cutoff \in Days
  BY <1>2 DEF TypeInv, TypeOK
<1>4. CoveredBy(d, segments[d], x)
  BY <1>2, <1>3, VerifiedCovers
<1> QED BY <1>4 DEF CoveredBy, DayCovered

\* When the consumption of a document makes a dataset COMPLETE, the receipts on
\* file at that moment cover every day up to the cutoff of the build it binds.
THEOREM CoveragePromotedIsCovered == Spec => PromotedIsCovered
<1>1. Init => SignedInv /\ RestoreShaped
  BY DEF Init, SignedInv, RowsShaped, CompleteIsSigned, WasComplete, RestoreShaped
<1>2. SignedInv /\ RestoreShaped /\ [Next]_vars => (SignedInv /\ RestoreShaped)'
  BY StepKeeps, RestoreKeeps
<1>3. TypeInv /\ SignedInv /\ RestoreShaped /\ [Next]_vars
        => [\A d \in Datasets :
              ~WasComplete(d) /\ WasComplete(d)' =>
                 \A x \in 1 .. build.cutoff : DayCovered(d, x)]_vars
  BY PromotionCovers
<1> QED BY <1>1, <1>2, <1>3, AlwaysTyped, PTL DEF Spec, PromotedIsCovered

\* A re-aggregation that leaves a dataset COMPLETE has verified it today,
\* whether or not it stored the row again.
LEMMA AggregateRetains ==
  ASSUME SignedInv, NEW d \in Datasets, rows[d] # None, SyncAggregate(d), WasComplete(d)'
  PROVE  Retains(d, segments[d], day) /\ rows'[d].policy = policy
<1>1. IsRow(rows[d])
  BY DEF SignedInv, RowsShaped
<1>2. IsRow(SyncedRow(d)) /\ SyncedRow(d).policy = rows[d].policy
  BY <1>1, SyncKeeps
<1>3. SyncedRow(d).status = "COMPLETE" => Retains(d, segments[d], day)
  <2> DEFINE status == IF Retains(d, segments[d], day) THEN "COMPLETE"
                       ELSE IF Aggregate(segments[d]) = "FAILED" THEN "FAILED" ELSE "PARTIAL"
             r == [rows[d] EXCEPT !.status = status]
             n == Cardinality(Required(day))
  <2>1. SyncedRow(d) = Counted(r, segments[d], n)
    BY DEF SyncedRow, WithStatus
  <2>2. status = "COMPLETE" => Retains(d, segments[d], day)
    OBVIOUS
  <2> HIDE DEF status, n
  <2>3. IsRow(r) /\ r.status = status
    BY <1>1, StatusRow
  <2> HIDE DEF r
  <2> QED BY <2>1, <2>2, <2>3, CountedRow
<1>4. SyncedRow(d).status = "COMPLETE" /\ rows'[d].policy = rows[d].policy
  <2>1. CASE VerifyOnly(d)
    BY <2>1 DEF VerifyOnly, SyncAggregate
  <2>2. CASE ~VerifyOnly(d)
    <3>1. rows'[d] = SyncedRow(d)
      BY <2>2 DEF SyncAggregate, SignedInv, RowsShaped
    <3> QED BY <1>2, <3>1 DEF WasComplete
  <2> QED BY <2>1, <2>2
<1> QED BY <1>3, <1>4 DEF Retains

\* The conclusion of RetainedIsCovered.
Evidenced(d, t) == rows'[d].policy = policy /\ \A x \in 1 .. t : DayCovered(d, x)'

LEMMA VerifiedEvidence ==
  ASSUME TypeInv, NEW d \in Datasets, rows'[d].policy = policy,
         NEW t \in Days, Verified(d, segments'[d], t), UNCHANGED <<receipts, policy>>
  PROVE  Evidenced(d, t)
<1>1. t \in Days
  OBVIOUS
<1>2. ASSUME NEW x \in 1 .. t PROVE DayCovered(d, x)'
  <2>1. CoveredBy(d, segments'[d], x)
    BY <1>1, VerifiedCovers
  <2> QED BY <2>1 DEF CoveredBy, DayCovered, Recorded
<1> QED BY <1>2 DEF Evidenced

LEMMA RefreshEvidence ==
  ASSUME TypeInv, SignedInv, NEW d \in Datasets, NEW t,
         NEW g \in Days, Refresh(d, t, g), WasComplete(d)'
  PROVE  Evidenced(d, g)
<1> PICK valid \in BOOLEAN : RefreshWith(d, t, g, valid)
  BY DEF Refresh
<1> DEFINE segs == segments'[d]
           computed == IF valid THEN Aggregate(segs) ELSE "FAILED"
           status == IF computed = "COMPLETE" /\ ~Retains(d, segs, g) THEN "PARTIAL"
                     ELSE computed
           target == IF computed = "COMPLETE" /\ ~WasComplete(d) THEN g ELSE 0
           fresh == [status |-> status, policy |-> policy, candidate |-> target,
                     required |-> 0, complete |-> 0, total |-> 0]
           new == Counted(fresh, segs, Cardinality(Stored(segs)))
<1>1. rows' = [rows EXCEPT ![d] = RefreshedRow(d, segs, g, valid)]
  BY DEF RefreshWith
<1>2. UNCHANGED <<receipts, policy>>
  BY DEF RefreshWith
<1>3. rows'[d] = RefreshedRow(d, segs, g, valid)
  BY <1>1 DEF SignedInv, RowsShaped
<1>4. RefreshedRow(d, segs, g, valid) = new
  BY DEF RefreshedRow
<1>5. status = "COMPLETE" => Retains(d, segs, g)
  OBVIOUS
<1>6. IsRow(fresh) /\ fresh.status = status /\ fresh.policy = policy
  <2> HIDE DEF status, target
  <2> QED BY DEF IsRow
<1>7. new.status = status /\ new.policy = policy
  <2> HIDE DEF fresh, segs
  <2> QED BY <1>6, CountedRow
<1> HIDE DEF new, status
<1>8. Verified(d, segments'[d], g) /\ rows'[d].policy = policy
  BY <1>3, <1>4, <1>5, <1>7 DEF WasComplete, Retains
<1> QED BY <1>2, <1>8, VerifiedEvidence

\* A refresh or a sync of a dataset, or the end of its restore, that leaves it
\* COMPLETE has found every day up to its evaluation date covered by receipts of
\* the current policy.
THEOREM CoverageRetainedIsCovered == Spec => RetainedIsCovered
<1>1. Init => SignedInv /\ RestoreShaped
  BY DEF Init, SignedInv, RowsShaped, CompleteIsSigned, WasComplete, RestoreShaped
<1>2. SignedInv /\ RestoreShaped /\ [Next]_vars => (SignedInv /\ RestoreShaped)'
  BY StepKeeps, RestoreKeeps
<1>3. ASSUME TypeInv, SignedInv, RestoreShaped, NEW d \in Datasets, WasComplete(d)'
      PROVE  /\ RefreshToday(d) \/ Sync(d) \/ (RestoreSync /\ restore.dataset = d) =>
                  Evidenced(d, day)
             /\ RefreshBuild(d) => Evidenced(d, build.cutoff)
  <2>2. RefreshBuild(d) => Evidenced(d, build.cutoff)
    <3> HAVE RefreshBuild(d)
    <3>1. build.cutoff \in Days
      BY <1>3 DEF RefreshBuild, TypeInv, TypeOK
    <3> QED BY <1>3, <3>1, RefreshEvidence DEF RefreshBuild
  <2>3. ASSUME rows[d] # None, SyncAggregate(d), UNCHANGED <<receipts, policy, segments>>
        PROVE  Evidenced(d, day)
    <3>1. Retains(d, segments[d], day) /\ rows'[d].policy = policy
      BY <1>3, <2>3, AggregateRetains
    <3>2. Verified(d, segments'[d], day) /\ day \in Days
      BY <1>3, <2>3, <3>1 DEF Retains, TypeInv, TypeOK
    <3> QED BY <1>3, <2>3, <3>1, <3>2, VerifiedEvidence
  <2>4. Sync(d) => Evidenced(d, day)
    BY <2>3 DEF Sync
  <2>5. RestoreSync /\ restore.dataset = d => Evidenced(d, day)
    <3> HAVE RestoreSync /\ restore.dataset = d
    <3>1. rows[d] = None => rows' = rows
      BY DEF RestoreSync
    <3>2. rows[d] # None
      BY <1>3, <3>1 DEF WasComplete
    <3> QED BY <2>3, <3>2 DEF RestoreSync
  <2>6. RefreshToday(d) => Evidenced(d, day)
    <3> HAVE RefreshToday(d)
    <3>1. day \in Days
      BY <1>3 DEF TypeInv, TypeOK
    <3> QED BY <1>3, <3>1, RefreshEvidence DEF RefreshToday
  <2> QED BY <2>2, <2>4, <2>5, <2>6
<1>4. TypeInv /\ SignedInv /\ RestoreShaped
        => [\A d \in Datasets : WasComplete(d)' =>
              /\ RefreshToday(d) \/ Sync(d) \/ (RestoreSync /\ restore.dataset = d) =>
                   rows'[d].policy = policy /\ \A x \in 1 .. day : DayCovered(d, x)'
              /\ RefreshBuild(d) =>
                   rows'[d].policy = policy
                   /\ \A x \in 1 .. build.cutoff : DayCovered(d, x)']_vars
  BY <1>3, Zenon DEF Evidenced
<1> QED BY <1>1, <1>2, <1>4, AlwaysTyped, PTL DEF Spec, RetainedIsCovered
=============================================================================
