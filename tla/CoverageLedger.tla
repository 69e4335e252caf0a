--------------------------- MODULE CoverageLedger ---------------------------
(***************************************************************************)
(* The collection-coverage ledger and its signed transitions               *)
(* (packages/data_plane/storage/coverage_ledger.py, coverage_ledger_io.py, *)
(* coverage_transition.py, scripts/restore_local_complete_from_receipt.py).*)
(*                                                                         *)
(* A dataset is due for every calendar month of its history, the last one  *)
(* up to today.  Receipts say what was collected for a month; an           *)
(* evaluation selects one receipt per month and stores the month's status; *)
(* the aggregate row of the dataset says COMPLETE only while every month   *)
(* is.  No evaluator may promote an aggregate: it leaves a candidate, and  *)
(* a signed document that binds the candidate, the inventory, the receipts *)
(* and one publication build is consumed once to make it COMPLETE.         *)
(*                                                                         *)
(* Data.  Days are numbered and a month has MonthDays of them.  A receipt  *)
(* is what its signature lets through: for which month and last day, under *)
(* which policy, and what it evaluates to.  Its run stands for its rank    *)
(* among the trusted receipts (rows, checked_at, run_id), so runs may be   *)
(* recorded in any order; recording a run again replaces its row.  The     *)
(* segment rows of a policy that is no longer current are read by no one.  *)
(***************************************************************************)
EXTENDS Integers, FiniteSets

CONSTANTS
  Datasets,   \* governed datasets with a calendar-month inventory
  MonthDays,  \* days of a month
  MaxDay,     \* bound on the calendar
  Runs,       \* collection runs
  Verdicts,   \* what receipts may say
  MaxPolicy,  \* bound on the policy versions ever deployed
  MaxBuild    \* bound on the publication builds ever validated

ASSUME CoverageAssumption ==
  /\ MonthDays \in Nat \ {0} /\ MaxDay \in Nat \ {0}
  /\ MaxPolicy \in Nat \ {0} /\ MaxBuild \in Nat
  /\ Runs \subseteq Nat \ {0} /\ IsFiniteSet(Runs) /\ IsFiniteSet(Datasets)
  /\ Verdicts \subseteq {"COMPLETE", "PARTIAL", "FAILED", "UNVERIFIED"}

VARIABLES
  day,        \* the UTC date
  policy,     \* the coverage policy version of the deployed contracts
  receipts,   \* dataset, month, run -> receipt, or None
  segments,   \* dataset, month -> coverage_segments row of the policy, or None
  rows,       \* dataset -> dataset_coverage row, or None
  build,      \* the active VALIDATING publication, or None
  builds,     \* builds so far
  docs,       \* signed documents that still bind the stored rows
  tombstones, \* consumed transitions
  restore     \* a running restore_local_complete_from_receipt, or None

vars == <<day, policy, receipts, segments, rows, build, builds, docs,
          tombstones, restore>>

None == [none |-> TRUE]
Days == 1..MaxDay
Month(x) == (x + MonthDays - 1) \div MonthDays
Months == 1..Month(MaxDay)
Policies == 1..MaxPolicy

Receipt == [end : Days, policy : Policies, verdict : Verdicts]
Segment == [end : Days, status : {"UNKNOWN", "COMPLETE", "PARTIAL", "FAILED"},
            run : Runs \union {0}]
Row == [status : {"COMPLETE", "PARTIAL", "FAILED"}, policy : Policies,
        candidate : 0..MaxDay, required : 0..Cardinality(Months),
        complete : 0..Cardinality(Months), total : 0..Cardinality(Months)]

----------------------------------------------------------------------------
(* Evaluation of receipts. *)

\* plan_required_segments: the months up to day t, the last one cut there.
MonthEnd(m, t) == IF m * MonthDays < t THEN m * MonthDays ELSE t
Required(t) == {[month |-> m, end |-> MonthEnd(m, t)] : m \in 1..Month(t)}

Recorded(d, m) == {r \in Runs : receipts[d][m][r] # None}

\* The receipts of exactly this month and last day.
Indexed(d, s) == {r \in Recorded(d, s.month) : receipts[d][s.month][r].end = s.end}

\* A receipt with a verified closure outranks one without.
Outranks(d, m, r, q) ==
  LET trusted(x) == receipts[d][m][x].verdict # "UNVERIFIED"
  IN IF trusted(r) = trusted(q) THEN r >= q ELSE trusted(r)

Best(d, s) == {r \in Indexed(d, s) : \A q \in Indexed(d, s) : Outranks(d, s.month, r, q)}

\* _evaluate_prepared_segment: the closure must bind this scope and the
\* current policy; then the receipt's own figures decide.
Evaluate(d, s, r) ==
  LET c == receipts[d][s.month][r]
  IN IF c.verdict = "UNVERIFIED" \/ c.end # s.end \/ c.policy # policy
     THEN "PARTIAL" ELSE c.verdict

Eligible(d, s) == {r \in Indexed(d, s) : Evaluate(d, s, r) = "COMPLETE"}

\* The row a refresh stores for a required month: the best receipt's verdict,
\* unless the month was COMPLETE and an eligible receipt remains (sticky).
Evaluated(d, s) ==
  LET before == segments[d][s.month]
      sticky == before # None /\ before.status = "COMPLETE" /\ Eligible(d, s) # {}
      best == Best(d, s)
      top == CHOOSE r \in best : TRUE
      row(status, r) == [end |-> s.end, status |-> status, run |-> r]
  IN IF best = {} THEN row("PARTIAL", 0)
     ELSE IF Evaluate(d, s, top) # "COMPLETE" /\ sticky
     THEN row("COMPLETE", CHOOSE r \in Eligible(d, s) : \A q \in Eligible(d, s) : r >= q)
     ELSE row(Evaluate(d, s, top), top)

----------------------------------------------------------------------------
(* Exact inventory, aggregates and candidates. *)

Stored(segs) == {m \in Months : segs[m] # None}
InStatus(segs, st) == {m \in Stored(segs) : segs[m].status = st}

\* compare_exact_coverage_inventory: the stored months are the required ones.
InventoryExact(segs, t) ==
  {[month |-> m, end |-> segs[m].end] : m \in Stored(segs)} = Required(t)

\* The receipt each month selects is there and still closes.
SelectedClose(d, segs, t) ==
  \A s \in Required(t) :
     /\ segs[s.month].status = "COMPLETE"
     /\ segs[s.month].run \in Recorded(d, s.month)
     /\ Evaluate(d, s, segs[s.month].run) = "COMPLETE"

\* The mutant lets the stored months define the inventory.
VerifiedAsStored(d, segs, t) ==
  \A m \in Stored(segs) :
     LET s == [month |-> m, end |-> segs[m].end]
     IN /\ segs[m].status = "COMPLETE" /\ segs[m].run \in Recorded(d, m)
        /\ Evaluate(d, s, segs[m].run) = "COMPLETE"

\* verify_exact_coverage_complete.
Verified(d, segs, t) == InventoryExact(segs, t) /\ SelectedClose(d, segs, t)

\* aggregate_status_from_segment_counts.
Aggregate(segs) ==
  IF Stored(segs) = {} THEN "UNKNOWN"
  ELSE IF InStatus(segs, "FAILED") # {} THEN "FAILED"
  ELSE IF InStatus(segs, "COMPLETE") = Stored(segs) THEN "COMPLETE" ELSE "PARTIAL"

Counted(row, segs, n) ==
  [row EXCEPT !.required = n, !.complete = Cardinality(InStatus(segs, "COMPLETE")),
              !.total = Cardinality(Stored(segs))]

WasComplete(d) == rows[d] # None /\ rows[d].status = "COMPLETE"

\* The mutant forgets that the aggregate has to be COMPLETE already.
RetainsAnyPrior(d, segs, t) ==
  rows[d] # None /\ rows[d].policy = policy /\ Verified(d, segs, t)

\* An evaluator may only keep a COMPLETE, of the current policy, that is
\* still verified at day t.
Retains(d, segs, t) ==
  WasComplete(d) /\ rows[d].policy = policy /\ Verified(d, segs, t)

----------------------------------------------------------------------------
(* Writers of segments and aggregates. *)

\* Rewriting a row changes its evaluated_at: documents that bind it die.
Unbound(d) == {x \in docs : d \notin x.datasets}

EvaluatedMonths(d, t) ==
  [m \in Months |-> IF m \in 1..Month(t) THEN Evaluated(d, [month |-> m, end |-> MonthEnd(m, t)])
                                         ELSE None]

\* The aggregate of the evaluated months after _apply_refresh_complete_gate.
RefreshedRow(d, segs, g, valid) ==
  LET computed == IF valid THEN Aggregate(segs) ELSE "FAILED"
      status == IF computed = "COMPLETE" /\ ~Retains(d, segs, g) THEN "PARTIAL" ELSE computed
      target == IF computed = "COMPLETE" /\ ~WasComplete(d) THEN g ELSE 0
      fresh == [status |-> status, policy |-> policy, candidate |-> target,
                required |-> 0, complete |-> 0, total |-> 0]
  IN Counted(fresh, segs, Cardinality(Stored(segs)))

\* refresh_coverage_ledger up to day t, the gate at day g; the validation
\* checks it runs first pass or not (FAILED, STALE and UNKNOWN, which no reader
\* tells apart, are all "FAILED" here).
RefreshWith(d, t, g, valid) ==
  /\ segments' = [segments EXCEPT ![d] = EvaluatedMonths(d, t)]
  /\ rows' = [rows EXCEPT ![d] = RefreshedRow(d, segments'[d], g, valid)]
  /\ docs' = Unbound(d)
  /\ UNCHANGED <<day, policy, receipts, build, builds, tombstones, restore>>

Refresh(d, t, g) == \E valid \in BOOLEAN : RefreshWith(d, t, g, valid)

\* scripts/refresh_coverage_ledger.py, with any --today, past or future; the
\* gate goes by the clock.
RefreshToday(d) == \E t \in Days : Refresh(d, t, day)

\* The refresh of the READY gate, at the build's own cutoff.
RefreshBuild(d) == build # None /\ Refresh(d, build.cutoff, build.cutoff)

WithStatus(d, status) ==
  Counted([rows[d] EXCEPT !.status = status], segments[d], Cardinality(Required(day)))

\* The mutant stores what the months say, COMPLETE aside.
SyncedAsDerived(d) ==
  LET derived == Aggregate(segments[d])
  IN WithStatus(d, IF Retains(d, segments[d], day) THEN "COMPLETE"
                   ELSE IF derived = "COMPLETE" THEN "PARTIAL" ELSE derived)

\* sync_dataset_coverage_from_segments: the aggregate from the stored months.
SyncedRow(d) ==
  WithStatus(d, IF Retains(d, segments[d], day) THEN "COMPLETE"
                ELSE IF Aggregate(segments[d]) = "FAILED" THEN "FAILED" ELSE "PARTIAL")

\* verify_only: an unblocked verdict with the same counts is not written.
VerifyOnly(d) ==
  /\ SyncedRow(d).status = "COMPLETE"
  /\ SyncedRow(d).complete = rows[d].complete /\ SyncedRow(d).total = rows[d].total

SyncAggregate(d) ==
  IF VerifyOnly(d) THEN UNCHANGED <<rows, docs>>
  ELSE rows' = [rows EXCEPT ![d] = SyncedRow(d)] /\ docs' = Unbound(d)

Sync(d) ==
  /\ rows[d] # None
  /\ SyncAggregate(d)
  /\ UNCHANGED <<day, policy, receipts, segments, build, builds, tombstones, restore>>

----------------------------------------------------------------------------
(* Collection. *)

Planned(s) == [end |-> s.end, status |-> "UNKNOWN", run |-> 0]

\* record_required_segments, as a collection job calls it.
Plan(d) ==
  \E t \in 1..day : \E s \in Required(t) :
     /\ segments' = [segments EXCEPT ![d][s.month] = Planned(s)]
     /\ UNCHANGED <<day, policy, receipts, rows, build, builds, docs, tombstones, restore>>

\* record_collection_receipt.
Record(d) ==
  \E t \in 1..day, r \in Runs, v \in Verdicts : \E s \in Required(t) :
     /\ receipts' = [receipts EXCEPT ![d][s.month][r] =
                       [end |-> s.end, policy |-> policy, verdict |-> v]]
     /\ UNCHANGED <<day, policy, segments, rows, build, builds, docs, tombstones, restore>>

\* The rows of the current policy when a restore under policy v stores a row.
Restored(v, d, m, row) == IF v = policy THEN [segments EXCEPT ![d][m] = row] ELSE segments

\* restore_local_complete_from_receipt.py takes the receipt of a month that was
\* checked last, whatever its rank for an evaluation, plans the month as that
\* receipt has it, under the --policy-version it was given (an old one by
\* default), and commits.
RestorePlan(d) ==
  /\ restore = None
  /\ \E m \in Months, v \in 1..policy : \E r \in Recorded(d, m) :
       LET s == [month |-> m, end |-> receipts[d][m][r].end]
       IN /\ receipts[d][m][r].verdict \notin {"FAILED", "UNVERIFIED"}
          /\ segments' = Restored(v, d, m, Planned(s))
          /\ restore' = IF Evaluate(d, s, r) = "COMPLETE"
                        THEN [step |-> "seal", dataset |-> d, month |-> m, run |-> r,
                              policy |-> v]
                        ELSE None
  /\ UNCHANGED <<day, policy, receipts, rows, build, builds, docs, tombstones>>

\* Its second commit names the month and the policy only, whatever row is there
\* by now; with none there it raises.
RestoreSeal ==
  /\ restore # None /\ restore.step = "seal"
  /\ LET d == restore.dataset
         m == restore.month
     IN \/ /\ restore.policy = policy => segments[d][m] # None
           /\ segments' = Restored(restore.policy, d, m,
                 [segments[d][m] EXCEPT !.status = "COMPLETE", !.run = restore.run])
           /\ restore' = [restore EXCEPT !.step = "sync"]
        \/ /\ restore.policy = policy => segments[d][m] = None
           /\ segments' = segments /\ restore' = None
  /\ UNCHANGED <<day, policy, receipts, rows, build, builds, docs, tombstones>>

\* Its third transaction re-aggregates the dataset.
RestoreSync ==
  /\ restore # None /\ restore.step = "sync"
  /\ IF rows[restore.dataset] = None THEN UNCHANGED <<rows, docs>>
     ELSE SyncAggregate(restore.dataset)
  /\ restore' = None
  /\ UNCHANGED <<day, policy, receipts, segments, build, builds, tombstones>>

----------------------------------------------------------------------------
(* Publication builds and signed transitions. *)

StartBuild ==
  /\ build = None /\ builds < MaxBuild
  /\ build' = [id |-> builds + 1, cutoff |-> day, policy |-> policy]
  /\ builds' = builds + 1
  /\ UNCHANGED <<day, policy, receipts, segments, rows, docs, tombstones, restore>>

\* The publication of the build is committed READY, rejected or given up, at
\* any moment: what publications do is the business of ReadyPublication.
EndBuild ==
  /\ build # None
  /\ build' = None
  /\ UNCHANGED <<day, policy, receipts, segments, rows, builds, docs, tombstones, restore>>

\* _require_computed_complete_candidate: the row is what the build's refresh
\* stored, with every required month COMPLETE.
ComputedCandidate(d) ==
  /\ rows[d].candidate = build.cutoff /\ rows[d].status = "PARTIAL"
  /\ rows[d].required = Cardinality(Required(build.cutoff))
  /\ rows[d].complete = rows[d].required /\ rows[d].total = rows[d].required

\* _publication_binding: the build is the VALIDATING one, of this policy.
BoundBuild == build # None /\ build.policy = policy

\* _assert_current_policy_row.
CurrentRow(d) == rows[d] # None /\ rows[d].policy = policy

\* _derive_transition_body accepts.
Derivable(ds) ==
  /\ BoundBuild
  /\ \A d \in ds : /\ CurrentRow(d)
                   /\ Verified(d, segments[d], build.cutoff)
                   /\ ComputedCandidate(d)

\* The selected receipts the document binds.
Proof(ds) ==
  [d \in ds |-> [m \in 1..Month(build.cutoff) |->
                   [run |-> segments[d][m].run,
                    receipt |-> receipts[d][m][segments[d][m].run]]]]

\* build_coverage_transition_request, signed by the authority.
Request(ds) ==
  /\ Derivable(ds)
  /\ docs' = docs \union {[build |-> build.id, datasets |-> ds, proof |-> Proof(ds)]}
  /\ UNCHANGED <<day, policy, receipts, segments, rows, build, builds, tombstones, restore>>

\* The authorization's own lifetime ends.
ExpireDocument(x) ==
  /\ docs' = docs \ {x}
  /\ UNCHANGED <<day, policy, receipts, segments, rows, build, builds, tombstones, restore>>

Consumed(x) == \E t \in tombstones : t.build = x.build /\ t.datasets = x.datasets

\* The mutant trusts the signature without deriving the body again.
SignatureOnly(x) == build # None /\ build.id = x.build

\* apply_signed_coverage_transition derives the body from the live state.  (It
\* also compares a digest of the whole database file, which is left out: more
\* is accepted here than there.)
BindsLiveState(x) ==
  /\ Derivable(x.datasets) /\ build.id = x.build
  /\ x.proof = Proof(x.datasets)

Promoted(row) == [row EXCEPT !.status = "COMPLETE", !.candidate = 0]

Apply(x) ==
  /\ ~Consumed(x)
  /\ BindsLiveState(x)
  /\ rows' = [d \in Datasets |-> IF d \in x.datasets THEN Promoted(rows[d]) ELSE rows[d]]
  /\ docs' = {y \in docs : y.datasets \intersect x.datasets = {}}
  /\ tombstones' = tombstones \union
       {[build |-> x.build, datasets |-> x.datasets, policy |-> policy]}
  /\ UNCHANGED <<day, policy, receipts, segments, build, builds, restore>>

----------------------------------------------------------------------------
(* The world. *)

NextDay ==
  /\ day < MaxDay /\ day' = day + 1
  /\ UNCHANGED <<policy, receipts, segments, rows, build, builds, docs, tombstones, restore>>

\* A deployment changes the contracts: rows of the old policy are no longer
\* the current ones.
Deploy ==
  /\ policy < MaxPolicy /\ policy' = policy + 1
  /\ segments' = [d \in Datasets |-> [m \in Months |-> None]]
  /\ UNCHANGED <<day, receipts, rows, build, builds, docs, tombstones, restore>>

Init ==
  /\ day = 1 /\ policy = 1
  /\ receipts = [d \in Datasets |-> [m \in Months |-> [r \in Runs |-> None]]]
  /\ segments = [d \in Datasets |-> [m \in Months |-> None]]
  /\ rows = [d \in Datasets |-> None]
  /\ build = None /\ builds = 0 /\ docs = {} /\ tombstones = {} /\ restore = None

Next ==
  \/ \E d \in Datasets : \/ RefreshToday(d) \/ RefreshBuild(d) \/ Sync(d) \/ Plan(d)
                         \/ Record(d) \/ RestorePlan(d)
  \/ RestoreSeal \/ RestoreSync \/ StartBuild \/ EndBuild \/ NextDay \/ Deploy
  \/ \E ds \in (SUBSET Datasets) \ {{}} : Request(ds)
  \/ \E x \in docs : Apply(x) \/ ExpireDocument(x)

Spec == Init /\ [][Next]_vars

----------------------------------------------------------------------------
(* Properties. *)

\* Every part of the ledger is well typed: in particular no evaluator stores
\* a month beyond the calendar or a row without a status.
TypeOK ==
  /\ day \in Days /\ policy \in Policies
  /\ receipts \in [Datasets -> [Months -> [Runs -> Receipt \union {None}]]]
  /\ segments \in [Datasets -> [Months -> Segment \union {None}]]
  /\ rows \in [Datasets -> Row \union {None}]
  /\ build \in [id : 1..MaxBuild, cutoff : Days, policy : Policies] \union {None}
  /\ builds \in 0..MaxBuild
  /\ \A x \in docs : x.build \in 1..builds /\ x.datasets \in (SUBSET Datasets) \ {{}}
  /\ tombstones \subseteq [build : 1..builds, datasets : SUBSET Datasets, policy : Policies]
  /\ restore \in [step : {"seal", "sync"}, dataset : Datasets, month : Months,
                  run : Runs, policy : Policies] \union {None}

\* A dataset is COMPLETE only if a signed transition under the row's policy
\* was consumed for it: no refresh, sync, plan or restore, in any order and
\* across days and deployments, mints COMPLETE (the docstring of
\* refresh_coverage_ledger).
CompleteIsSigned ==
  \A d \in Datasets : WasComplete(d) =>
     \E t \in tombstones : d \in t.datasets /\ t.policy = rows[d].policy

\* Day x of the history is covered by a month whose selected receipt is
\* there, reaches x and proves a complete collection under the policy.
DayCovered(d, x) ==
  \E m \in Months : /\ (m - 1) * MonthDays < x /\ segments[d][m] # None
                    /\ segments[d][m].run \in Recorded(d, m)
                    /\ LET c == receipts[d][m][segments[d][m].run]
                       IN c.end >= x /\ c.policy = policy /\ c.verdict = "COMPLETE"

\* When a document makes a dataset COMPLETE, every day up to the build's
\* cutoff is covered at that moment: by the receipts as they are, not as they
\* were when the document was signed.
PromotedIsCovered ==
  [][\A d \in Datasets :
       ~WasComplete(d) /\ WasComplete(d)' =>
          \A x \in 1..build.cutoff : DayCovered(d, x)]_vars

\* A refresh or sync of a dataset, or the end of its restore, that leaves it
\* COMPLETE has found every day up to its evaluation date covered under the
\* current policy: up to today, or up to the cutoff for the build's refresh.
RetainedIsCovered ==
  [][\A d \in Datasets : WasComplete(d)' =>
       /\ RefreshToday(d) \/ Sync(d) \/ (RestoreSync /\ restore.dataset = d) =>
            rows'[d].policy = policy /\ \A x \in 1..day : DayCovered(d, x)'
       /\ RefreshBuild(d) =>
            rows'[d].policy = policy /\ \A x \in 1..build.cutoff : DayCovered(d, x)']_vars
=============================================================================
