------------------------- MODULE BudgetLedgerProofs -------------------------
(***************************************************************************)
(* Machine-checked proofs about BudgetLedger, for every set of keys, runs, *)
(* digests, owners and counters, every cap and every bound.                *)
(***************************************************************************)
EXTENDS BudgetLedger, FiniteSumsProofs

-----------------------------------------------------------------------------
(* Types *)

\* Adding and subtracting counters stays in the naturals.
LEMMA CounterTypes ==
    ASSUME NEW a \in Amounts, NEW b \in Amounts
    PROVE  Plus(a, b) \in Amounts /\ Minus(a, b) \in Amounts
BY DEF Amounts, Plus, Minus

\* Closing leases keeps them leases.
LEMMA CloseLeasesType ==
    ASSUME NEW leases \in [LeaseId -> Lease \cup {Null}], NEW L, NEW t \in Nat
    PROVE  CloseLeases(leases, L, t) \in [LeaseId -> Lease \cup {Null}]
BY DEF CloseLeases, Lease

\* A reservation charged at its maximum is a reservation.
LEMMA ChargedType ==
    ASSUME NEW r \in Reservation
    PROVE  ChargedAtMaximum(r) \in Reservation
BY DEF ChargedAtMaximum, Reservation, Settlement

\* The amounts of a set of reservations add up to counters.
LEMMA TotalType ==
    ASSUME NEW s \in LedgerState, NEW K \in SUBSET Key,
           \A k \in K : s.reservations[k] # Null
    PROVE  [c \in Counter |-> SumKeys([k \in Key |-> IF k \in K
                                THEN s.reservations[k].amounts[c] ELSE 0])] \in Amounts
<1>1. ASSUME NEW c \in Counter
      PROVE  [k \in Key |-> IF k \in K THEN s.reservations[k].amounts[c] ELSE 0]
                \in [Key -> Nat]
  BY DEF LedgerState, Reservation, Amounts
<1>2. ASSUME NEW c \in Counter
      PROVE  SumKeys([k \in Key |-> IF k \in K THEN s.reservations[k].amounts[c] ELSE 0])
                \in Nat
  BY <1>1, FiniteAssumption, SumType DEF SumKeys
<1>3. QED BY <1>2 DEF Amounts

\* recoverExpired yields a ledger.
LEMMA RecoverType ==
    ASSUME NEW s \in LedgerState, NEW t \in Nat
    PROVE  recoverExpired(s, t) \in LedgerState
<1> DEFINE due == ExpiredKeys(s, t)
           charged == {k \in due : s.reservations[k].started}
           total(K, c) == SumKeys([k \in Key |-> IF k \in K THEN s.reservations[k].amounts[c]
                                                           ELSE 0])
           q == recoverExpired(s, t)
<1>1. due \subseteq Key /\ charged \subseteq Key /\ \A k \in due : s.reservations[k] # Null
  BY DEF ExpiredKeys, HasStatus
<1>2. [c \in Counter |-> total(due, c)] \in Amounts
  BY <1>1, TotalType
<1>3. [c \in Counter |-> total(charged, c)] \in Amounts
  BY <1>1, TotalType
<1>4. s.used \in Amounts /\ s.reserved \in Amounts /\ s.leases \in [LeaseId -> Lease \cup {Null}]
  BY DEF LedgerState
<1>5. /\ Minus(s.reserved, [c \in Counter |-> total(due, c)]) \in Amounts
      /\ Plus(s.used, [c \in Counter |-> total(charged, c)]) \in Amounts
  BY <1>2, <1>3, <1>4, CounterTypes
<1>6. CloseLeases(s.leases, ExpiredLeases(s, t), t) \in [LeaseId -> Lease \cup {Null}]
  BY <1>4, CloseLeasesType
<1>7. [k \in Key |-> IF k \in charged THEN ChargedAtMaximum(s.reservations[k])
                     ELSE IF k \in due THEN [s.reservations[k] EXCEPT !.status = "released"]
                     ELSE s.reservations[k]] \in [Key -> Reservation \cup {Null}]
  <2>1. ASSUME NEW k \in due
        PROVE  /\ s.reservations[k] \in Reservation
               /\ ChargedAtMaximum(s.reservations[k]) \in Reservation
               /\ [s.reservations[k] EXCEPT !.status = "released"] \in Reservation
    <3>1. s.reservations[k] \in Reservation
      BY <1>1 DEF LedgerState
    <3>2. ChargedAtMaximum(s.reservations[k]) \in Reservation
      BY <3>1, ChargedType
    <3>3. [s.reservations[k] EXCEPT !.status = "released"] \in Reservation
      BY <3>1 DEF Reservation
    <3>4. QED BY <3>1, <3>2, <3>3
  <2>2. \A k \in Key : s.reservations[k] \in Reservation \cup {Null}
    BY DEF LedgerState
  <2>3. QED BY <2>1, <2>2
<1>8. {[kind |-> "uncertain_provider_charge", run |-> s.reservations[k].lease_id]
          : k \in charged} \subseteq Audit
  BY <1>1 DEF LedgerState, Reservation, Audit
<1> HIDE DEF due, charged
<1>9. QED BY <1>5, <1>6, <1>7, <1>8 DEF recoverExpired, LedgerState, due, charged

\* The transitions that settle or give back one reservation yield ledgers.
LEMMA ChargeType ==
    ASSUME NEW s \in LedgerState, NEW t \in Nat, NEW k \in Key, s.reservations[k] # Null
    PROVE  chargeUncertainReservation(s, k, t) \in LedgerState
<1> DEFINE r == s.reservations[k]
<1>1. r \in Reservation /\ r.amounts \in Amounts /\ r.lease_id \in LeaseId
  BY DEF LedgerState, Reservation
<1>2. s.used \in Amounts /\ s.reserved \in Amounts /\ s.leases \in [LeaseId -> Lease \cup {Null}]
  BY DEF LedgerState
<1>3. Minus(s.reserved, r.amounts) \in Amounts /\ Plus(s.used, r.amounts) \in Amounts
  BY <1>1, <1>2, CounterTypes
<1>4. CloseLeases(s.leases, {r.lease_id}, t) \in [LeaseId -> Lease \cup {Null}]
  BY <1>2, CloseLeasesType
<1>5. ChargedAtMaximum(r) \in Reservation
  BY <1>1, ChargedType
<1>6. [kind |-> "uncertain_provider_charge", run |-> r.lease_id] \in Audit
  BY <1>1 DEF Audit
<1>7. QED BY <1>3, <1>4, <1>5, <1>6 DEF chargeUncertainReservation, LedgerState

\* Giving a reservation back yields a ledger.
LEMMA ReleaseType ==
    ASSUME NEW s \in LedgerState, NEW t \in Nat, NEW k \in Key, s.reservations[k] # Null
    PROVE  ReleaseReservation(s, k, t) \in LedgerState
<1> DEFINE r == s.reservations[k]
<1>1. r \in Reservation /\ r.amounts \in Amounts /\ r.lease_id \in LeaseId
  BY DEF LedgerState, Reservation
<1>2. s.reserved \in Amounts /\ s.leases \in [LeaseId -> Lease \cup {Null}]
  BY DEF LedgerState
<1>3. Minus(s.reserved, r.amounts) \in Amounts
  BY <1>1, <1>2, CounterTypes
<1>4. CloseLeases(s.leases, {r.lease_id}, t) \in [LeaseId -> Lease \cup {Null}]
  BY <1>2, CloseLeasesType
<1>5. [r EXCEPT !.status = "released"] \in Reservation
  BY <1>1 DEF Reservation
<1>6. QED BY <1>3, <1>4, <1>5 DEF ReleaseReservation, LedgerState

\* A reservation settled exactly is a reservation.
LEMMA ExactlyType ==
    ASSUME NEW r \in Reservation, NEW actual \in Amounts, NEW costKnown \in BOOLEAN,
           NEW hasResult \in BOOLEAN
    PROVE  ExactlySettled(r, actual, costKnown, hasResult) \in Reservation
<1> DEFINE st == [usage_source |-> IF costKnown THEN "provider"
                                   ELSE "provider_tokens_estimated_cost",
                  actual_cost_known |-> costKnown]
           fe == IF exceedsReserved(r.amounts, actual) THEN "actual_exceeds_reserved" ELSE Null
<1>1. st \in Settlement
  BY DEF Settlement
<1>2. fe \in {Null, "actual_exceeds_reserved", "provider_usage_uncertain"}
  OBVIOUS
<1>3. ExactlySettled(r, actual, costKnown, hasResult) =
        [r EXCEPT !.status = "reconciled", !.actual = actual, !.settlement = st,
                  !.finalize_error = fe, !.cached = hasResult, !.consumed = TRUE,
                  !.secret = FALSE]
  BY DEF ExactlySettled
<1> HIDE DEF st, fe
<1>4. QED BY <1>1, <1>2, <1>3 DEF Reservation

\* An exact settlement yields a ledger.
LEMMA ReconcileType ==
    ASSUME NEW s \in LedgerState, NEW t \in Nat, NEW k \in Key, s.reservations[k] # Null,
           NEW actual \in Amounts, NEW costKnown \in BOOLEAN, NEW hasResult \in BOOLEAN
    PROVE  ReconcileExactly(s, k, actual, costKnown, hasResult, t) \in LedgerState
<1> DEFINE r == s.reservations[k]
           over == exceedsReserved(r.amounts, actual)
<1>1. r \in Reservation /\ r.amounts \in Amounts /\ r.lease_id \in LeaseId
  BY DEF LedgerState, Reservation
<1>2. /\ s.used \in Amounts /\ s.reserved \in Amounts
      /\ s.leases \in [LeaseId -> Lease \cup {Null}]
  BY DEF LedgerState
<1>3. Minus(s.reserved, r.amounts) \in Amounts /\ Plus(s.used, actual) \in Amounts
  BY <1>1, <1>2, CounterTypes
<1>4. CloseLeases(s.leases, {r.lease_id}, t) \in [LeaseId -> Lease \cup {Null}]
  BY <1>2, CloseLeasesType
<1>5. ExactlySettled(r, actual, costKnown, hasResult) \in Reservation
  BY <1>1, ExactlyType
<1>6. (IF over THEN {[kind |-> "actual_exceeds_reserved", run |-> r.lease_id]} ELSE {})
        \subseteq Audit
  BY <1>1 DEF Audit
<1>7. over \in BOOLEAN
  BY DEF exceedsReserved
<1>8. QED BY <1>3, <1>4, <1>5, <1>6, <1>7 DEF ReconcileExactly, LedgerState

\* A paper settlement yields a ledger.
LEMMA SettlePaperType ==
    ASSUME NEW s \in LedgerState, NEW t \in Nat, NEW k \in Key, s.reservations[k] # Null
    PROVE  SettlePaper(s, k, t) \in LedgerState
<1> DEFINE r == s.reservations[k]
<1>1. r \in Reservation /\ r.amounts \in Amounts /\ r.lease_id \in LeaseId
  BY DEF LedgerState, Reservation
<1>2. /\ s.used \in Amounts /\ s.reserved \in Amounts
      /\ s.leases \in [LeaseId -> Lease \cup {Null}]
  BY DEF LedgerState
<1>3. PaperUsage(r) \in Amounts
  BY <1>1 DEF Amounts, PaperUsage
<1>4. Minus(s.reserved, r.amounts) \in Amounts /\ Plus(s.used, PaperUsage(r)) \in Amounts
  BY <1>1, <1>2, <1>3, CounterTypes
<1>5. CloseLeases(s.leases, {r.lease_id}, t) \in [LeaseId -> Lease \cup {Null}]
  BY <1>2, CloseLeasesType
<1>6. PaperSettled(r) \in Reservation
  BY <1>1, <1>3 DEF PaperSettled, Reservation, Settlement
<1>7. QED BY <1>4, <1>5, <1>6 DEF SettlePaper, LedgerState

\* Admitting a run yields a ledger.
LEMMA AdmitType ==
    ASSUME NEW s \in LedgerState, NEW t \in Nat, NEW k \in Key, NEW d \in Digest,
           NEW o \in Owner \cup {Null}, NEW a \in Amounts, NEW l \in LeaseId
    PROVE  AdmitReservation(s, k, d, o, a, l, t) \in LedgerState
<1>1. s.reserved \in Amounts
  BY DEF LedgerState
<1>2. Plus(s.reserved, a) \in Amounts
  BY <1>1, CounterTypes
<1>3. [reservation_key |-> k, acquired_at |-> t, expires_at |-> t + TTL,
       released_at |-> Null] \in Lease
  BY BoundAssumption DEF Lease
<1>4. [request_digest |-> d, owner |-> o, lease_id |-> l, amounts |-> a, actual |-> Null,
       status |-> "reserved", started |-> FALSE, consumed |-> FALSE, secret |-> FALSE,
       hash |-> Null, settlement |-> Null, finalize_error |-> Null, cached |-> FALSE] \in Reservation
  BY DEF Reservation
<1>5. QED BY <1>2, <1>3, <1>4 DEF AdmitReservation, LedgerState

\* The next alarm is a time or none: a nonempty set of deadlines has a least one.
LEMMA AlarmType ==
    ASSUME NEW s \in LedgerState
    PROVE  nextAlarm(s) \in Nat \cup {Null}
<1>1. Deadlines(s) \in SUBSET Nat
  BY DEF Deadlines, activeLeases, IsActive, LedgerState, Lease, Tombstone
<1>2. Deadlines(s) # {} => \E d \in Deadlines(s) : \A e \in Deadlines(s) : d <= e
  BY <1>1, LeastNatural
<1>3. QED BY <1>1, <1>2 DEF nextAlarm

\* The remaining writes to the stored value yield ledgers.
LEMMA WritesType ==
    ASSUME NEW s \in LedgerState, NEW t \in Nat
    PROVE  /\ ensureCreated(s) \in LedgerState
           /\ persistOwnerCancellationQuarantine(s, t) \in LedgerState
           /\ \A k \in Key, d \in Digest, o \in Owner :
                 WithTombstone(s, o, k, d, t) \in LedgerState
           /\ \A L : [s EXCEPT !.leases = CloseLeases(@, L, t)] \in LedgerState
           /\ \A l \in LeaseId : heartbeatLease(s, l, t) \in LedgerState
           /\ \A k \in Key : s.reservations[k] # Null =>
                 [s EXCEPT !.reservations[k].secret = FALSE] \in LedgerState
<1>1. ensureCreated(s) \in LedgerState
  BY DEF ensureCreated, LedgerState
<1>2. t + TTL \in Nat
  BY BoundAssumption
<1>3. persistOwnerCancellationQuarantine(s, t) \in LedgerState
  BY <1>2 DEF persistOwnerCancellationQuarantine, LedgerState
<1>4. ASSUME NEW k \in Key, NEW d \in Digest, NEW o \in Owner
      PROVE  WithTombstone(s, o, k, d, t) \in LedgerState
  <2>1. [owner |-> o, key |-> k, digest |-> d, expires_at |-> t + TTL] \in Tombstone
    BY <1>2 DEF Tombstone
  <2>2. QED BY <2>1 DEF WithTombstone, LedgerState
<1>5. ASSUME NEW L PROVE [s EXCEPT !.leases = CloseLeases(@, L, t)] \in LedgerState
  <2>1. CloseLeases(s.leases, L, t) \in [LeaseId -> Lease \cup {Null}]
    BY CloseLeasesType DEF LedgerState
  <2>2. QED BY <2>1 DEF LedgerState
<1>6. ASSUME NEW l \in LeaseId PROVE heartbeatLease(s, l, t) \in LedgerState
  <2>1. CASE IsActive(s, l)
    <3>1. s.leases[l] \in Lease
      BY <2>1 DEF IsActive, LedgerState
    <3>2. [s.leases[l] EXCEPT !.expires_at = t + TTL] \in Lease
      BY <3>1, <1>2 DEF Lease
    <3>3. QED BY <2>1, <3>2 DEF heartbeatLease, LedgerState
  <2>2. QED BY <2>1 DEF heartbeatLease
<1>7. ASSUME NEW k \in Key, s.reservations[k] # Null
      PROVE  [s EXCEPT !.reservations[k].secret = FALSE] \in LedgerState
  <2>1. s.reservations[k] \in Reservation
    BY <1>7 DEF LedgerState
  <2>2. [s.reservations[k] EXCEPT !.secret = FALSE] \in Reservation
    BY <2>1 DEF Reservation
  <2>3. QED BY <2>2 DEF LedgerState
<1>8. QED BY <1>1, <1>3, <1>4, <1>5, <1>6, <1>7

\* Marking the provider started yields a ledger.
LEMMA MarkType ==
    ASSUME NEW s \in LedgerState, NEW k \in Key, NEW d, NEW o, NEW l, NEW seen
    PROVE  markProviderStarted(s, k, d, o, l, seen) \in LedgerState
<1>1. CASE MarkVerdict(s, k, d, o, l, seen) = "started"
  <2>1. s.reservations[k] # Null /\ seen = s.reservations[k].lease_id
    BY <1>1 DEF MarkVerdict, FrozenForStart
  <2>2. s.reservations[k] \in Reservation
    BY <2>1 DEF LedgerState
  <2> DEFINE r == [[[[s.reservations[k] EXCEPT !.started = TRUE] EXCEPT !.consumed = FALSE]
                      EXCEPT !.secret = TRUE] EXCEPT !.hash = seen]
  <2>3. r \in Reservation
    BY <2>1, <2>2 DEF Reservation
  <2>4. markProviderStarted(s, k, d, o, l, seen) = [s EXCEPT !.reservations[k] = r]
    BY <1>1 DEF markProviderStarted, LedgerState
  <2> HIDE DEF r
  <2>5. QED BY <2>3, <2>4 DEF LedgerState
<1>2. QED BY <1>1 DEF markProviderStarted

-----------------------------------------------------------------------------
(* Operations as transitions *)

\* A run is admitted on s: what the verdict "fresh" guarantees.
Admits(s, q, t) ==
    \E k \in Key, d \in Digest, o \in Owner \cup {Null}, a \in ReserveAmounts, l \in LeaseId :
        /\ s.leases[l] = Null
        /\ s.reservations[k] = Null \/ HasStatus(s, k, "released")
        /\ ~s.frozen /\ s.quarantine_until = Null
        /\ ~ownerCancellationTombstoneMatches(s, o, k, d)
        /\ ~insufficient(s, a)
        /\ Cardinality(activeLeases(s)) < MaxParallel
        /\ q = AdmitReservation(ensureCreated(s), k, d, o, a, l, t)

Marks(s, q) ==
    \E k \in Key, d \in Digest, o \in Owner \cup {Null}, l \in LeaseId,
       seen \in LeaseId \cup {Null} :
        /\ MarkVerdict(s, k, d, o, l, seen) = "started"
        /\ q = markProviderStarted(s, k, d, o, l, seen)

\* The open reservation of k is settled or given back.
ClosesOne(s, q, t) ==
    \E k \in Key :
        /\ HasStatus(s, k, "reserved")
        /\ \/ q = chargeUncertainReservation(s, k, t)
           \/ \E usage \in Usage, costKnown \in BOOLEAN, hasResult \in BOOLEAN :
                 q = ReconcileExactly(s, k, usage, costKnown, hasResult, t)
           \/ q = SettlePaper(s, k, t)
           \/ ~s.reservations[k].started /\ q = ReleaseReservation(s, k, t)

\* Writes that leave money and leases alone, but for the expiry of an open lease.
Touches(s, q, t) ==
    \/ q = s
    \/ q = ensureCreated(s)
    \/ q = persistOwnerCancellationQuarantine(s, t)
    \/ \E k \in Key, d \in Digest, o \in Owner :
          ~HasStatus(s, k, "reserved") /\ q = WithTombstone(s, o, k, d, t)
    \/ \E l \in LeaseId : q = heartbeatLease(s, l, t)
    \/ \E k \in Key : HasStatus(s, k, "reconciled")
                      /\ q = [s EXCEPT !.reservations[k].secret = FALSE]
    \/ \E k \in Key : /\ s.reservations[k] # Null /\ s.reservations[k].status # "reserved"
                      /\ q = [s EXCEPT !.leases = CloseLeases(@, {s.reservations[k].lease_id}, t)]

Transition(s, q, t) ==
    \/ Admits(s, q, t)
    \/ Marks(s, q)
    \/ ClosesOne(s, q, t)
    \/ Touches(s, q, t)

\* A cancellation of an open reservation writes its tombstone and gives it back.
Cancels(s, q, t) ==
    \E k \in Key, d \in Digest, o \in Owner :
        /\ HasStatus(s, k, "reserved") /\ ~s.reservations[k].started
        /\ q = ReleaseReservation(WithTombstone(s, o, k, d, t), k, t)

Step(s, q, t) == Transition(s, q, t) \/ Cancels(s, q, t)

\* The checks shared by the two settlements pass only for an open, started run.
LEMMA SettleChecks ==
    ASSUME NEW s \in LedgerState, NEW k \in Key, NEW d, NEW o, NEW l
    PROVE  /\ SettleVerdict(s, k, d, o, l) = "settle" => HasStatus(s, k, "reserved")
           /\ SettleVerdict(s, k, d, o, l) = "replay" => HasStatus(s, k, "reconciled")
<1>1. s.reservations[k] # Null =>
        s.reservations[k].status \in {"reserved", "reconciled", "released"}
  BY DEF LedgerState, Reservation
<1>2. QED BY <1>1 DEF SettleVerdict, HasStatus

\* reserveBudget: a fresh reservation is admitted, every other verdict only marks the
\* ledger as created.
LEMMA ReserveSteps ==
    ASSUME NEW s \in LedgerState, NEW t \in Nat, NEW k \in Key, NEW d \in Digest,
           NEW o \in Owner \cup {Null}, NEW a \in ReserveAmounts, NEW l \in LeaseId,
           ReserveVerdict(s, k, d, o, a) = "fresh" => s.leases[l] = Null
    PROVE  Transition(s, reserveBudget(s, k, d, o, a, l, t), t)
<1>1. CASE ReserveVerdict(s, k, d, o, a) = "fresh"
  <2>1. s.reservations[k] # Null =>
          s.reservations[k].status \in {"reserved", "reconciled", "released"}
    BY DEF LedgerState, Reservation
  <2>2. s.reservations[k] = Null \/ HasStatus(s, k, "released")
    BY <1>1, <2>1 DEF ReserveVerdict, HasStatus
  <2>3. /\ ~s.frozen /\ s.quarantine_until = Null
        /\ ~ownerCancellationTombstoneMatches(s, o, k, d)
        /\ ~insufficient(s, a)
        /\ ~(Cardinality(activeLeases(s)) >= MaxParallel)
    BY <1>1 DEF ReserveVerdict, Quarantined, AtParallelLimit
  <2>4. Cardinality(activeLeases(s)) < MaxParallel
    <3>1. IsFiniteSet(activeLeases(s))
      BY FiniteAssumption, FS_Subset DEF activeLeases
    <3>2. Cardinality(activeLeases(s)) \in Nat
      BY <3>1, FS_CardinalityType
    <3>3. QED BY <3>2, <2>3, BoundAssumption
  <2>5. reserveBudget(s, k, d, o, a, l, t) = AdmitReservation(ensureCreated(s), k, d, o, a, l, t)
    BY <1>1 DEF reserveBudget
  <2>6. QED BY <1>1, <2>2, <2>3, <2>4, <2>5 DEF Transition, Admits
<1>2. CASE ReserveVerdict(s, k, d, o, a) # "fresh"
  BY <1>2 DEF reserveBudget, Transition, Touches
<1>3. QED BY <1>1, <1>2

\* markProviderStarted, finalizeOwnedPaperReservation and releaseBudget.
LEMMA MarkPaperReleaseSteps ==
    ASSUME NEW s \in LedgerState, NEW t \in Nat, NEW k \in Key, NEW l \in LeaseId
    PROVE  /\ \A d \in Digest, o \in Owner \cup {Null}, seen \in LeaseId \cup {Null} :
                 Transition(s, markProviderStarted(s, k, d, o, l, seen), t)
           /\ \A d, o : Transition(s, finalizeOwnedPaperReservation(s, k, d, o, l, t), t)
           /\ Transition(s, releaseBudget(s, k, l, t), t)
<1>1. ASSUME NEW d \in Digest, NEW o \in Owner \cup {Null}, NEW seen \in LeaseId \cup {Null}
      PROVE  Transition(s, markProviderStarted(s, k, d, o, l, seen), t)
  <2>1. CASE MarkVerdict(s, k, d, o, l, seen) = "started"
    BY <2>1 DEF Transition, Marks
  <2>2. CASE MarkVerdict(s, k, d, o, l, seen) # "started"
    BY <2>2 DEF markProviderStarted, Transition, Touches
  <2>3. QED BY <2>1, <2>2
<1>2. ASSUME NEW d, NEW o
      PROVE  Transition(s, finalizeOwnedPaperReservation(s, k, d, o, l, t), t)
  <2>1. CASE PaperVerdict(s, k, d, o, l) = "settle"
    <3>1. HasStatus(s, k, "reserved")
      <4>1. s.reservations[k] # Null =>
              s.reservations[k].status \in {"reserved", "reconciled", "released"}
        BY DEF LedgerState, Reservation
      <4>2. QED BY <2>1, <4>1 DEF PaperVerdict, HasStatus
    <3>2. QED BY <2>1, <3>1 DEF finalizeOwnedPaperReservation, Transition, ClosesOne
  <2>2. CASE PaperVerdict(s, k, d, o, l) # "settle"
    BY <2>2 DEF finalizeOwnedPaperReservation, Transition, Touches
  <2>3. QED BY <2>1, <2>2
<1>3. Transition(s, releaseBudget(s, k, l, t), t)
  <2>1. CASE ~Releasable(s, k, l)
    BY <2>1 DEF releaseBudget, Transition, Touches
  <2>2. CASE Releasable(s, k, l) /\ ~HasStatus(s, k, "reserved")
    BY <2>2 DEF releaseBudget, Releasable, HasStatus, Transition, Touches
  <2>3. CASE Releasable(s, k, l) /\ HasStatus(s, k, "reserved")
    BY <2>3 DEF releaseBudget, Transition, ClosesOne
  <2>4. QED BY <2>1, <2>2, <2>3
<1>4. QED BY <1>1, <1>2, <1>3

\* settleUncertainBudget and finalizeBudget.
LEMMA SettleSteps ==
    ASSUME NEW s \in LedgerState, NEW t \in Nat, NEW k \in Key, NEW d, NEW o, NEW l
    PROVE  /\ Transition(s, settleUncertainBudget(s, k, d, o, l, t), t)
           /\ \A report \in Report : Transition(s, finalizeBudget(s, k, d, o, l, report, t), t)
<1> DEFINE v == SettleVerdict(s, k, d, o, l)
<1>1. CASE v = "settle"
  <2>1. HasStatus(s, k, "reserved")
    BY <1>1, SettleChecks
  <2>2. settleUncertainBudget(s, k, d, o, l, t) = chargeUncertainReservation(s, k, t)
    BY <1>1 DEF settleUncertainBudget
  <2>3. ASSUME NEW report \in Report
        PROVE  Transition(s, finalizeBudget(s, k, d, o, l, report, t), t)
    <3>1. CASE report.usage = Null
      BY <1>1, <2>1, <3>1 DEF finalizeBudget, Transition, ClosesOne
    <3>2. CASE report.usage # Null /\ report.result = "rejected"
      BY <1>1, <3>2 DEF finalizeBudget, Transition, Touches
    <3>3. CASE report.usage # Null /\ report.result # "rejected"
      <4>1. /\ report.usage \in Usage /\ report.costKnown \in BOOLEAN
            /\ (report.result = "canonical") \in BOOLEAN
        BY <3>3 DEF Report
      <4>2. finalizeBudget(s, k, d, o, l, report, t)
              = ReconcileExactly(s, k, report.usage, report.costKnown,
                                 report.result = "canonical", t)
        BY <1>1, <3>3 DEF finalizeBudget
      <4>3. QED BY <2>1, <4>1, <4>2 DEF Transition, ClosesOne
    <3>4. QED BY <3>1, <3>2, <3>3
  <2>4. QED BY <2>1, <2>2, <2>3 DEF Transition, ClosesOne
<1>2. CASE v = "replay"
  <2>1. HasStatus(s, k, "reconciled")
    BY <1>2, SettleChecks
  <2>2. /\ settleUncertainBudget(s, k, d, o, l, t) = [s EXCEPT !.reservations[k].secret = FALSE]
        /\ \A report : finalizeBudget(s, k, d, o, l, report, t)
                         = [s EXCEPT !.reservations[k].secret = FALSE]
    BY <1>2 DEF settleUncertainBudget, finalizeBudget
  <2>3. QED BY <2>1, <2>2 DEF Transition, Touches
<1>3. CASE v # "settle" /\ v # "replay"
  <2>1. /\ settleUncertainBudget(s, k, d, o, l, t) = s
        /\ \A report : finalizeBudget(s, k, d, o, l, report, t) = s
    BY <1>3 DEF settleUncertainBudget, finalizeBudget
  <2>2. QED BY <2>1 DEF Transition, Touches
<1>4. QED BY <1>1, <1>2, <1>3

\* cancelPreProviderReservation.
LEMMA CancelSteps ==
    ASSUME NEW s \in LedgerState, NEW t \in Nat, NEW k \in Key, NEW d \in Digest, NEW o \in Owner
    PROVE  Step(s, cancelPreProviderReservation(s, k, d, o, t), t)
<1> DEFINE v == CancelVerdict(s, k, d, o, t)
<1>1. CASE v = "cancelled"
  <2>1. HasStatus(s, k, "reserved") /\ ~s.reservations[k].started
    BY <1>1 DEF CancelVerdict, HasStatus
  <2>2. cancelPreProviderReservation(s, k, d, o, t)
          = ReleaseReservation(WithTombstone(s, o, k, d, t), k, t)
    BY <1>1 DEF cancelPreProviderReservation
  <2>3. QED BY <2>1, <2>2 DEF Step, Cancels
<1>2. CASE v # "cancelled"
  <2>1. v = "tombstoned" => ~HasStatus(s, k, "reserved")
    BY DEF CancelVerdict
  <2>2. Touches(s, cancelPreProviderReservation(s, k, d, o, t), t)
    BY <1>2, <2>1 DEF cancelPreProviderReservation, Touches
  <2>3. QED BY <2>2 DEF Step, Transition
<1>3. QED BY <1>1, <1>2

\* What a committed operation does, whichever it is: recoverExpired, then its own step.
Commits ==
    \E t \in Nat :
        /\ Step(recoverExpired(ledger, t), ledger', t)
        /\ alarm' = nextAlarm(ledger')
        /\ now' = now

\* Every step of the ledger commits an operation or leaves the stored value alone.
LEMMA NextSteps ==
    ASSUME TypeOK, [Next]_vars
    PROVE  Commits \/ (ledger' = ledger /\ alarm' = alarm /\ now' \in 0..MaxTime)
<1>0. ledger \in LedgerState /\ now \in Nat /\ Opened \in LedgerState
  BY RecoverType, BoundAssumption DEF TypeOK, Opened
<1>00. \A t \in ClockReadings : t \in Nat /\ recoverExpired(ledger, t) \in LedgerState
  BY <1>0, BoundAssumption, RecoverType DEF ClockReadings
<1>01. ASSUME NEW t \in Nat, NEW q, Step(recoverExpired(ledger, t), q, t), Commit(q)
       PROVE  Commits
  BY <1>01 DEF Commits, Commit
<1>02. ASSUME NEW t \in Nat, recoverExpired(ledger, t) \in LedgerState,
              NEW q, Transition(recoverExpired(ledger, t), q, t), Commit(q)
       PROVE  Commits
  BY <1>01, <1>02 DEF Step
<1>1. CASE CreateBudget
  BY <1>0, <1>02, <1>1 DEF CreateBudget, Opened, Transition, Touches
<1>2. CASE \E k \in Key, d \in Digest, o \in Owner \cup {Null}, a \in ReserveAmounts,
              l \in LeaseId : Reserve(k, d, o, a, l)
  <2>1. PICK k \in Key, d \in Digest, o \in Owner \cup {Null}, a \in ReserveAmounts,
             l \in LeaseId : Reserve(k, d, o, a, l)
    BY <1>2
  <2>2. ledger.leases[l] = Null => Opened.leases[l] = Null
    BY <1>0 DEF Opened, recoverExpired, CloseLeases, LedgerState
  <2>3. ReserveVerdict(Opened, k, d, o, a) = "fresh" => Opened.leases[l] = Null
    BY <2>1, <2>2 DEF Reserve
  <2>4. Transition(Opened, reserveBudget(Opened, k, d, o, a, l, now), now)
    BY <1>0, <2>3, ReserveSteps
  <2>5. QED BY <1>0, <1>02, <2>1, <2>4 DEF Reserve, Opened
<1>3. CASE \E k \in Key, d \in Digest, o \in Owner \cup {Null}, l \in LeaseId,
              seen \in LeaseId \cup {Null} : MarkProviderStarted(k, d, o, l, seen)
  BY <1>0, <1>02, <1>3, MarkPaperReleaseSteps DEF MarkProviderStarted, Opened
<1>4. CASE \E k \in Key, d \in Digest, o \in Owner \cup {Null}, l \in LeaseId \cup {Null} :
              SettleUncertain(k, d, o, l)
  BY <1>0, <1>02, <1>4, SettleSteps DEF SettleUncertain, Opened
<1>5. CASE \E k \in Key, d \in Digest, o \in Owner \cup {Null}, l \in LeaseId \cup {Null} :
              \E report \in Reports(k, d, o, l) : FinalizeExact(k, d, o, l, report)
  <2>1. PICK k \in Key, d \in Digest, o \in Owner \cup {Null}, l \in LeaseId \cup {Null} :
              \E report \in Reports(k, d, o, l) : FinalizeExact(k, d, o, l, report)
    BY <1>5
  <2>2. Reports(k, d, o, l) \subseteq Report
    <3>1. [usage |-> Null, costKnown |-> FALSE, result |-> "none"] \in Report
      BY DEF Report
    <3>2. QED BY <3>1 DEF Reports
  <2>3. QED BY <1>0, <1>02, <2>1, <2>2, SettleSteps DEF FinalizeExact, Opened
<1>6. CASE \E k \in Key, d \in Digest, o \in Owner, l \in LeaseId : FinalizeOwnedPaper(k, d, o, l)
  BY <1>0, <1>02, <1>6, MarkPaperReleaseSteps DEF FinalizeOwnedPaper, Opened
<1>7. CASE \E l \in LeaseId : Heartbeat(l)
  BY <1>0, <1>02, <1>7 DEF Heartbeat, Opened, Transition, Touches
<1>8. CASE \E k \in Key, d \in Digest, o \in Owner, t \in ClockReadings :
              CancelPreProvider(k, d, o, t)
  BY <1>00, <1>01, <1>8, CancelSteps DEF CancelPreProvider
<1>9. CASE \E k \in Key, l \in LeaseId : Release(k, l)
  BY <1>0, <1>02, <1>9, MarkPaperReleaseSteps DEF Release, Opened
<1>10. CASE RecoverExpiredLeases
  BY <1>0, <1>02, <1>10 DEF RecoverExpiredLeases, Opened, Transition, Touches
<1>11. CASE Alarm
  BY <1>0, <1>02, <1>11 DEF Alarm, Opened, Transition, Touches
<1>12. CASE Throw
  BY <1>12 DEF Throw, vars, TypeOK
<1>13. CASE Tick
  BY <1>13, BoundAssumption DEF Tick, TypeOK
<1>14. CASE UNCHANGED vars
  BY <1>14 DEF vars, TypeOK
<1>15. QED BY <1>1, <1>2, <1>3, <1>4, <1>5, <1>6, <1>7, <1>8, <1>9, <1>10, <1>11, <1>12,
              <1>13, <1>14 DEF Next

\* Every transition yields a ledger.
LEMMA TransitionType ==
    ASSUME NEW s \in LedgerState, NEW t \in Nat, NEW q, Transition(s, q, t)
    PROVE  q \in LedgerState
<1>1. CASE Admits(s, q, t)
  <2>1. ensureCreated(s) \in LedgerState
    BY WritesType
  <2>2. PICK k \in Key, d \in Digest, o \in Owner \cup {Null}, a \in ReserveAmounts,
             l \in LeaseId : q = AdmitReservation(ensureCreated(s), k, d, o, a, l, t)
    BY <1>1 DEF Admits
  <2>3. a \in Amounts
    BY CounterAssumption DEF Amounts
  <2>4. QED BY <2>1, <2>2, <2>3, AdmitType
<1>2. CASE Marks(s, q)
  BY <1>2, MarkType DEF Marks
<1>3. CASE ClosesOne(s, q, t)
  BY <1>3, ChargeType, ReconcileType, SettlePaperType, ReleaseType, CounterAssumption
     DEF ClosesOne, HasStatus, Amounts
<1>4. CASE Touches(s, q, t)
  <2>1. CASE \E k \in Key : HasStatus(s, k, "reconciled")
                            /\ q = [s EXCEPT !.reservations[k].secret = FALSE]
    BY <2>1, WritesType, Zenon DEF HasStatus
  <2>2. CASE \E k \in Key :
               q = [s EXCEPT !.leases = CloseLeases(@, {s.reservations[k].lease_id}, t)]
    <3>1. PICK k \in Key :
               q = [s EXCEPT !.leases = CloseLeases(@, {s.reservations[k].lease_id}, t)]
      BY <2>2, Zenon
    <3>2. \A L : [s EXCEPT !.leases = CloseLeases(@, L, t)] \in LedgerState
      BY WritesType, Zenon
    <3>3. QED BY <3>1, <3>2, Zenon
  <2>3. CASE q \in {s, ensureCreated(s), persistOwnerCancellationQuarantine(s, t)}
    BY <2>3, WritesType
  <2>4. CASE \E k \in Key, d \in Digest, o \in Owner : q = WithTombstone(s, o, k, d, t)
    BY <2>4, WritesType
  <2>5. CASE \E l \in LeaseId : q = heartbeatLease(s, l, t)
    BY <2>5, WritesType
  <2>6. QED BY <1>4, <2>1, <2>2, <2>3, <2>4, <2>5, Zenon DEF Touches
<1>5. QED BY <1>1, <1>2, <1>3, <1>4 DEF Transition

\* A tombstone leaves everything else as it is.
LEMMA TombstoneFrame ==
    ASSUME NEW s \in LedgerState, NEW t \in Nat, NEW k \in Key, NEW d \in Digest, NEW o \in Owner,
           NEW p, p = WithTombstone(s, o, k, d, t)
    PROVE  /\ p \in LedgerState
           /\ p.reservations = s.reservations /\ p.leases = s.leases /\ p.audit = s.audit
           /\ p.used = s.used /\ p.reserved = s.reserved /\ p.frozen = s.frozen
           /\ \A x \in p.tombstones \ s.tombstones : x.owner = o /\ x.key = k /\ x.digest = d
<1>1. p \in LedgerState
  BY WritesType
<1>2. QED BY <1>1 DEF WithTombstone, LedgerState

\* A cancellation closes the reservation of the ledger with the tombstone.
LEMMA CancelsClose ==
    ASSUME NEW s \in LedgerState, NEW t \in Nat, NEW q, Cancels(s, q, t)
    PROVE  \E k \in Key, d \in Digest, o \in Owner, p \in LedgerState :
              /\ p = WithTombstone(s, o, k, d, t)
              /\ HasStatus(p, k, "reserved") /\ ~p.reservations[k].started
              /\ q = ReleaseReservation(p, k, t)
<1>1. PICK k \in Key, d \in Digest, o \in Owner :
        /\ HasStatus(s, k, "reserved") /\ ~s.reservations[k].started
        /\ q = ReleaseReservation(WithTombstone(s, o, k, d, t), k, t)
  BY DEF Cancels
<1> DEFINE p == WithTombstone(s, o, k, d, t)
<1>2. p \in LedgerState /\ p.reservations = s.reservations
  BY TombstoneFrame
<1>3. HasStatus(p, k, "reserved") /\ ~p.reservations[k].started
  BY <1>1, <1>2 DEF HasStatus
<1>4. QED BY <1>1, <1>2, <1>3

\* Every step yields a ledger.
LEMMA StepType ==
    ASSUME NEW s \in LedgerState, NEW t \in Nat, NEW q, Step(s, q, t)
    PROVE  q \in LedgerState
<1>1. CASE Transition(s, q, t)
  BY <1>1, TransitionType
<1>2. CASE Cancels(s, q, t)
  BY <1>2, CancelsClose, ReleaseType DEF HasStatus
<1>3. QED BY <1>1, <1>2 DEF Step

\* Every step keeps the types.
LEMMA TypeStep ==
    ASSUME TypeOK, [Next]_vars
    PROVE  TypeOK'
<1>1. CASE Commits
  <2>1. PICK t \in Nat : /\ Step(recoverExpired(ledger, t), ledger', t)
                         /\ alarm' = nextAlarm(ledger') /\ now' = now
    BY <1>1 DEF Commits
  <2>2. recoverExpired(ledger, t) \in LedgerState
    BY RecoverType DEF TypeOK
  <2>3. ledger' \in LedgerState
    BY <2>1, <2>2, StepType
  <2>4. QED BY <2>1, <2>3, AlarmType DEF TypeOK
<1>2. QED BY <1>1, NextSteps DEF TypeOK

\* The empty ledger has its type.
LEMMA TypeInit == Init => TypeOK
<1>1. zeroCounters \in Amounts
  BY DEF zeroCounters, Amounts
<1>2. emptyLedger \in LedgerState
  BY <1>1 DEF emptyLedger, LedgerState
<1>3. QED BY <1>2, BoundAssumption DEF Init, TypeOK

\* The stored ledger, its alarm and the clock keep their types, whatever is called.
THEOREM TypeCorrect == Spec => []TypeOK
<1>1. TypeOK /\ [Next]_vars => TypeOK'
  BY TypeStep
<1>2. QED BY <1>1, TypeInit, PTL DEF Spec

-----------------------------------------------------------------------------
(* The accounting: the counters are the sums over the reservations, every  *)
(* open lease is held by an open reservation, what is settled stays        *)
(* settled, the parallel limit and the caps hold.                          *)
(*                                                                         *)
(* The counters alone are not inductive.  recoverExpired walks the leases  *)
(* and gives back what their reservations hold, so its effect on the       *)
(* counters is right only if leases and open reservations correspond one   *)
(* to one: Sound states the three facts together.                          *)


Sound(s) ==
    /\ CountersOK(s)
    /\ \A k \in Key : LifecycleOK(s, k)
    /\ \A l \in LeaseId : LeaseHeld(s, l)

\* The amounts the reservations of K hold in counter c, and what q charges for them.
HeldIn(s, K, c) == [k \in Key |-> IF k \in K THEN s.reservations[k].amounts[c] ELSE 0]
SpentIn(q, K, c) == [k \in Key |-> IF k \in K THEN SpentBy(q, k, c) ELSE 0]

\* Reservation x is r at another stage of its life.
SameRun(r, x) ==
    /\ x.lease_id = r.lease_id /\ x.request_digest = r.request_digest
    /\ x.owner = r.owner /\ x.amounts = r.amounts /\ x.started = r.started

\* q closes exactly the open reservations of K.
Closing(s, q, K, t) ==
    /\ \A k \in K : HasStatus(s, k, "reserved")
    /\ \A k \in Key : k \notin K => q.reservations[k] = s.reservations[k]
    /\ \A k \in K :
         LET r == q.reservations[k] IN
         /\ r # Null /\ SameRun(s.reservations[k], r)
         /\ \/ r.status = "reconciled" /\ r.actual # Null /\ r.settlement # Null
            \/ r.status = "released" /\ r.actual = Null /\ r.settlement = Null /\ ~r.started
    /\ q.leases = CloseLeases(s.leases, {s.reservations[k].lease_id : k \in K}, t)
    /\ q.reserved = Minus(s.reserved, [c \in Counter |-> SumKeys(HeldIn(s, K, c))])
    /\ \A c \in Counter : q.used[c] = s.used[c] + SumKeys(SpentIn(q, K, c))

-----------------------------------------------------------------------------
(* Types of the summands *)

\* What a key contributes to a counter is a natural number.
LEMMA SummandTypes ==
    ASSUME NEW s \in LedgerState, NEW c \in Counter
    PROVE  /\ [k \in Key |-> HeldBy(s, k, c)] \in [Key -> Nat]
           /\ [k \in Key |-> SpentBy(s, k, c)] \in [Key -> Nat]
           /\ \A K \in SUBSET Key : SpentIn(s, K, c) \in [Key -> Nat]
<1>1. ASSUME NEW k \in Key PROVE HeldBy(s, k, c) \in Nat /\ SpentBy(s, k, c) \in Nat
  <2>1. s.reservations[k] \in Reservation \cup {Null}
    BY DEF LedgerState
  <2>2. QED BY <2>1 DEF HeldBy, SpentBy, HasStatus, Reservation, Amounts
<1>2. QED BY <1>1 DEF SpentIn

\* The same for the amounts of open reservations.
LEMMA HeldInType ==
    ASSUME NEW s \in LedgerState, NEW c \in Counter, NEW K \in SUBSET Key,
           \A k \in K : HasStatus(s, k, "reserved")
    PROVE  HeldIn(s, K, c) \in [Key -> Nat]
<1>1. ASSUME NEW k \in K PROVE s.reservations[k].amounts[c] \in Nat
  <2>1. s.reservations[k] \in Reservation
    BY DEF LedgerState, HasStatus
  <2>2. QED BY <2>1 DEF Reservation, Amounts
<1>2. QED BY <1>1 DEF HeldIn

-----------------------------------------------------------------------------
(* Closing reservations *)

\* Closing open reservations moves their amounts out of reserved and what they are
\* charged into used: the counters stay the sums.
LEMMA ClosingCounters ==
    ASSUME NEW s \in LedgerState, NEW q \in LedgerState, NEW K \in SUBSET Key, NEW t \in Nat,
           CountersOK(s), Closing(s, q, K, t)
    PROVE  /\ CountersOK(q)
           /\ \A c \in Counter : /\ SumKeys(HeldIn(s, K, c)) \in Nat
                                 /\ SumKeys(SpentIn(q, K, c)) \in Nat
                                 /\ s.reserved[c] = q.reserved[c] + SumKeys(HeldIn(s, K, c))
<1> SUFFICES ASSUME NEW c \in Counter
             PROVE  /\ q.reserved[c] = SumKeys([k \in Key |-> HeldBy(q, k, c)])
                    /\ q.used[c] = SumKeys([k \in Key |-> SpentBy(q, k, c)])
                    /\ SumKeys(HeldIn(s, K, c)) \in Nat
                    /\ SumKeys(SpentIn(q, K, c)) \in Nat
                    /\ s.reserved[c] = q.reserved[c] + SumKeys(HeldIn(s, K, c))
  BY DEF CountersOK
<1> DEFINE held == [k \in Key |-> HeldBy(s, k, c)]
           heldQ == [k \in Key |-> HeldBy(q, k, c)]
           spent == [k \in Key |-> SpentBy(s, k, c)]
           spentQ == [k \in Key |-> SpentBy(q, k, c)]
<1>1. /\ held \in [Key -> Nat] /\ heldQ \in [Key -> Nat]
      /\ spent \in [Key -> Nat] /\ spentQ \in [Key -> Nat]
      /\ SpentIn(q, K, c) \in [Key -> Nat]
  BY SummandTypes
<1>2. HeldIn(s, K, c) \in [Key -> Nat]
  BY HeldInType DEF Closing
<1>3. ASSUME NEW k \in Key
      PROVE  \/ held[k] = heldQ[k] /\ HeldIn(s, K, c)[k] = 0
             \/ held[k] = HeldIn(s, K, c)[k] /\ heldQ[k] = 0
  <2>1. CASE k \in K
    <3>1. HasStatus(s, k, "reserved") /\ ~HasStatus(q, k, "reserved")
      BY <2>1 DEF Closing, HasStatus
    <3>2. QED BY <2>1, <3>1 DEF HeldBy, HeldIn
  <2>2. CASE k \notin K
    <3>1. q.reservations[k] = s.reservations[k]
      BY <2>2 DEF Closing
    <3>2. QED BY <2>2, <3>1 DEF HeldBy, HeldIn, HasStatus
  <2>3. QED BY <2>1, <2>2
<1>4. ASSUME NEW k \in Key
      PROVE  \/ spentQ[k] = spent[k] /\ SpentIn(q, K, c)[k] = 0
             \/ spentQ[k] = SpentIn(q, K, c)[k] /\ spent[k] = 0
  <2>1. CASE k \in K
    <3>1. HasStatus(s, k, "reserved") /\ ~HasStatus(s, k, "reconciled")
      BY <2>1 DEF Closing, HasStatus
    <3>2. QED BY <2>1, <3>1 DEF SpentBy, SpentIn
  <2>2. CASE k \notin K
    <3>1. q.reservations[k] = s.reservations[k]
      BY <2>2 DEF Closing
    <3>2. QED BY <2>2, <3>1 DEF SpentBy, SpentIn, HasStatus
  <2>3. QED BY <2>1, <2>2
<1> HIDE DEF held, heldQ, spent, spentQ
<1>5. SumOver(Key, held) = SumOver(Key, heldQ) + SumOver(Key, HeldIn(s, K, c))
  BY <1>1, <1>2, <1>3, FiniteAssumption, SumSplit
<1>6. SumOver(Key, spentQ) = SumOver(Key, spent) + SumOver(Key, SpentIn(q, K, c))
  BY <1>1, <1>4, FiniteAssumption, SumSplit
<1>7. /\ SumOver(Key, heldQ) \in Nat /\ SumOver(Key, HeldIn(s, K, c)) \in Nat
      /\ SumOver(Key, spent) \in Nat /\ SumOver(Key, SpentIn(q, K, c)) \in Nat
  BY <1>1, <1>2, FiniteAssumption, SumType
<1>8. s.reserved[c] = SumOver(Key, held) /\ s.used[c] = SumOver(Key, spent)
  BY DEF CountersOK, SumKeys, held, spent
<1>9. q.reserved[c] = IF SumOver(Key, HeldIn(s, K, c)) <= s.reserved[c]
                      THEN s.reserved[c] - SumOver(Key, HeldIn(s, K, c)) ELSE 0
  BY DEF Closing, Minus, SumKeys
<1>10. q.used[c] = s.used[c] + SumOver(Key, SpentIn(q, K, c))
  BY DEF Closing, SumKeys
<1>11. q.reserved[c] = SumOver(Key, heldQ)
  BY <1>5, <1>7, <1>8, <1>9
<1>12. q.used[c] = SumOver(Key, spentQ)
  BY <1>6, <1>8, <1>10
<1>13. QED BY <1>5, <1>7, <1>8, <1>11, <1>12 DEF SumKeys, heldQ, spentQ

\* Closing open reservations with their leases leaves every reservation in a legal
\* state and every open lease held.
LEMMA ClosingLifecycle ==
    ASSUME NEW s \in LedgerState, NEW q \in LedgerState, NEW K \in SUBSET Key, NEW t \in Nat,
           Sound(s), Closing(s, q, K, t)
    PROVE  (\A k \in Key : LifecycleOK(q, k)) /\ (\A l \in LeaseId : LeaseHeld(q, l))
<1> DEFINE L == {s.reservations[k].lease_id : k \in K}
<1>0. t # Null
  BY NullAssumption
<1>1. ASSUME NEW k \in Key, s.reservations[k] # Null
      PROVE  s.reservations[k].lease_id \in LeaseId
  BY <1>1 DEF LedgerState, Reservation
<1>2. ASSUME NEW l \in LeaseId
      PROVE  q.leases[l] = IF l \in L /\ s.leases[l] # Null /\ s.leases[l].released_at = Null
                           THEN [s.leases[l] EXCEPT !.released_at = t] ELSE s.leases[l]
  BY DEF Closing, CloseLeases
<1>3. ASSUME NEW l \in LeaseId, s.leases[l] # Null
      PROVE  /\ s.leases[l] \in Lease
             /\ q.leases[l] # Null
             /\ q.leases[l].reservation_key = s.leases[l].reservation_key
             /\ s.leases[l].released_at # Null => q.leases[l].released_at # Null
             /\ l \in L => q.leases[l].released_at # Null
             /\ l \notin L => q.leases[l] = s.leases[l]
  <2>1. s.leases[l] \in Lease
    BY <1>3 DEF LedgerState
  <2>3. [s.leases[l] EXCEPT !.released_at = t] # Null
    <3>1. [s.leases[l] EXCEPT !.released_at = t] \in Lease
      BY <2>1 DEF Lease
    <3>2. QED BY <3>1, NullIsNoRecord
  <2>4. QED BY <1>0, <1>2, <1>3, <2>1, <2>3 DEF Lease
<1>4. ASSUME NEW k \in Key, s.reservations[k] # Null, s.reservations[k].lease_id \in L
      PROVE  k \in K
  <2>1. PICK j \in K : s.reservations[j].lease_id = s.reservations[k].lease_id
    BY <1>4
  <2>2. s.reservations[j] # Null
    BY DEF Closing, HasStatus
  <2>3. s.leases[s.reservations[k].lease_id].reservation_key = k
    BY <1>4 DEF Sound, LifecycleOK
  <2>4. s.leases[s.reservations[j].lease_id].reservation_key = j
    BY <2>2 DEF Sound, LifecycleOK
  <2>5. QED BY <2>1, <2>3, <2>4
<1>5. ASSUME NEW k \in Key PROVE LifecycleOK(q, k)
  <2>1. CASE k \in K
    <3>1. s.reservations[k] # Null
      BY <2>1 DEF Closing, HasStatus
    <3>2. /\ s.reservations[k].lease_id \in LeaseId
          /\ s.reservations[k].lease_id \in L
      BY <1>1, <2>1, <3>1
    <3>3. /\ s.leases[s.reservations[k].lease_id] # Null
          /\ s.leases[s.reservations[k].lease_id].reservation_key = k
      BY <3>1 DEF Sound, LifecycleOK
    <3> HIDE DEF L
    <3>4. QED BY <1>3, <2>1, <3>2, <3>3 DEF Closing, SameRun, LifecycleOK
  <2>2. CASE k \notin K /\ s.reservations[k] # Null
    <3>1. q.reservations[k] = s.reservations[k]
      BY <2>2 DEF Closing
    <3>2. s.reservations[k].lease_id \in LeaseId /\ s.reservations[k].lease_id \notin L
      BY <1>1, <1>4, <2>2
    <3>3. s.leases[s.reservations[k].lease_id] # Null
      BY <2>2 DEF Sound, LifecycleOK
    <3>4. q.leases[s.reservations[k].lease_id] = s.leases[s.reservations[k].lease_id]
      BY <1>3, <3>2, <3>3
    <3>5. LifecycleOK(s, k)
      BY DEF Sound
    <3>6. QED BY <3>1, <3>4, <3>5 DEF LifecycleOK
  <2>3. CASE k \notin K /\ s.reservations[k] = Null
    BY <2>3 DEF Closing, LifecycleOK
  <2>4. QED BY <2>1, <2>2, <2>3
<1>6. ASSUME NEW l \in LeaseId PROVE LeaseHeld(q, l)
  <2> SUFFICES ASSUME IsActive(q, l) PROVE LeaseHeld(q, l)
    BY DEF LeaseHeld
  <2>1. s.leases[l] # Null
    BY <1>2 DEF IsActive
  <2>2. l \notin L /\ q.leases[l] = s.leases[l] /\ IsActive(s, l)
    BY <1>3, <2>1 DEF IsActive
  <2> DEFINE k == s.leases[l].reservation_key
  <2>3. k \in Key
    BY <1>3, <2>1 DEF Lease
  <2>4. HasStatus(s, k, "reserved") /\ s.reservations[k].lease_id = l
    BY <2>2 DEF Sound, LeaseHeld
  <2>5. k \notin K
    BY <2>2, <2>4
  <2>6. q.reservations[k] = s.reservations[k]
    BY <2>3, <2>5 DEF Closing
  <2>7. QED BY <2>2, <2>4, <2>6 DEF LeaseHeld, HasStatus
<1>7. QED BY <1>5, <1>6

\* Nothing is charged above its reservation unless that is audited.
Bounded(s, q, K) ==
    /\ s.audit \subseteq q.audit
    /\ \/ \E x \in q.audit : x.kind = "actual_exceeds_reserved"
       \/ \A k \in K, c \in Counter : SpentBy(q, k, c) <= s.reservations[k].amounts[c]

WithinCaps(s) ==
    (\A x \in s.audit : x.kind # "actual_exceeds_reserved") =>
        \A c \in Counter : s.used[c] + s.reserved[c] <= Cap[c]

\* The inductive invariant: sound accounts, within the parallel limit and the caps.
Safe(s) == Sound(s) /\ Cardinality(activeLeases(s)) <= MaxParallel /\ WithinCaps(s)

\* What SettledOnce says of a step from s to q.
Keeps(s, q) ==
    /\ \A c \in Counter : q.used[c] >= s.used[c]
    /\ \A k \in Key :
         HasStatus(s, k, "reconciled") =>
            /\ HasStatus(q, k, "reconciled")
            /\ q.reservations[k].lease_id = s.reservations[k].lease_id
            /\ q.reservations[k].actual = s.reservations[k].actual
            /\ q.reservations[k].settlement = s.reservations[k].settlement

\* If no lease becomes active the parallel limit is kept.
LEMMA FewerActive ==
    ASSUME NEW s, NEW q, activeLeases(q) \subseteq activeLeases(s)
    PROVE  /\ Cardinality(activeLeases(q)) \in Nat /\ Cardinality(activeLeases(s)) \in Nat
           /\ Cardinality(activeLeases(q)) <= Cardinality(activeLeases(s))
<1>1. IsFiniteSet(activeLeases(s)) /\ IsFiniteSet(activeLeases(q))
  BY FiniteAssumption, FS_Subset DEF activeLeases
<1>2. QED BY <1>1, FS_Subset, FS_CardinalityType

\* Closing open reservations keeps the invariant and what was settled before.
LEMMA ClosingSafe ==
    ASSUME NEW s \in LedgerState, NEW q \in LedgerState, NEW K \in SUBSET Key, NEW t \in Nat,
           Safe(s), Closing(s, q, K, t), Bounded(s, q, K)
    PROVE  Safe(q) /\ Keeps(s, q)
<1>1. CountersOK(s) /\ Sound(s)
  BY DEF Safe, Sound
<1>2. Sound(q)
  BY <1>1, ClosingCounters, ClosingLifecycle DEF Sound
<1>3. /\ \A c \in Counter : s.used[c] \in Nat /\ s.reserved[c] \in Nat
      /\ \A c \in Counter : q.used[c] \in Nat /\ q.reserved[c] \in Nat
  BY DEF LedgerState, Amounts
<1>4. Cardinality(activeLeases(q)) <= MaxParallel
  <2>1. activeLeases(q) \subseteq activeLeases(s)
    <3>1. ASSUME NEW l \in LeaseId, IsActive(q, l) PROVE IsActive(s, l)
      <4>1. q.leases[l] = s.leases[l] \/
              (s.leases[l] # Null /\ s.leases[l].released_at = Null)
        BY DEF Closing, CloseLeases
      <4>2. QED BY <3>1, <4>1 DEF IsActive
    <3>2. QED BY <3>1 DEF activeLeases
  <2>2. QED BY <2>1, FewerActive, BoundAssumption DEF Safe
<1>5. WithinCaps(q)
  <2> SUFFICES ASSUME \A x \in q.audit : x.kind # "actual_exceeds_reserved",
                      NEW c \in Counter
               PROVE  q.used[c] + q.reserved[c] <= Cap[c]
    BY DEF WithinCaps
  <2>1. s.used[c] + s.reserved[c] <= Cap[c]
    BY DEF Safe, WithinCaps, Bounded
  <2>2. \A k \in K : SpentBy(q, k, c) <= s.reservations[k].amounts[c]
    BY DEF Bounded
  <2>3. HeldIn(s, K, c) \in [Key -> Nat] /\ SpentIn(q, K, c) \in [Key -> Nat]
    BY HeldInType, SummandTypes DEF Closing
  <2>4. \A k \in Key : SpentIn(q, K, c)[k] <= HeldIn(s, K, c)[k]
    BY <2>2 DEF SpentIn, HeldIn
  <2>5. SumKeys(SpentIn(q, K, c)) <= SumKeys(HeldIn(s, K, c))
    BY <2>3, <2>4, FiniteAssumption, SumMonotone DEF SumKeys
  <2>6. /\ SumKeys(HeldIn(s, K, c)) \in Nat /\ SumKeys(SpentIn(q, K, c)) \in Nat
        /\ s.reserved[c] = q.reserved[c] + SumKeys(HeldIn(s, K, c))
    BY <1>1, ClosingCounters
  <2>7. q.used[c] = s.used[c] + SumKeys(SpentIn(q, K, c))
    BY DEF Closing
  <2>8. Cap[c] \in Nat
    BY CounterAssumption
  <2>9. QED BY <1>3, <2>1, <2>5, <2>6, <2>7, <2>8
<1>6. Keeps(s, q)
  <2>1. ASSUME NEW c \in Counter PROVE q.used[c] >= s.used[c]
    <3>1. SumKeys(SpentIn(q, K, c)) \in Nat
      BY <1>1, ClosingCounters
    <3>2. q.used[c] = s.used[c] + SumKeys(SpentIn(q, K, c))
      BY DEF Closing
    <3>3. QED BY <1>3, <3>1, <3>2
  <2>2. ASSUME NEW k \in Key, HasStatus(s, k, "reconciled")
        PROVE  q.reservations[k] = s.reservations[k]
    BY <2>2 DEF Closing, HasStatus
  <2>3. QED BY <2>1, <2>2 DEF Keeps, HasStatus
<1>7. QED BY <1>2, <1>4, <1>5, <1>6 DEF Safe

\* recoverExpired closes the open reservations of the expired leases: by soundness
\* those are exactly the leases these reservations name.
LEMMA RecoverCloses ==
    ASSUME NEW s \in LedgerState, NEW t \in Nat, Sound(s)
    PROVE  /\ ExpiredKeys(s, t) \in SUBSET Key
           /\ Closing(s, recoverExpired(s, t), ExpiredKeys(s, t), t)
           /\ Bounded(s, recoverExpired(s, t), ExpiredKeys(s, t))
<1> DEFINE K == ExpiredKeys(s, t)
           charged == {k \in K : s.reservations[k].started}
           q == recoverExpired(s, t)
           L == {s.reservations[k].lease_id : k \in K}
<1>0. q \in LedgerState
  BY RecoverType
<1>1. K \in SUBSET Key /\ \A k \in K : HasStatus(s, k, "reserved")
  BY DEF ExpiredKeys
<1>2. ASSUME NEW k \in K
      PROVE  /\ s.reservations[k] \in Reservation
             /\ s.reservations[k].actual = Null /\ s.reservations[k].settlement = Null
  BY <1>1 DEF Sound, LifecycleOK, HasStatus, LedgerState
<1>3. q.reservations =
        [k \in Key |-> IF k \in charged THEN ChargedAtMaximum(s.reservations[k])
                       ELSE IF k \in K THEN [s.reservations[k] EXCEPT !.status = "released"]
                       ELSE s.reservations[k]]
  BY DEF recoverExpired, LedgerState
<1>4. ASSUME NEW k \in charged
      PROVE  /\ q.reservations[k] = ChargedAtMaximum(s.reservations[k])
             /\ q.reservations[k] # Null
             /\ SameRun(s.reservations[k], q.reservations[k])
             /\ q.reservations[k].status = "reconciled"
             /\ q.reservations[k].actual = s.reservations[k].amounts
             /\ q.reservations[k].actual # Null /\ q.reservations[k].settlement # Null
  <2>1. q.reservations[k] = ChargedAtMaximum(s.reservations[k])
    BY <1>1, <1>3
  <2>2. s.reservations[k] \in Reservation /\ q.reservations[k] \in Reservation
    BY <1>2, <2>1, ChargedType
  <2>3. /\ SameRun(s.reservations[k], q.reservations[k])
        /\ q.reservations[k].status = "reconciled"
        /\ q.reservations[k].actual = s.reservations[k].amounts
        /\ q.reservations[k].settlement = [usage_source |-> "reserved_max_uncertain",
                                           actual_cost_known |-> FALSE]
    BY <2>1, <2>2 DEF ChargedAtMaximum, Reservation, SameRun
  <2>4. s.reservations[k].amounts \in Amounts /\ q.reservations[k].settlement \in Settlement
    BY <2>2, <2>3 DEF Reservation, Settlement
  <2>5. QED BY <2>1, <2>2, <2>3, <2>4, NullIsNoRecord
<1>5. ASSUME NEW k \in K, k \notin charged
      PROVE  /\ q.reservations[k] # Null
             /\ SameRun(s.reservations[k], q.reservations[k])
             /\ q.reservations[k].status = "released"
             /\ q.reservations[k].actual = Null /\ q.reservations[k].settlement = Null
             /\ ~q.reservations[k].started
  <2>1. q.reservations[k] = [s.reservations[k] EXCEPT !.status = "released"]
    BY <1>1, <1>3, <1>5
  <2>2. [s.reservations[k] EXCEPT !.status = "released"] \in Reservation
    BY <1>2 DEF Reservation
  <2>3. ~s.reservations[k].started
    BY <1>5
  <2>4. QED BY <1>2, <2>1, <2>2, <2>3, NullIsNoRecord DEF Reservation, SameRun
<1>6. q.leases = CloseLeases(s.leases, L, t)
  <2>1. ASSUME NEW l \in LeaseId, IsActive(s, l)
        PROVE  l \in ExpiredLeases(s, t) <=> l \in L
    <3> DEFINE k == s.leases[l].reservation_key
    <3>1. k \in Key
      BY <2>1 DEF IsActive, LedgerState, Lease
    <3>2. HasStatus(s, k, "reserved") /\ s.reservations[k].lease_id = l
      BY <2>1 DEF Sound, LeaseHeld
    <3>3. ASSUME l \in ExpiredLeases(s, t) PROVE l \in L
      BY <3>1, <3>2, <3>3 DEF ExpiredKeys
    <3>4. ASSUME l \in L PROVE l \in ExpiredLeases(s, t)
      <4>1. PICK j \in K : s.reservations[j].lease_id = l
        BY <3>4
      <4>2. PICK m \in ExpiredLeases(s, t) : s.leases[m].reservation_key = j
        BY <4>1 DEF ExpiredKeys
      <4>3. m \in LeaseId /\ IsActive(s, m)
        BY <4>2 DEF ExpiredLeases, activeLeases
      <4>4. s.reservations[j].lease_id = m
        BY <4>2, <4>3 DEF Sound, LeaseHeld
      <4>5. QED BY <4>1, <4>2, <4>4
    <3>5. QED BY <3>3, <3>4
  <2>2. q.leases = CloseLeases(s.leases, ExpiredLeases(s, t), t)
    BY DEF recoverExpired, LedgerState
  <2> HIDE DEF L
  <2>3. QED BY <2>1, <2>2 DEF CloseLeases, IsActive
<1>7. q.reserved = Minus(s.reserved, [c \in Counter |-> SumKeys(HeldIn(s, K, c))])
  BY DEF recoverExpired, LedgerState, HeldIn
<1>8. ASSUME NEW c \in Counter
      PROVE  /\ q.used[c] = s.used[c] + SumKeys(SpentIn(q, K, c))
             /\ \A k \in K : SpentBy(q, k, c) <= s.reservations[k].amounts[c]
  <2>1. \A k \in K : SpentBy(q, k, c) = IF k \in charged THEN s.reservations[k].amounts[c] ELSE 0
    BY <1>4, <1>5 DEF SpentBy, HasStatus
  <2>2. SpentIn(q, K, c)
          = [k \in Key |-> IF k \in charged THEN s.reservations[k].amounts[c] ELSE 0]
    BY <1>1, <2>1 DEF SpentIn
  <2>3. q.used = Plus(s.used, [e \in Counter |->
             SumKeys([k \in Key |-> IF k \in charged THEN s.reservations[k].amounts[e] ELSE 0])])
    BY DEF recoverExpired, LedgerState
  <2>4. \A k \in K : s.reservations[k].amounts[c] \in Nat
    BY <1>2 DEF Reservation, Amounts
  <2>5. q.used[c] = s.used[c] + SumKeys(SpentIn(q, K, c))
    BY <2>2, <2>3 DEF Plus
  <2>6. QED BY <2>1, <2>4, <2>5
<1>9. s.audit \subseteq q.audit
  BY DEF recoverExpired, LedgerState
<1>10. \A k \in Key : k \notin K => q.reservations[k] = s.reservations[k]
  BY <1>3
<1> HIDE DEF K, q, charged
<1>11. Closing(s, q, K, t)
  BY <1>1, <1>4, <1>5, <1>6, <1>7, <1>8, <1>10 DEF Closing
<1>12. Bounded(s, q, K)
  BY <1>8, <1>9 DEF Bounded
<1>13. QED BY <1>1, <1>11, <1>12 DEF K, q

\* Closing one reservation is closing a set of one.
LEMMA ClosingOne ==
    ASSUME NEW s \in LedgerState, NEW q \in LedgerState, NEW k \in Key, NEW t \in Nat,
           HasStatus(s, k, "reserved"),
           \A j \in Key : j # k => q.reservations[j] = s.reservations[j],
           q.reservations[k] # Null,
           SameRun(s.reservations[k], q.reservations[k]),
           \/ /\ q.reservations[k].status = "reconciled"
              /\ q.reservations[k].actual # Null /\ q.reservations[k].settlement # Null
           \/ /\ q.reservations[k].status = "released" /\ ~q.reservations[k].started
              /\ q.reservations[k].actual = Null /\ q.reservations[k].settlement = Null,
           q.leases = CloseLeases(s.leases, {s.reservations[k].lease_id}, t),
           q.reserved = Minus(s.reserved, s.reservations[k].amounts),
           \A c \in Counter : q.used[c] = s.used[c] + SpentBy(q, k, c)
    PROVE  Closing(s, q, {k}, t)
<1>1. ASSUME NEW c \in Counter
      PROVE  /\ SumKeys(HeldIn(s, {k}, c)) = s.reservations[k].amounts[c]
             /\ SumKeys(SpentIn(q, {k}, c)) = SpentBy(q, k, c)
  <2>1. HeldIn(s, {k}, c) \in [Key -> Nat] /\ SpentIn(q, {k}, c) \in [Key -> Nat]
    BY HeldInType, SummandTypes
  <2>2. /\ \A j \in Key : j # k => HeldIn(s, {k}, c)[j] = 0 /\ SpentIn(q, {k}, c)[j] = 0
        /\ HeldIn(s, {k}, c)[k] = s.reservations[k].amounts[c]
        /\ SpentIn(q, {k}, c)[k] = SpentBy(q, k, c)
    BY DEF HeldIn, SpentIn
  <2>3. QED BY <2>1, <2>2, SumSingle DEF SumKeys
<1>2. [c \in Counter |-> SumKeys(HeldIn(s, {k}, c))] = s.reservations[k].amounts
  <2>1. s.reservations[k].amounts \in Amounts
    BY DEF HasStatus, LedgerState, Reservation
  <2>2. QED BY <1>1, <2>1 DEF Amounts
<1>3. {s.reservations[j].lease_id : j \in {k}} = {s.reservations[k].lease_id}
  OBVIOUS
<1>4. q.leases = CloseLeases(s.leases, {s.reservations[j].lease_id : j \in {k}}, t)
  BY <1>3
<1>5. q.reserved = Minus(s.reserved, [c \in Counter |-> SumKeys(HeldIn(s, {k}, c))])
  BY <1>2
<1>6. \A c \in Counter : q.used[c] = s.used[c] + SumKeys(SpentIn(q, {k}, c))
  BY <1>1
<1>7. \A j \in {k} :
        LET r == q.reservations[j] IN
        /\ r # Null /\ SameRun(s.reservations[j], r)
        /\ \/ r.status = "reconciled" /\ r.actual # Null /\ r.settlement # Null
           \/ r.status = "released" /\ r.actual = Null /\ r.settlement = Null /\ ~r.started
  OBVIOUS
<1>8. (\A j \in {k} : HasStatus(s, j, "reserved"))
      /\ \A j \in Key : j \notin {k} => q.reservations[j] = s.reservations[j]
  OBVIOUS
<1>9. QED BY <1>4, <1>5, <1>6, <1>7, <1>8, Zenon DEF Closing

\* A charge within its reservation is bounded.
LEMMA BoundedOne ==
    ASSUME NEW s, NEW q, NEW k, s.audit \subseteq q.audit,
           \A c \in Counter : SpentBy(q, k, c) <= s.reservations[k].amounts[c]
    PROVE  Bounded(s, q, {k})
BY DEF Bounded

\* Every single settlement or release closes one reservation, and only an audited
\* overage charges more than it held.
LEMMA ClosesOneCloses ==
    ASSUME NEW s \in LedgerState, NEW t \in Nat, NEW q \in LedgerState,
           Sound(s), ClosesOne(s, q, t)
    PROVE  \E k \in Key : Closing(s, q, {k}, t) /\ Bounded(s, q, {k})
<1>1. PICK k \in Key :
        /\ HasStatus(s, k, "reserved")
        /\ \/ q = chargeUncertainReservation(s, k, t)
           \/ \E usage \in Usage, costKnown \in BOOLEAN, hasResult \in BOOLEAN :
                 q = ReconcileExactly(s, k, usage, costKnown, hasResult, t)
           \/ q = SettlePaper(s, k, t)
           \/ ~s.reservations[k].started /\ q = ReleaseReservation(s, k, t)
  BY DEF ClosesOne
<1> DEFINE r == s.reservations[k]
<1>2. r \in Reservation /\ r.amounts \in Amounts /\ r.actual = Null /\ r.settlement = Null
  BY <1>1 DEF Sound, LifecycleOK, HasStatus, LedgerState, Reservation
<1>3. /\ s.used \in Amounts /\ q.used \in Amounts
      /\ s.reservations \in [Key -> Reservation \cup {Null}]
  BY DEF LedgerState
<1>4. ASSUME NEW rr \in Reservation, NEW spent \in Amounts,
             q.reservations = [s.reservations EXCEPT ![k] = rr],
             SameRun(r, rr), rr.status = "reconciled",
             rr.actual = spent, rr.settlement \in Settlement,
             q.leases = CloseLeases(s.leases, {r.lease_id}, t),
             q.reserved = Minus(s.reserved, r.amounts),
             q.used = Plus(s.used, spent)
      PROVE  Closing(s, q, {k}, t) /\ \A c \in Counter : SpentBy(q, k, c) = spent[c]
  <2>1. q.reservations[k] = rr /\ \A j \in Key : j # k => q.reservations[j] = s.reservations[j]
    BY <1>3, <1>4
  <2>2. rr # Null /\ rr.actual # Null /\ rr.settlement # Null
    BY <1>4, NullIsNoRecord
  <2>3. \A c \in Counter : SpentBy(q, k, c) = spent[c]
    BY <1>4, <2>1, <2>2 DEF SpentBy, HasStatus
  <2>4. \A c \in Counter : q.used[c] = s.used[c] + SpentBy(q, k, c)
    BY <1>4, <2>3 DEF Plus
  <2>5. QED BY <1>1, <1>4, <2>1, <2>2, <2>3, <2>4, ClosingOne
<1>5. CASE q = chargeUncertainReservation(s, k, t)
  <2>1. ChargedAtMaximum(r) \in Reservation
    BY <1>2, ChargedType
  <2>2. /\ q.reservations = [s.reservations EXCEPT ![k] = ChargedAtMaximum(r)]
        /\ q.leases = CloseLeases(s.leases, {r.lease_id}, t)
        /\ q.reserved = Minus(s.reserved, r.amounts)
        /\ q.used = Plus(s.used, r.amounts)
        /\ s.audit \subseteq q.audit
    BY <1>5 DEF chargeUncertainReservation, LedgerState
  <2>3. /\ SameRun(r, ChargedAtMaximum(r))
        /\ ChargedAtMaximum(r).status = "reconciled"
        /\ ChargedAtMaximum(r).actual = r.amounts
        /\ ChargedAtMaximum(r).settlement \in Settlement
    BY <1>2 DEF ChargedAtMaximum, Reservation, Settlement, SameRun
  <2>4. Closing(s, q, {k}, t) /\ \A c \in Counter : SpentBy(q, k, c) = r.amounts[c]
    BY <1>2, <1>4, <2>1, <2>2, <2>3
  <2>5. \A c \in Counter : SpentBy(q, k, c) <= r.amounts[c]
    BY <1>2, <2>4 DEF Amounts
  <2>6. QED BY <2>2, <2>4, <2>5, BoundedOne
<1>6. CASE \E usage \in Usage, costKnown \in BOOLEAN, hasResult \in BOOLEAN :
             q = ReconcileExactly(s, k, usage, costKnown, hasResult, t)
  <2>1. PICK usage \in Usage, costKnown \in BOOLEAN, hasResult \in BOOLEAN :
             q = ReconcileExactly(s, k, usage, costKnown, hasResult, t)
    BY <1>6
  <2> DEFINE rr == ExactlySettled(r, usage, costKnown, hasResult)
  <2>2. usage \in Amounts
    BY CounterAssumption DEF Amounts
  <2>3. rr \in Reservation
    BY <1>2, <2>2, ExactlyType
  <2>4. /\ q.reservations = [s.reservations EXCEPT ![k] = rr]
        /\ q.leases = CloseLeases(s.leases, {r.lease_id}, t)
        /\ q.reserved = Minus(s.reserved, r.amounts)
        /\ q.used = Plus(s.used, usage)
        /\ q.audit = s.audit \cup (IF exceedsReserved(r.amounts, usage)
                         THEN {[kind |-> "actual_exceeds_reserved", run |-> r.lease_id]}
                         ELSE {})
    BY <2>1 DEF ReconcileExactly, LedgerState
  <2>5. /\ SameRun(r, rr) /\ rr.status = "reconciled"
        /\ rr.actual = usage /\ rr.settlement # Null
    BY <1>2, NullIsNoRecord DEF ExactlySettled, Reservation, Settlement, SameRun
  <2>6. rr.settlement \in Settlement
    BY <2>3, <2>5 DEF Reservation
  <2>7. Closing(s, q, {k}, t) /\ \A c \in Counter : SpentBy(q, k, c) = usage[c]
    BY <1>4, <2>2, <2>3, <2>4, <2>5, <2>6
  <2>8. Bounded(s, q, {k})
    <3>1. CASE exceedsReserved(r.amounts, usage)
      <4> DEFINE x == [kind |-> "actual_exceeds_reserved", run |-> r.lease_id]
      <4>1. q.audit = s.audit \cup {x} /\ x.kind = "actual_exceeds_reserved"
        BY <2>4, <3>1
      <4> HIDE DEF x
      <4>2. QED BY <4>1 DEF Bounded
    <3>2. CASE ~exceedsReserved(r.amounts, usage)
      <4>1. \A c \in Counter : usage[c] <= r.amounts[c]
        BY <1>2, <2>2, <3>2 DEF exceedsReserved, Amounts
      <4>2. s.audit \subseteq q.audit
        BY <2>4
      <4>3. QED BY <2>7, <4>1, <4>2, BoundedOne
    <3>3. QED BY <3>1, <3>2
  <2>9. QED BY <2>7, <2>8
<1>7. CASE q = SettlePaper(s, k, t)
  <2>1. PaperUsage(r) \in Amounts
    BY <1>2 DEF PaperUsage, Amounts
  <2>2. /\ PaperSettled(r) \in Reservation
        /\ SameRun(r, PaperSettled(r))
        /\ PaperSettled(r).status = "reconciled"
        /\ PaperSettled(r).actual = PaperUsage(r)
        /\ PaperSettled(r).settlement \in Settlement
    BY <1>2, <2>1 DEF PaperSettled, Reservation, Settlement, SameRun
  <2>3. /\ q.reservations = [s.reservations EXCEPT ![k] = PaperSettled(r)]
        /\ q.leases = CloseLeases(s.leases, {r.lease_id}, t)
        /\ q.reserved = Minus(s.reserved, r.amounts)
        /\ q.used = Plus(s.used, PaperUsage(r))
        /\ q.audit = s.audit
    BY <1>7 DEF SettlePaper, LedgerState
  <2>4. Closing(s, q, {k}, t) /\ \A c \in Counter : SpentBy(q, k, c) = PaperUsage(r)[c]
    BY <1>4, <2>1, <2>2, <2>3
  <2>5. \A c \in Counter : PaperUsage(r)[c] <= r.amounts[c]
    BY <1>2 DEF PaperUsage, Amounts
  <2>6. QED BY <2>3, <2>4, <2>5, BoundedOne
<1>8. CASE ~s.reservations[k].started /\ q = ReleaseReservation(s, k, t)
  <2> DEFINE rr == [r EXCEPT !.status = "released"]
  <2>1. /\ rr \in Reservation /\ SameRun(r, rr) /\ rr.status = "released"
        /\ rr.actual = Null /\ rr.settlement = Null /\ ~rr.started
    BY <1>2, <1>8 DEF Reservation, SameRun
  <2>2. /\ q.reservations = [s.reservations EXCEPT ![k] = rr]
        /\ q.leases = CloseLeases(s.leases, {r.lease_id}, t)
        /\ q.reserved = Minus(s.reserved, r.amounts)
        /\ q.used = s.used
        /\ q.audit = s.audit
    BY <1>8 DEF ReleaseReservation, LedgerState
  <2>3. q.reservations[k] = rr /\ \A j \in Key : j # k => q.reservations[j] = s.reservations[j]
    BY <1>3, <2>2
  <2> HIDE DEF rr
  <2>4. rr # Null
    BY <2>1, NullIsNoRecord
  <2>5. \A c \in Counter : SpentBy(q, k, c) = 0
    BY <2>1, <2>3 DEF SpentBy, HasStatus
  <2>6. \A c \in Counter : q.used[c] = s.used[c] + SpentBy(q, k, c)
    BY <1>3, <2>2, <2>5 DEF Amounts
  <2>7. Closing(s, q, {k}, t)
    BY <1>1, <2>1, <2>2, <2>3, <2>4, <2>6, ClosingOne
  <2>8. \A c \in Counter : SpentBy(q, k, c) <= r.amounts[c]
    BY <1>2, <2>5 DEF Amounts
  <2>9. QED BY <2>2, <2>7, <2>8, BoundedOne
<1>9. QED BY <1>1, <1>5, <1>6, <1>7, <1>8

-----------------------------------------------------------------------------
(* Steps that move no money *)

\* s and q agree on everything the accounts depend on.
Alike(s, q) ==
    /\ q.used = s.used /\ q.reserved = s.reserved /\ q.audit = s.audit
    /\ \A k \in Key :
         LET r == s.reservations[k]
             x == q.reservations[k]
         IN  \/ x = r
             \/ /\ r # Null /\ x # Null
                /\ x.status = r.status /\ x.lease_id = r.lease_id
                /\ x.owner = r.owner /\ x.request_digest = r.request_digest
                /\ x.amounts = r.amounts /\ x.actual = r.actual
                /\ x.settlement = r.settlement
                /\ r.status # "released"
    /\ \A l \in LeaseId :
         LET e == s.leases[l]
             x == q.leases[l]
         IN  \/ x = e
             \/ /\ e # Null /\ x # Null
                /\ x.reservation_key = e.reservation_key /\ x.released_at = e.released_at

\* Such steps keep the invariant and what was settled.
LEMMA AlikeSafe ==
    ASSUME NEW s \in LedgerState, NEW q \in LedgerState, Safe(s), Alike(s, q)
    PROVE  Safe(q) /\ Keeps(s, q)
<1>1. ASSUME NEW k \in Key
      PROVE  /\ \A st : HasStatus(q, k, st) <=> HasStatus(s, k, st)
             /\ \A c \in Counter : HeldBy(q, k, c) = HeldBy(s, k, c)
             /\ \A c \in Counter : SpentBy(q, k, c) = SpentBy(s, k, c)
  <2>1. \A st : HasStatus(q, k, st) <=> HasStatus(s, k, st)
    BY DEF Alike, HasStatus
  <2>2. HasStatus(s, k, "reserved") \/ HasStatus(s, k, "reconciled") =>
          /\ q.reservations[k].amounts = s.reservations[k].amounts
          /\ q.reservations[k].actual = s.reservations[k].actual
    BY DEF Alike, HasStatus
  <2>3. QED BY <2>1, <2>2 DEF HeldBy, SpentBy
<1>2. CountersOK(q)
  <2>1. ASSUME NEW c \in Counter
        PROVE  /\ [k \in Key |-> HeldBy(q, k, c)] = [k \in Key |-> HeldBy(s, k, c)]
               /\ [k \in Key |-> SpentBy(q, k, c)] = [k \in Key |-> SpentBy(s, k, c)]
    BY <1>1
  <2>2. QED BY <2>1 DEF CountersOK, Alike, Safe, Sound
<1>3. \A l \in LeaseId : IsActive(q, l) <=> IsActive(s, l)
  BY DEF Alike, IsActive
<1>4. ASSUME NEW k \in Key PROVE LifecycleOK(q, k)
  <2>1. LifecycleOK(s, k)
    BY DEF Safe, Sound
  <2>2. s.reservations[k] # Null => s.reservations[k].lease_id \in LeaseId
    BY DEF LedgerState, Reservation
  <2>3. QED BY <2>1, <2>2 DEF Alike, LifecycleOK
<1>5. ASSUME NEW l \in LeaseId PROVE LeaseHeld(q, l)
  <2> SUFFICES ASSUME IsActive(q, l) PROVE LeaseHeld(q, l)
    BY DEF LeaseHeld
  <2> DEFINE k == s.leases[l].reservation_key
  <2>1. IsActive(s, l) /\ q.leases[l].reservation_key = k
    BY <1>3 DEF Alike, IsActive
  <2>2. k \in Key
    BY <2>1 DEF IsActive, LedgerState, Lease
  <2>3. HasStatus(s, k, "reserved") /\ s.reservations[k].lease_id = l
    BY <2>1 DEF Safe, Sound, LeaseHeld
  <2>4. HasStatus(q, k, "reserved") /\ q.reservations[k].lease_id = l
    BY <1>1, <2>2, <2>3 DEF Alike
  <2>5. QED BY <2>1, <2>4 DEF LeaseHeld
<1>6. activeLeases(q) = activeLeases(s)
  BY <1>3 DEF activeLeases
<1>7. WithinCaps(q)
  BY DEF Alike, Safe, WithinCaps
<1>8. Keeps(s, q)
  <2>1. \A c \in Counter : q.used[c] >= s.used[c]
    BY DEF Alike, LedgerState, Amounts
  <2>2. ASSUME NEW k \in Key, HasStatus(s, k, "reconciled")
        PROVE  /\ HasStatus(q, k, "reconciled")
               /\ q.reservations[k].lease_id = s.reservations[k].lease_id
               /\ q.reservations[k].actual = s.reservations[k].actual
               /\ q.reservations[k].settlement = s.reservations[k].settlement
    BY <2>2 DEF Alike, HasStatus
  <2>3. QED BY <2>1, <2>2 DEF Keeps
<1>9. QED BY <1>2, <1>4, <1>5, <1>6, <1>7, <1>8 DEF Safe, Sound

\* Creating, tombstones, the quarantine, heartbeats, clearing a secret and releasing the
\* lease of a closed reservation move no money; the last finds it already released.
LEMMA TouchesAlike ==
    ASSUME NEW s \in LedgerState, NEW t \in Nat, NEW q \in LedgerState,
           Sound(s), Touches(s, q, t)
    PROVE  Alike(s, q)
<1>1. CASE q \in {s, ensureCreated(s), persistOwnerCancellationQuarantine(s, t)}
  BY <1>1 DEF Alike, ensureCreated, persistOwnerCancellationQuarantine, LedgerState
<1>2. CASE \E k \in Key, d \in Digest, o \in Owner : q = WithTombstone(s, o, k, d, t)
  BY <1>2, TombstoneFrame DEF Alike
<1>3. CASE \E l \in LeaseId : q = heartbeatLease(s, l, t)
  <2>1. PICK l \in LeaseId : q = heartbeatLease(s, l, t)
    BY <1>3
  <2>2. CASE IsActive(s, l)
    <3> DEFINE e == [s.leases[l] EXCEPT !.expires_at = t + TTL]
    <3>1. s.leases[l] \in Lease /\ s.leases[l] # Null
      BY <2>2 DEF IsActive, LedgerState
    <3>2. /\ e \in Lease /\ e.reservation_key = s.leases[l].reservation_key
          /\ e.released_at = s.leases[l].released_at
      BY <3>1, BoundAssumption DEF Lease
    <3>3. e # Null
      BY <3>2, NullIsNoRecord
    <3>4. /\ q.leases = [s.leases EXCEPT ![l] = e] /\ q.reservations = s.reservations
          /\ q.used = s.used /\ q.reserved = s.reserved /\ q.audit = s.audit
      BY <2>1, <2>2 DEF heartbeatLease, LedgerState
    <3>5. s.leases \in [LeaseId -> Lease \cup {Null}]
      BY DEF LedgerState
    <3> HIDE DEF e
    <3>6. QED BY <3>1, <3>2, <3>3, <3>4, <3>5 DEF Alike
  <2>3. CASE ~IsActive(s, l)
    BY <2>1, <2>3 DEF heartbeatLease, Alike
  <2>4. QED BY <2>2, <2>3
<1>4. CASE \E k \in Key : HasStatus(s, k, "reconciled")
                          /\ q = [s EXCEPT !.reservations[k].secret = FALSE]
  <2>1. PICK k \in Key : HasStatus(s, k, "reconciled")
                         /\ q = [s EXCEPT !.reservations[k].secret = FALSE]
    BY <1>4, Zenon
  <2> DEFINE x == [s.reservations[k] EXCEPT !.secret = FALSE]
  <2>2. s.reservations[k] \in Reservation /\ s.reservations[k] # Null
    BY <2>1 DEF HasStatus, LedgerState
  <2>3. /\ x \in Reservation /\ x.status = s.reservations[k].status
        /\ x.lease_id = s.reservations[k].lease_id
        /\ x.owner = s.reservations[k].owner
        /\ x.request_digest = s.reservations[k].request_digest
        /\ x.amounts = s.reservations[k].amounts /\ x.actual = s.reservations[k].actual
        /\ x.settlement = s.reservations[k].settlement
    BY <2>2 DEF Reservation
  <2>4. x # Null
    BY <2>3, NullIsNoRecord
  <2>5. /\ q.reservations = [s.reservations EXCEPT ![k] = x] /\ q.leases = s.leases
        /\ q.used = s.used /\ q.reserved = s.reserved /\ q.audit = s.audit
    BY <2>1 DEF LedgerState
  <2>6. s.reservations \in [Key -> Reservation \cup {Null}]
    BY DEF LedgerState
  <2>7. s.reservations[k].status # "released"
    BY <2>1 DEF HasStatus
  <2> HIDE DEF x
  <2>8. q.reservations[k] = x /\ \A j \in Key : j # k => q.reservations[j] = s.reservations[j]
    BY <2>5, <2>6
  <2>9. QED BY <2>2, <2>3, <2>4, <2>5, <2>7, <2>8 DEF Alike
<1>5. CASE \E k \in Key : /\ s.reservations[k] # Null /\ s.reservations[k].status # "reserved"
                          /\ q = [s EXCEPT !.leases = CloseLeases(@, {s.reservations[k].lease_id}, t)]
  <2>1. PICK k \in Key : /\ s.reservations[k] # Null /\ s.reservations[k].status # "reserved"
                         /\ q = [s EXCEPT !.leases = CloseLeases(@, {s.reservations[k].lease_id}, t)]
    BY <1>5, Zenon
  <2>2. s.leases[s.reservations[k].lease_id].released_at # Null
    BY <2>1 DEF Sound, LifecycleOK
  <2>3. CloseLeases(s.leases, {s.reservations[k].lease_id}, t) = s.leases
    BY <2>2 DEF CloseLeases, LedgerState
  <2>4. q.leases = s.leases
    BY <2>1, <2>3 DEF LedgerState
  <2>5. /\ q.used = s.used /\ q.reserved = s.reserved /\ q.audit = s.audit
        /\ q.reservations = s.reservations
    BY <2>1 DEF LedgerState
  <2>6. QED BY <2>4, <2>5 DEF Alike
<1>6. QED BY <1>1, <1>2, <1>3, <1>4, <1>5, Zenon DEF Touches

\* Marking a run started moves no money.
LEMMA MarksAlike ==
    ASSUME NEW s \in LedgerState, NEW q \in LedgerState, Marks(s, q)
    PROVE  Alike(s, q)
<1>1. PICK k \in Key, d \in Digest, o \in Owner \cup {Null}, l \in LeaseId,
           seen \in LeaseId \cup {Null} :
        /\ MarkVerdict(s, k, d, o, l, seen) = "started"
        /\ q = markProviderStarted(s, k, d, o, l, seen)
  BY DEF Marks
<1> DEFINE r == s.reservations[k]
           x == [[[[r EXCEPT !.started = TRUE] EXCEPT !.consumed = FALSE] EXCEPT !.secret = TRUE]
                    EXCEPT !.hash = seen]
<1>2. r # Null /\ r.status = "reserved" /\ seen = r.lease_id
  BY <1>1 DEF MarkVerdict, FrozenForStart
<1>3. r \in Reservation
  BY <1>2 DEF LedgerState
<1>4. /\ x \in Reservation /\ x.status = r.status /\ x.lease_id = r.lease_id
      /\ x.owner = r.owner /\ x.request_digest = r.request_digest
      /\ x.amounts = r.amounts /\ x.actual = r.actual /\ x.settlement = r.settlement
  BY <1>2, <1>3 DEF Reservation
<1>5. x # Null
  BY <1>4, NullIsNoRecord
<1>6. /\ q.reservations = [s.reservations EXCEPT ![k] = x] /\ q.leases = s.leases
      /\ q.used = s.used /\ q.reserved = s.reserved /\ q.audit = s.audit
  BY <1>1 DEF markProviderStarted, LedgerState
<1>7. s.reservations \in [Key -> Reservation \cup {Null}]
  BY DEF LedgerState
<1> HIDE DEF x
<1>8. QED BY <1>2, <1>4, <1>5, <1>6, <1>7 DEF Alike

-----------------------------------------------------------------------------
(* Admission *)

\* A fresh reservation under a free key and a fresh lease adds its amounts to reserved.
LEMMA AdmitSafe ==
    ASSUME NEW s \in LedgerState, NEW t \in Nat, NEW q \in LedgerState,
           Safe(s), Admits(s, q, t)
    PROVE  Safe(q) /\ Keeps(s, q)
<1>1. PICK k \in Key, d \in Digest, o \in Owner \cup {Null}, a \in ReserveAmounts,
           l \in LeaseId :
        /\ s.leases[l] = Null
        /\ s.reservations[k] = Null \/ HasStatus(s, k, "released")
        /\ ~insufficient(s, a)
        /\ Cardinality(activeLeases(s)) < MaxParallel
        /\ q = AdmitReservation(ensureCreated(s), k, d, o, a, l, t)
  BY DEF Admits
<1> DEFINE e == [reservation_key |-> k, acquired_at |-> t, expires_at |-> t + TTL,
                 released_at |-> Null]
           x == [request_digest |-> d, owner |-> o, lease_id |-> l, amounts |-> a,
                 actual |-> Null, status |-> "reserved", started |-> FALSE,
                 consumed |-> FALSE, secret |-> FALSE, hash |-> Null, settlement |-> Null,
                 finalize_error |-> Null, cached |-> FALSE]
<1>2. a \in Amounts
  BY CounterAssumption DEF Amounts
<1>3. /\ q.leases = [s.leases EXCEPT ![l] = e]
      /\ q.reservations = [s.reservations EXCEPT ![k] = x]
      /\ q.reserved = Plus(s.reserved, a) /\ q.used = s.used /\ q.audit = s.audit
  BY <1>1 DEF AdmitReservation, ensureCreated, LedgerState
<1>4. /\ s.leases \in [LeaseId -> Lease \cup {Null}]
      /\ s.reservations \in [Key -> Reservation \cup {Null}]
      /\ s.used \in Amounts /\ s.reserved \in Amounts
  BY DEF LedgerState
<1>5. e \in Lease /\ x \in Reservation
  BY <1>2, BoundAssumption DEF Lease, Reservation
<1>6. e # Null /\ e.reservation_key = k /\ e.released_at = Null
  BY <1>5, NullIsNoRecord
<1>7. /\ x # Null /\ x.lease_id = l /\ x.amounts = a /\ x.status = "reserved"
      /\ x.actual = Null /\ x.settlement = Null
  BY <1>5, NullIsNoRecord
<1> HIDE DEF e, x
<1>8. /\ q.leases[l] = e /\ \A m \in LeaseId : m # l => q.leases[m] = s.leases[m]
      /\ q.reservations[k] = x /\ \A j \in Key : j # k => q.reservations[j] = s.reservations[j]
  BY <1>3, <1>4
<1>9. ~HasStatus(s, k, "reserved") /\ ~HasStatus(s, k, "reconciled")
  BY <1>1 DEF HasStatus
<1>10. ASSUME NEW c \in Counter
       PROVE  /\ q.reserved[c] = SumKeys([j \in Key |-> HeldBy(q, j, c)])
              /\ q.used[c] = SumKeys([j \in Key |-> SpentBy(q, j, c)])
  <2> DEFINE held == [j \in Key |-> HeldBy(s, j, c)]
             heldQ == [j \in Key |-> HeldBy(q, j, c)]
             spent == [j \in Key |-> SpentBy(s, j, c)]
             spentQ == [j \in Key |-> SpentBy(q, j, c)]
  <2>1. held \in [Key -> Nat] /\ heldQ \in [Key -> Nat]
    BY SummandTypes
  <2>2. held[k] = 0 /\ heldQ[k] = a[c] /\ spent[k] = 0 /\ spentQ[k] = 0
    BY <1>7, <1>8, <1>9 DEF HeldBy, SpentBy, HasStatus
  <2>3. \A j \in Key : j # k => held[j] = heldQ[j] /\ spent[j] = spentQ[j]
    BY <1>8 DEF HeldBy, SpentBy, HasStatus
  <2>4. spent = spentQ
    BY <2>2, <2>3
  <2>5. s.reserved[c] = SumOver(Key, held) /\ s.used[c] = SumOver(Key, spent)
    BY DEF Safe, Sound, CountersOK, SumKeys
  <2>6. q.reserved[c] = s.reserved[c] + a[c] /\ q.used[c] = s.used[c]
    BY <1>3 DEF Plus
  <2>7. a[c] \in Nat
    BY <1>2 DEF Amounts
  <2> HIDE DEF held, heldQ, spent, spentQ
  <2>8. /\ SumOver(Key, held) \in Nat
        /\ SumOver(Key, heldQ) = SumOver(Key, held) - held[k] + heldQ[k]
    BY <2>1, <2>3, FiniteAssumption, SumUpdate
  <2>9. q.reserved[c] = SumOver(Key, heldQ)
    BY <2>2, <2>5, <2>6, <2>7, <2>8
  <2>10. QED BY <2>4, <2>5, <2>6, <2>9 DEF SumKeys, heldQ, spentQ
<1>11. ASSUME NEW j \in Key PROVE LifecycleOK(q, j)
  <2>1. CASE j = k
    BY <1>6, <1>7, <1>8, <2>1 DEF LifecycleOK
  <2>2. CASE j # k /\ s.reservations[j] # Null
    <3>1. LifecycleOK(s, j) /\ s.reservations[j].lease_id \in LeaseId
      BY <2>2 DEF Safe, Sound, LedgerState, Reservation
    <3>2. s.reservations[j].lease_id # l
      BY <1>1, <2>2, <3>1 DEF LifecycleOK
    <3>3. QED BY <1>8, <2>2, <3>1, <3>2 DEF LifecycleOK
  <2>3. CASE j # k /\ s.reservations[j] = Null
    BY <1>8, <2>3 DEF LifecycleOK
  <2>4. QED BY <2>1, <2>2, <2>3
<1>12. ASSUME NEW m \in LeaseId PROVE LeaseHeld(q, m)
  <2>1. CASE m = l
    BY <1>6, <1>7, <1>8, <2>1 DEF LeaseHeld, HasStatus
  <2>2. CASE m # l
    <3> SUFFICES ASSUME IsActive(q, m) PROVE LeaseHeld(q, m)
      BY DEF LeaseHeld
    <3> DEFINE j == s.leases[m].reservation_key
    <3>1. q.leases[m] = s.leases[m] /\ IsActive(s, m)
      BY <1>8, <2>2 DEF IsActive
    <3>2. j \in Key
      BY <1>4, <3>1 DEF IsActive, Lease
    <3>3. HasStatus(s, j, "reserved") /\ s.reservations[j].lease_id = m
      BY <3>1 DEF Safe, Sound, LeaseHeld
    <3>4. q.reservations[j] = s.reservations[j]
      BY <1>8, <1>9, <3>2, <3>3
    <3>5. QED BY <3>1, <3>3, <3>4 DEF LeaseHeld, HasStatus
  <2>3. QED BY <2>1, <2>2
<1>13. Cardinality(activeLeases(q)) <= MaxParallel
  <2>1. activeLeases(q) \subseteq activeLeases(s) \cup {l}
    BY <1>8 DEF activeLeases, IsActive
  <2>2. IsFiniteSet(activeLeases(s))
    BY FiniteAssumption, FS_Subset DEF activeLeases
  <2>3. l \notin activeLeases(s)
    BY <1>1 DEF activeLeases, IsActive
  <2>4. /\ IsFiniteSet(activeLeases(s) \cup {l})
        /\ Cardinality(activeLeases(s) \cup {l}) = Cardinality(activeLeases(s)) + 1
    BY <2>2, <2>3, FS_AddElement
  <2>5. Cardinality(activeLeases(q)) <= Cardinality(activeLeases(s)) + 1
    BY <2>1, <2>4, FS_Subset
  <2>6. IsFiniteSet(activeLeases(q))
    BY <2>1, <2>4, FS_Subset
  <2>7. Cardinality(activeLeases(s)) \in Nat /\ Cardinality(activeLeases(q)) \in Nat
    BY <2>2, <2>6, FS_CardinalityType
  <2>8. QED BY <1>1, <2>5, <2>7, BoundAssumption
<1>14. WithinCaps(q)
  <2> SUFFICES ASSUME \A y \in q.audit : y.kind # "actual_exceeds_reserved",
                      NEW c \in Counter
               PROVE  q.used[c] + q.reserved[c] <= Cap[c]
    BY DEF WithinCaps
  <2>1. s.used[c] + s.reserved[c] <= Cap[c]
    BY <1>3 DEF Safe, WithinCaps
  <2>2. a[c] # 0 => ~(s.used[c] + s.reserved[c] + a[c] > Cap[c])
    BY <1>1 DEF insufficient
  <2>3. /\ a[c] \in Nat /\ s.used[c] \in Nat /\ s.reserved[c] \in Nat /\ Cap[c] \in Nat
        /\ q.reserved[c] = s.reserved[c] + a[c] /\ q.used[c] = s.used[c]
    BY <1>2, <1>3, <1>4, CounterAssumption DEF Amounts, Plus
  <2>4. QED BY <2>1, <2>2, <2>3
<1>15. Keeps(s, q)
  <2>1. \A c \in Counter : q.used[c] >= s.used[c]
    BY <1>3, <1>4 DEF Amounts
  <2>2. \A j \in Key : HasStatus(s, j, "reconciled") => q.reservations[j] = s.reservations[j]
    BY <1>8, <1>9
  <2>3. QED BY <2>1, <2>2 DEF Keeps, HasStatus
<1>16. QED BY <1>10, <1>11, <1>12, <1>13, <1>14, <1>15 DEF Safe, Sound, CountersOK

-----------------------------------------------------------------------------
(* Theorems *)

\* Every transition keeps the invariant and what was settled.
LEMMA TransitionSafe ==
    ASSUME NEW s \in LedgerState, NEW t \in Nat, NEW q, Safe(s), Transition(s, q, t)
    PROVE  q \in LedgerState /\ Safe(q) /\ Keeps(s, q)
<1>1. q \in LedgerState
  BY TransitionType
<1>2. Sound(s)
  BY DEF Safe
<1>3. CASE Admits(s, q, t)
  BY <1>1, <1>3, AdmitSafe
<1>4. CASE Marks(s, q)
  BY <1>1, <1>4, MarksAlike, AlikeSafe
<1>5. CASE ClosesOne(s, q, t)
  <2>1. PICK k \in Key : Closing(s, q, {k}, t) /\ Bounded(s, q, {k})
    BY <1>1, <1>2, <1>5, ClosesOneCloses
  <2>2. {k} \in SUBSET Key
    OBVIOUS
  <2>3. QED BY <1>1, <2>1, <2>2, ClosingSafe
<1>6. CASE Touches(s, q, t)
  BY <1>1, <1>2, <1>6, TouchesAlike, AlikeSafe
<1>7. QED BY <1>1, <1>3, <1>4, <1>5, <1>6 DEF Transition

\* What is kept by two steps is kept by both.
LEMMA KeepsTransitive ==
    ASSUME NEW s \in LedgerState, NEW p \in LedgerState, NEW q \in LedgerState,
           Keeps(s, p), Keeps(p, q)
    PROVE  Keeps(s, q)
<1>1. ASSUME NEW c \in Counter PROVE q.used[c] >= s.used[c]
  <2>1. s.used[c] \in Nat /\ p.used[c] \in Nat /\ q.used[c] \in Nat
    BY DEF LedgerState, Amounts
  <2>2. QED BY <2>1 DEF Keeps
<1>2. QED BY <1>1 DEF Keeps

\* A step keeps the invariant and what was settled.
LEMMA StepSafe ==
    ASSUME NEW s \in LedgerState, NEW t \in Nat, NEW q, Safe(s), Step(s, q, t)
    PROVE  q \in LedgerState /\ Safe(q) /\ Keeps(s, q)
<1>1. CASE Transition(s, q, t)
  BY <1>1, TransitionSafe
<1>2. CASE Cancels(s, q, t)
  <2>1. PICK k \in Key, d \in Digest, o \in Owner, p \in LedgerState :
            /\ p = WithTombstone(s, o, k, d, t)
            /\ HasStatus(p, k, "reserved") /\ ~p.reservations[k].started
            /\ q = ReleaseReservation(p, k, t)
    BY <1>2, CancelsClose
  <2>2. Alike(s, p)
    <3>1. /\ p.reservations = s.reservations /\ p.leases = s.leases /\ p.audit = s.audit
          /\ p.used = s.used /\ p.reserved = s.reserved
      BY <2>1, TombstoneFrame
    <3>2. QED BY <3>1 DEF Alike
  <2>3. Safe(p) /\ Keeps(s, p)
    BY <2>2, AlikeSafe
  <2>4. Transition(p, q, t)
    BY <2>1 DEF Transition, ClosesOne
  <2>5. q \in LedgerState /\ Safe(q) /\ Keeps(p, q)
    BY <2>3, <2>4, TransitionSafe
  <2>6. QED BY <2>3, <2>5, KeepsTransitive
<1>3. QED BY <1>1, <1>2 DEF Step

\* A committed operation keeps the invariant and what was settled.
LEMMA CommitsSafe ==
    ASSUME ledger \in LedgerState, Safe(ledger), Commits
    PROVE  Safe(ledger') /\ Keeps(ledger, ledger')
<1>1. PICK t \in Nat : Step(recoverExpired(ledger, t), ledger', t)
  BY DEF Commits
<1> DEFINE s == recoverExpired(ledger, t)
<1>2. s \in LedgerState
  BY RecoverType
<1>3. Safe(s) /\ Keeps(ledger, s)
  BY <1>2, RecoverCloses, ClosingSafe DEF Safe
<1> HIDE DEF s
<1>4. ledger' \in LedgerState /\ Safe(ledger') /\ Keeps(s, ledger')
  BY <1>1, <1>2, <1>3, StepSafe DEF s
<1>5. QED BY <1>2, <1>3, <1>4, KeepsTransitive

\* The inductive invariant holds of every reachable ledger.
THEOREM AccountingSafe == Spec => []Safe(ledger)
<1>1. Init => Safe(ledger)
  <2> SUFFICES ASSUME Init PROVE Safe(ledger)
    OBVIOUS
  <2>1. /\ ledger.used = zeroCounters /\ ledger.reserved = zeroCounters /\ ledger.audit = {}
        /\ \A k \in Key : ledger.reservations[k] = Null
        /\ \A l \in LeaseId : ledger.leases[l] = Null
    BY DEF Init, emptyLedger
  <2>2. ASSUME NEW c \in Counter
        PROVE  /\ [k \in Key |-> HeldBy(ledger, k, c)] = [k \in Key |-> 0]
               /\ [k \in Key |-> SpentBy(ledger, k, c)] = [k \in Key |-> 0]
    BY <2>1 DEF HeldBy, SpentBy, HasStatus
  <2>3. CountersOK(ledger)
    BY <2>1, <2>2, SumZero DEF CountersOK, SumKeys, zeroCounters
  <2>4. /\ \A k \in Key : LifecycleOK(ledger, k)
        /\ \A l \in LeaseId : LeaseHeld(ledger, l)
    BY <2>1 DEF LifecycleOK, LeaseHeld, IsActive
  <2>5. Cardinality(activeLeases(ledger)) <= MaxParallel
    <3>1. activeLeases(ledger) = {}
      BY <2>1 DEF activeLeases, IsActive
    <3>2. QED BY <3>1, FS_EmptySet, BoundAssumption
  <2>6. WithinCaps(ledger)
    BY <2>1, CounterAssumption DEF WithinCaps, zeroCounters
  <2>7. QED BY <2>3, <2>4, <2>5, <2>6 DEF Safe, Sound
<1>2. TypeOK /\ Safe(ledger) /\ [Next]_vars => Safe(ledger)'
  <2> SUFFICES ASSUME TypeOK, Safe(ledger), [Next]_vars PROVE Safe(ledger')
    OBVIOUS
  <2>1. ledger \in LedgerState
    BY DEF TypeOK
  <2>2. CASE Commits
    BY <2>1, <2>2, CommitsSafe
  <2>3. CASE ledger' = ledger
    BY <2>3
  <2>4. QED BY <2>2, <2>3, NextSteps
<1>3. QED BY <1>1, <1>2, TypeCorrect, PTL DEF Spec

\* The counters of the stored ledger are exactly the sums over its reservations, and
\* every reservation is in a legal state, after every operation and recovery.
THEOREM OccupancyTheorem == Spec => []OccupancyClosed
<1>1. Safe(ledger) => OccupancyClosed
  BY DEF Safe, Sound, OccupancyClosed
<1>2. QED BY <1>1, AccountingSafe, PTL

\* Every open lease is held by an open reservation that names it.
THEOREM LeaseTheorem == Spec => []EveryLeaseHeld
<1>1. Safe(ledger) => EveryLeaseHeld
  BY DEF Safe, Sound, EveryLeaseHeld
<1>2. QED BY <1>1, AccountingSafe, PTL

\* At most max_parallel_experiments leases are open at any time.
THEOREM ParallelTheorem == Spec => []ParallelBound
<1>1. Safe(ledger) => ParallelBound
  BY DEF Safe, ParallelBound
<1>2. QED BY <1>1, AccountingSafe, PTL

\* Spent and reserved stay within every cap unless an overage was audited.
THEOREM HardBudgetTheorem == Spec => []SpendWithinCaps
<1>1. Safe(ledger) => SpendWithinCaps
  BY DEF Safe, WithinCaps, SpendWithinCaps
<1>2. QED BY <1>1, AccountingSafe, PTL

\* A settled run is never charged again, replaced or reopened.
THEOREM SettledOnceTheorem == Spec => SettledOnce
<1> DEFINE A == [Keeps(ledger, ledger')]_vars
<1>1. TypeOK /\ Safe(ledger) /\ [Next]_vars => A
  <2> SUFFICES ASSUME TypeOK, Safe(ledger), [Next]_vars PROVE A
    OBVIOUS
  <2>1. ledger \in LedgerState
    BY DEF TypeOK
  <2>2. CASE Commits
    BY <2>1, <2>2, CommitsSafe
  <2>3. CASE ledger' = ledger
    <3>1. \A c \in Counter : ledger.used[c] \in Nat
      BY <2>1 DEF LedgerState, Amounts
    <3>2. QED BY <2>3, <3>1 DEF Keeps
  <2>4. QED BY <2>2, <2>3, NextSteps
<1>2. QED BY <1>1, TypeCorrect, AccountingSafe, PTL DEF Spec, SettledOnce, Keeps

-----------------------------------------------------------------------------
(* Capabilities: a started run keeps its settlement secret, a cancelled    *)
(* owner holds nothing.  Both are kept because every step that touches an  *)
(* open reservation either closes it, marks it, or admits it past the      *)
(* tombstones.                                                             *)

Settleable(s) ==
    \A k \in Key : HasStatus(s, k, "reserved") /\ s.reservations[k].started =>
                       /\ s.reservations[k].secret /\ ~s.reservations[k].consumed
                       /\ s.reservations[k].hash = s.reservations[k].lease_id

\* The invocation that tombstone x cancelled has an open reservation.
HoldsFor(s, x) ==
    /\ HasStatus(s, x.key, "reserved")
    /\ s.reservations[x.key].owner = x.owner
    /\ s.reservations[x.key].request_digest = x.digest

Capable(s) == Settleable(s) /\ \A x \in s.tombstones : ~HoldsFor(s, x)

\* What is closed is no longer open, the rest is as it was.
LEMMA ClosingCapable ==
    ASSUME NEW p \in LedgerState, NEW q \in LedgerState, NEW K \in SUBSET Key, NEW t,
           Closing(p, q, K, t), Settleable(p),
           \A x \in q.tombstones : x.key \in K \/ ~HoldsFor(p, x)
    PROVE  Capable(q)
<1>1. ASSUME NEW k \in Key, HasStatus(q, k, "reserved")
      PROVE  k \notin K /\ q.reservations[k] = p.reservations[k] /\ HasStatus(p, k, "reserved")
  BY <1>1 DEF Closing, HasStatus
<1>2. \A x \in q.tombstones : x.key \in Key
  BY DEF LedgerState, Tombstone
<1>3. Settleable(q)
  BY <1>1 DEF Settleable
<1>4. \A x \in q.tombstones : ~HoldsFor(q, x)
  BY <1>1, <1>2 DEF HoldsFor
<1>5. QED BY <1>3, <1>4 DEF Capable

\* A settlement or a release writes no tombstone and drops none; recovery drops some.
LEMMA ClosesTombstones ==
    ASSUME NEW s \in LedgerState, NEW t \in Nat
    PROVE  /\ recoverExpired(s, t).tombstones \subseteq s.tombstones
           /\ \A q : ClosesOne(s, q, t) => q.tombstones = s.tombstones
           /\ \A k \in Key : ReleaseReservation(s, k, t).tombstones = s.tombstones
<1>1. recoverExpired(s, t).tombstones \subseteq s.tombstones
  BY DEF recoverExpired, LedgerState
<1>2. ASSUME NEW k \in Key PROVE ReleaseReservation(s, k, t).tombstones = s.tombstones
  BY DEF ReleaseReservation, LedgerState
<1>3. ASSUME NEW q, ClosesOne(s, q, t) PROVE q.tombstones = s.tombstones
  BY <1>2, <1>3 DEF ClosesOne, chargeUncertainReservation, ReconcileExactly, SettlePaper,
                    LedgerState
<1>4. QED BY <1>1, <1>2, <1>3

\* What moves no money adds a tombstone only where nothing is held, and clears secrets
\* only of settled runs.
LEMMA TouchesFrame ==
    ASSUME NEW s \in LedgerState, NEW t \in Nat, NEW q \in LedgerState, Touches(s, q, t)
    PROVE  /\ \A k \in Key :
                \/ q.reservations[k] = s.reservations[k]
                \/ /\ HasStatus(s, k, "reconciled") /\ HasStatus(q, k, "reconciled")
                   /\ SameRun(s.reservations[k], q.reservations[k])
           /\ \A x \in q.tombstones \ s.tombstones : ~HasStatus(s, x.key, "reserved")
           /\ q.frozen = s.frozen
<1>1. CASE q \in {s, ensureCreated(s), persistOwnerCancellationQuarantine(s, t)}
  BY <1>1 DEF ensureCreated, persistOwnerCancellationQuarantine, LedgerState
<1>2. CASE \E k \in Key, d \in Digest, o \in Owner :
             ~HasStatus(s, k, "reserved") /\ q = WithTombstone(s, o, k, d, t)
  <2>1. PICK k \in Key, d \in Digest, o \in Owner :
             ~HasStatus(s, k, "reserved") /\ q = WithTombstone(s, o, k, d, t)
    BY <1>2
  <2>2. /\ q.reservations = s.reservations /\ q.frozen = s.frozen
        /\ \A x \in q.tombstones \ s.tombstones : x.key = k
    BY <2>1, TombstoneFrame
  <2>3. QED BY <2>1, <2>2
<1>3. CASE \E l \in LeaseId : q = heartbeatLease(s, l, t)
  BY <1>3 DEF heartbeatLease, LedgerState
<1>4. CASE \E k \in Key : HasStatus(s, k, "reconciled")
                          /\ q = [s EXCEPT !.reservations[k].secret = FALSE]
  <2>1. PICK k \in Key : HasStatus(s, k, "reconciled")
                         /\ q = [s EXCEPT !.reservations[k].secret = FALSE]
    BY <1>4, Zenon
  <2> DEFINE x == [s.reservations[k] EXCEPT !.secret = FALSE]
  <2>2. s.reservations[k] \in Reservation
    BY <2>1 DEF HasStatus, LedgerState
  <2>3. x \in Reservation /\ x.status = "reconciled" /\ SameRun(s.reservations[k], x)
    BY <2>1, <2>2 DEF HasStatus, Reservation, SameRun
  <2>4. x # Null
    BY <2>3, NullIsNoRecord
  <2>5. /\ q.reservations = [s.reservations EXCEPT ![k] = x]
        /\ q.tombstones = s.tombstones /\ q.frozen = s.frozen
        /\ s.reservations \in [Key -> Reservation \cup {Null}]
    BY <2>1 DEF LedgerState
  <2> HIDE DEF x
  <2>6. q.reservations[k] = x /\ \A j \in Key : j # k => q.reservations[j] = s.reservations[j]
    BY <2>5
  <2>7. QED BY <2>1, <2>3, <2>4, <2>5, <2>6 DEF HasStatus
<1>5. CASE \E k \in Key :
             q = [s EXCEPT !.leases = CloseLeases(@, {s.reservations[k].lease_id}, t)]
  <2>1. PICK k \in Key :
             q = [s EXCEPT !.leases = CloseLeases(@, {s.reservations[k].lease_id}, t)]
    BY <1>5, Zenon
  <2>2. QED BY <2>1 DEF LedgerState
<1>6. QED BY <1>1, <1>2, <1>3, <1>4, <1>5, Zenon DEF Touches

\* What AdmitReservation writes: an open run that is not started, and its lease.
LEMMA AdmitWrites ==
    ASSUME NEW s \in LedgerState, NEW t \in Nat, NEW k \in Key, NEW d \in Digest,
           NEW o \in Owner \cup {Null}, NEW a \in ReserveAmounts, NEW l \in LeaseId,
           NEW q, q = AdmitReservation(ensureCreated(s), k, d, o, a, l, t)
    PROVE  /\ q.reservations[k] # Null /\ q.reservations[k].status = "reserved"
           /\ q.reservations[k].lease_id = l /\ ~q.reservations[k].started
           /\ q.reservations[k].owner = o /\ q.reservations[k].request_digest = d
           /\ \A j \in Key : j # k => q.reservations[j] = s.reservations[j]
           /\ q.leases[l] # Null /\ q.leases[l].reservation_key = k
           /\ \A m \in LeaseId : m # l => q.leases[m] = s.leases[m]
           /\ q.frozen = s.frozen /\ q.tombstones = s.tombstones
<1> DEFINE e == [reservation_key |-> k, acquired_at |-> t, expires_at |-> t + TTL,
                 released_at |-> Null]
           x == [request_digest |-> d, owner |-> o, lease_id |-> l, amounts |-> a,
                 actual |-> Null, status |-> "reserved", started |-> FALSE,
                 consumed |-> FALSE, secret |-> FALSE, hash |-> Null, settlement |-> Null,
                 finalize_error |-> Null, cached |-> FALSE]
<1>1. a \in Amounts
  BY CounterAssumption DEF Amounts
<1>2. /\ q.leases = [s.leases EXCEPT ![l] = e]
      /\ q.reservations = [s.reservations EXCEPT ![k] = x]
      /\ q.frozen = s.frozen /\ q.tombstones = s.tombstones
      /\ s.leases \in [LeaseId -> Lease \cup {Null}]
      /\ s.reservations \in [Key -> Reservation \cup {Null}]
  BY DEF AdmitReservation, ensureCreated, LedgerState
<1>3. e \in Lease /\ x \in Reservation
  BY <1>1, BoundAssumption DEF Lease, Reservation
<1>4. /\ e # Null /\ e.reservation_key = k
      /\ x # Null /\ x.lease_id = l /\ x.status = "reserved" /\ ~x.started
      /\ x.owner = o /\ x.request_digest = d
  BY <1>3, NullIsNoRecord
<1> HIDE DEF e, x
<1>5. /\ q.leases[l] = e /\ \A m \in LeaseId : m # l => q.leases[m] = s.leases[m]
      /\ q.reservations[k] = x /\ \A j \in Key : j # k => q.reservations[j] = s.reservations[j]
  BY <1>2
<1>6. QED BY <1>2, <1>4, <1>5

\* An admission: the key and the lease were free, and no tombstone forbids it.
LEMMA AdmitsFrame ==
    ASSUME NEW s \in LedgerState, NEW t \in Nat, NEW q \in LedgerState, Admits(s, q, t)
    PROVE  \E k \in Key, l \in LeaseId :
              /\ s.leases[l] = Null /\ ~s.frozen /\ q.frozen = s.frozen
              /\ s.reservations[k] = Null \/ HasStatus(s, k, "released")
              /\ HasStatus(q, k, "reserved") /\ q.reservations[k].lease_id = l
              /\ ~q.reservations[k].started
              /\ \A j \in Key : j # k => q.reservations[j] = s.reservations[j]
              /\ q.leases[l] # Null /\ q.leases[l].reservation_key = k
              /\ \A m \in LeaseId : m # l => q.leases[m] = s.leases[m]
              /\ q.tombstones = s.tombstones
              /\ \A x \in q.tombstones : x.key = k => ~HoldsFor(q, x)
<1>1. PICK k \in Key, d \in Digest, o \in Owner \cup {Null}, a \in ReserveAmounts,
           l \in LeaseId :
        /\ s.leases[l] = Null /\ ~s.frozen
        /\ s.reservations[k] = Null \/ HasStatus(s, k, "released")
        /\ ~ownerCancellationTombstoneMatches(s, o, k, d)
        /\ q = AdmitReservation(ensureCreated(s), k, d, o, a, l, t)
  BY DEF Admits
<1>2. /\ q.reservations[k] # Null /\ q.reservations[k].status = "reserved"
      /\ q.reservations[k].lease_id = l /\ ~q.reservations[k].started
      /\ q.reservations[k].owner = o /\ q.reservations[k].request_digest = d
      /\ \A j \in Key : j # k => q.reservations[j] = s.reservations[j]
      /\ q.leases[l] # Null /\ q.leases[l].reservation_key = k
      /\ \A m \in LeaseId : m # l => q.leases[m] = s.leases[m]
      /\ q.frozen = s.frozen /\ q.tombstones = s.tombstones
  BY <1>1, AdmitWrites
<1>3. \A y \in q.tombstones : y.key = k => ~HoldsFor(q, y)
  BY <1>1, <1>2 DEF HoldsFor, ownerCancellationTombstoneMatches
<1>4. HasStatus(q, k, "reserved")
  BY <1>2 DEF HasStatus
<1>5. QED BY <1>1, <1>2, <1>3, <1>4

\* What a granted mark writes: an open run that was not started has its secret now.
LEMMA MarkWrites ==
    ASSUME NEW s \in LedgerState, NEW k \in Key, NEW d, NEW o, NEW l, NEW seen,
           MarkVerdict(s, k, d, o, l, seen) = "started",
           NEW q, q = markProviderStarted(s, k, d, o, l, seen)
    PROVE  /\ HasStatus(s, k, "reserved") /\ HasStatus(q, k, "reserved")
           /\ ~s.reservations[k].started /\ q.reservations[k].started
           /\ q.reservations[k].secret /\ ~q.reservations[k].consumed
           /\ q.reservations[k].hash = q.reservations[k].lease_id
           /\ s.reservations[k].lease_id = l
           /\ q.reservations[k].lease_id = s.reservations[k].lease_id
           /\ q.reservations[k].owner = s.reservations[k].owner
           /\ q.reservations[k].request_digest = s.reservations[k].request_digest
           /\ \A j \in Key : j # k => q.reservations[j] = s.reservations[j]
           /\ q.leases = s.leases /\ q.tombstones = s.tombstones
           /\ ~s.frozen /\ q.frozen = s.frozen
<1> DEFINE r == s.reservations[k]
           x == [[[[r EXCEPT !.started = TRUE] EXCEPT !.consumed = FALSE] EXCEPT !.secret = TRUE]
                    EXCEPT !.hash = seen]
<1>2. /\ r # Null /\ r.status = "reserved" /\ ~r.started /\ ~s.frozen /\ r.lease_id = l
      /\ seen = l
  BY DEF MarkVerdict, FrozenForStart
<1>3. r \in Reservation
  BY <1>2 DEF LedgerState
<1>4. /\ x \in Reservation /\ x.status = r.status /\ x.lease_id = r.lease_id
      /\ x.owner = r.owner /\ x.request_digest = r.request_digest
      /\ x.started /\ x.secret /\ ~x.consumed /\ x.hash = x.lease_id
  BY <1>2, <1>3 DEF Reservation
<1>5. x # Null
  BY <1>4, NullIsNoRecord
<1>6. /\ q.reservations = [s.reservations EXCEPT ![k] = x] /\ q.leases = s.leases
      /\ q.tombstones = s.tombstones /\ q.frozen = s.frozen
      /\ s.reservations \in [Key -> Reservation \cup {Null}]
  BY DEF markProviderStarted, LedgerState
<1> HIDE DEF x
<1>7. q.reservations[k] = x /\ \A j \in Key : j # k => q.reservations[j] = s.reservations[j]
  BY <1>6
<1>8. QED BY <1>2, <1>4, <1>5, <1>6, <1>7 DEF HasStatus

\* The same of a mark whose arguments do not matter.
LEMMA MarksFrame ==
    ASSUME NEW s \in LedgerState, NEW q \in LedgerState, Marks(s, q)
    PROVE  \E k \in Key :
              /\ HasStatus(s, k, "reserved") /\ HasStatus(q, k, "reserved")
              /\ ~s.reservations[k].started /\ q.reservations[k].started
              /\ q.reservations[k].secret /\ ~q.reservations[k].consumed
              /\ q.reservations[k].hash = q.reservations[k].lease_id
              /\ q.reservations[k].lease_id = s.reservations[k].lease_id
              /\ q.reservations[k].owner = s.reservations[k].owner
              /\ q.reservations[k].request_digest = s.reservations[k].request_digest
              /\ \A j \in Key : j # k => q.reservations[j] = s.reservations[j]
              /\ q.leases = s.leases /\ q.tombstones = s.tombstones
              /\ ~s.frozen /\ q.frozen = s.frozen
BY MarkWrites DEF Marks

\* Every step keeps the capabilities.
LEMMA StepCapable ==
    ASSUME NEW s \in LedgerState, NEW t \in Nat, NEW q \in LedgerState,
           Safe(s), Capable(s), Step(s, q, t)
    PROVE  Capable(q)
<1>0. Sound(s) /\ Settleable(s) /\ \A x \in s.tombstones : ~HoldsFor(s, x)
  BY DEF Safe, Capable
<1>1. CASE Admits(s, q, t)
  <2>1. PICK k \in Key, l \in LeaseId :
          /\ ~q.reservations[k].started
          /\ \A j \in Key : j # k => q.reservations[j] = s.reservations[j]
          /\ q.tombstones = s.tombstones
          /\ \A x \in q.tombstones : x.key = k => ~HoldsFor(q, x)
    BY <1>1, AdmitsFrame
  <2>2. Settleable(q)
    BY <1>0, <2>1 DEF Settleable, HasStatus
  <2>3. ASSUME NEW x \in q.tombstones PROVE ~HoldsFor(q, x)
    <3>1. x.key \in Key /\ x \in s.tombstones
      BY <2>1 DEF LedgerState, Tombstone
    <3>2. CASE x.key = k
      BY <2>1, <3>2
    <3>3. CASE x.key # k
      BY <1>0, <2>1, <3>1, <3>3 DEF HoldsFor, HasStatus
    <3>4. QED BY <3>2, <3>3
  <2>4. QED BY <2>2, <2>3 DEF Capable
<1>2. CASE Marks(s, q)
  <2>1. PICK k \in Key :
          /\ HasStatus(s, k, "reserved")
          /\ q.reservations[k].secret /\ ~q.reservations[k].consumed
          /\ q.reservations[k].hash = q.reservations[k].lease_id
          /\ q.reservations[k].owner = s.reservations[k].owner
          /\ q.reservations[k].request_digest = s.reservations[k].request_digest
          /\ \A j \in Key : j # k => q.reservations[j] = s.reservations[j]
          /\ q.tombstones = s.tombstones
    BY <1>2, MarksFrame
  <2>2. Settleable(q)
    BY <1>0, <2>1 DEF Settleable, HasStatus
  <2>3. ASSUME NEW x \in q.tombstones PROVE ~HoldsFor(q, x)
    <3>1. x.key \in Key /\ x \in s.tombstones
      BY <2>1 DEF LedgerState, Tombstone
    <3>2. QED BY <1>0, <2>1, <3>1 DEF HoldsFor, HasStatus
  <2>4. QED BY <2>2, <2>3 DEF Capable
<1>3. CASE ClosesOne(s, q, t)
  <2>1. PICK k \in Key : Closing(s, q, {k}, t)
    BY <1>0, <1>3, ClosesOneCloses
  <2>2. q.tombstones = s.tombstones
    BY <1>3, ClosesTombstones
  <2>3. {k} \in SUBSET Key
    OBVIOUS
  <2>4. QED BY <1>0, <2>1, <2>2, <2>3, ClosingCapable
<1>4. CASE Touches(s, q, t)
  <2>1. /\ \A k \in Key :
             \/ q.reservations[k] = s.reservations[k]
             \/ HasStatus(s, k, "reconciled") /\ HasStatus(q, k, "reconciled")
        /\ \A x \in q.tombstones \ s.tombstones : ~HasStatus(s, x.key, "reserved")
    BY <1>4, TouchesFrame
  <2>2. ASSUME NEW k \in Key, HasStatus(q, k, "reserved")
        PROVE  q.reservations[k] = s.reservations[k] /\ HasStatus(s, k, "reserved")
    BY <2>1, <2>2 DEF HasStatus
  <2>3. Settleable(q)
    BY <1>0, <2>2 DEF Settleable
  <2>4. ASSUME NEW x \in q.tombstones PROVE ~HoldsFor(q, x)
    <3>1. x.key \in Key
      BY DEF LedgerState, Tombstone
    <3>2. QED BY <1>0, <2>1, <2>2, <3>1 DEF HoldsFor
  <2>5. QED BY <2>3, <2>4 DEF Capable
<1>5. CASE Cancels(s, q, t)
  <2>1. PICK k \in Key, d \in Digest, o \in Owner, p \in LedgerState :
            /\ p = WithTombstone(s, o, k, d, t)
            /\ HasStatus(p, k, "reserved") /\ ~p.reservations[k].started
            /\ q = ReleaseReservation(p, k, t)
    BY <1>5, CancelsClose
  <2>2. /\ p.reservations = s.reservations /\ p.leases = s.leases /\ p.audit = s.audit
        /\ p.used = s.used /\ p.reserved = s.reserved
        /\ \A x \in p.tombstones \ s.tombstones : x.key = k
    BY <2>1, TombstoneFrame
  <2>3. Alike(s, p)
    BY <2>2 DEF Alike
  <2>4. Sound(p)
    BY <2>3, AlikeSafe DEF Safe
  <2>5. PICK j \in Key : Closing(p, q, {j}, t)
    BY <2>1, <2>4, ClosesOneCloses DEF ClosesOne
  <2>6. j = k
    <3>1. q.reservations[k].status = "released"
      <4>1. p.reservations[k] \in Reservation
        BY <2>1 DEF HasStatus, LedgerState
      <4>2. [p.reservations[k] EXCEPT !.status = "released"].status = "released"
        BY <4>1 DEF Reservation
      <4>3. QED BY <2>1, <4>2 DEF ReleaseReservation, LedgerState
    <3>2. p.reservations[k].status = "reserved"
      BY <2>1 DEF HasStatus
    <3>3. QED BY <2>5, <3>1, <3>2 DEF Closing
  <2>7. q.tombstones = p.tombstones
    BY <2>1, ClosesTombstones
  <2>8. Settleable(p) /\ \A x \in s.tombstones : ~HoldsFor(p, x)
    BY <1>0, <2>2 DEF Settleable, HoldsFor, HasStatus
  <2>9. \A x \in q.tombstones : x.key \in {k} \/ ~HoldsFor(p, x)
    BY <2>2, <2>7, <2>8
  <2>10. {k} \in SUBSET Key
    OBVIOUS
  <2>11. QED BY <2>5, <2>6, <2>8, <2>9, <2>10, ClosingCapable
<1>6. QED BY <1>1, <1>2, <1>3, <1>4, <1>5 DEF Step, Transition

\* The capabilities of every reachable ledger.
THEOREM CapabilitiesSafe == Spec => []Capable(ledger)
<1>1. Init => Capable(ledger)
  BY DEF Init, emptyLedger, Capable, Settleable, HasStatus
<1>2. TypeOK /\ Safe(ledger) /\ Capable(ledger) /\ [Next]_vars => Capable(ledger)'
  <2> SUFFICES ASSUME TypeOK, Safe(ledger), Capable(ledger), [Next]_vars
               PROVE  Capable(ledger')
    OBVIOUS
  <2>0. ledger \in LedgerState
    BY DEF TypeOK
  <2>1. CASE Commits
    <3>1. PICK t \in Nat : Step(recoverExpired(ledger, t), ledger', t)
      BY <2>1 DEF Commits
    <3> DEFINE s == recoverExpired(ledger, t)
    <3>2. s \in LedgerState
      BY <2>0, RecoverType
    <3>3. Sound(ledger) /\ Settleable(ledger) /\ \A x \in ledger.tombstones : ~HoldsFor(ledger, x)
      BY DEF Safe, Capable
    <3>4. /\ ExpiredKeys(ledger, t) \in SUBSET Key
          /\ Closing(ledger, s, ExpiredKeys(ledger, t), t)
          /\ Bounded(ledger, s, ExpiredKeys(ledger, t))
      BY <2>0, <3>3, RecoverCloses
    <3>5. s.tombstones \subseteq ledger.tombstones
      BY <2>0, ClosesTombstones
    <3> HIDE DEF s
    <3>6. Safe(s)
      BY <2>0, <3>2, <3>4, ClosingSafe
    <3>7. Capable(s)
      BY <2>0, <3>2, <3>3, <3>4, <3>5, ClosingCapable
    <3>8. Step(s, ledger', t)
      BY <3>1 DEF s
    <3>9. ledger' \in LedgerState
      BY <3>2, <3>8, StepType
    <3>10. QED BY <3>2, <3>6, <3>7, <3>8, <3>9, StepCapable
  <2>2. CASE ledger' = ledger
    BY <2>2
  <2>3. QED BY <2>1, <2>2, NextSteps
<1>3. QED BY <1>1, <1>2, TypeCorrect, AccountingSafe, PTL DEF Spec

\* A run that was started and not settled can be settled by its holder: no replay,
\* refused report, release or recovery takes its secret away.
THEOREM StartedSettleableTheorem == Spec => []StartedRunSettleable
<1>1. Capable(ledger) => StartedRunSettleable
  BY DEF Capable, Settleable, StartedRunSettleable
<1>2. QED BY <1>1, CapabilitiesSafe, PTL

\* While a tombstone lasts, the invocation it cancelled holds no reservation, however
\* late its reserve arrives and whatever clock reading the cancellation used.
THEOREM CancelledOwnerTheorem == Spec => []CancelledOwnerHoldsNothing
<1>1. Capable(ledger) => CancelledOwnerHoldsNothing
  BY DEF Capable, HoldsFor, CancelledOwnerHoldsNothing
<1>2. QED BY <1>1, CapabilitiesSafe, PTL

-----------------------------------------------------------------------------
(* The ledger implements RunLifecycle.  A committed operation ends the     *)
(* expired runs and then ends, admits or marks at most one: the two moves  *)
(* compose to one step of RunLifecycle because settled and released runs   *)
(* are final and no run is admitted or started on a frozen ledger.         *)

\* RunStage of a given ledger.
StageOf(s, l) ==
    IF s.leases[l] = Null THEN "none"
    ELSE LET r == s.reservations[s.leases[l].reservation_key] IN
         IF r.lease_id # l THEN "released"
         ELSE IF r.status = "released" THEN "released"
         ELSE IF r.status = "reconciled" THEN "settled"
         ELSE IF r.started THEN "started" ELSE "held"

\* No reservation a lease was given for is ever removed, only replaced.
Rooted(s) ==
    \A l \in LeaseId :
        s.leases[l] # Null => s.reservations[s.leases[l].reservation_key] # Null

EndsOrStays(a, b) ==
    \/ b = a
    \/ a = "held" /\ b \in {"settled", "released"}
    \/ a = "started" /\ b = "settled"

Ending(s, q) == \A l \in LeaseId : EndsOrStays(StageOf(s, l), StageOf(q, l))

\* Run l is admitted or started in a step that ends in q.
Begins(s, q, l) ==
    /\ ~q.frozen
    /\ \/ /\ StageOf(s, l) = "none" /\ StageOf(q, l) = "held"
          /\ Cardinality({m \in LeaseId : StageOf(q, m) \in {"held", "started"}}) <= MaxParallel
       \/ StageOf(s, l) = "held" /\ StageOf(q, l) = "started"

\* What a step of RunLifecycle may do.
Moves(s, q) ==
    /\ s.frozen => q.frozen
    /\ \E S \in {{}} \cup {{l} : l \in LeaseId} :
         /\ \A l \in S : Begins(s, q, l)
         /\ \A l \in LeaseId \ S : EndsOrStays(StageOf(s, l), StageOf(q, l))

\* The leases of q are those of s, for the same keys.
SameKeys(s, q) ==
    \A l \in LeaseId :
        /\ q.leases[l] = Null <=> s.leases[l] = Null
        /\ s.leases[l] # Null => q.leases[l].reservation_key = s.leases[l].reservation_key

\* The open reservations that change are settled, or given back if not started.
OnlyEnds(s, q) ==
    \A k \in Key :
        LET r == s.reservations[k]
            x == q.reservations[k]
        IN  \/ x = r
            \/ /\ r # Null /\ x # Null /\ SameRun(r, x)
               /\ \/ r.status = "reconciled" /\ x.status = "reconciled"
                  \/ r.status = "reserved" /\ x.status = "reconciled"
                  \/ r.status = "reserved" /\ x.status = "released" /\ ~x.started

\* Such a step ends runs, and the leases keep their reservations.
LEMMA OnlyEndsEnding ==
    ASSUME NEW s \in LedgerState, NEW q \in LedgerState, SameKeys(s, q), OnlyEnds(s, q), Rooted(s)
    PROVE  Ending(s, q) /\ Rooted(q)
<1>1. ASSUME NEW l \in LeaseId, s.leases[l] # Null
      PROVE  s.leases[l].reservation_key \in Key
  BY <1>1 DEF LedgerState, Lease
<1>2. ASSUME NEW l \in LeaseId PROVE EndsOrStays(StageOf(s, l), StageOf(q, l))
  <2>1. CASE s.leases[l] = Null
    BY <2>1 DEF SameKeys, StageOf, EndsOrStays
  <2>2. CASE s.leases[l] # Null
    <3> DEFINE k == s.leases[l].reservation_key
               r == s.reservations[k]
               x == q.reservations[k]
    <3>1. k \in Key /\ q.leases[l] # Null /\ q.leases[l].reservation_key = k
      BY <1>1, <2>2 DEF SameKeys
    <3>2. StageOf(s, l) = IF r.lease_id # l THEN "released"
                          ELSE IF r.status = "released" THEN "released"
                          ELSE IF r.status = "reconciled" THEN "settled"
                          ELSE IF r.started THEN "started" ELSE "held"
      BY <2>2 DEF StageOf
    <3>3. StageOf(q, l) = IF x.lease_id # l THEN "released"
                          ELSE IF x.status = "released" THEN "released"
                          ELSE IF x.status = "reconciled" THEN "settled"
                          ELSE IF x.started THEN "started" ELSE "held"
      BY <3>1 DEF StageOf
    <3>4. \/ x = r
          \/ /\ SameRun(r, x)
             /\ \/ r.status = "reconciled" /\ x.status = "reconciled"
                \/ r.status = "reserved" /\ x.status = "reconciled"
                \/ r.status = "reserved" /\ x.status = "released" /\ ~x.started
      BY <3>1 DEF OnlyEnds
    <3> HIDE DEF k, r, x
    <3>5. QED BY <3>2, <3>3, <3>4 DEF SameRun, EndsOrStays
  <2>3. QED BY <2>1, <2>2
<1>3. Rooted(q)
  BY <1>1 DEF Rooted, SameKeys, OnlyEnds
<1>4. QED BY <1>2, <1>3 DEF Ending

\* Closing leases keeps them, for their keys.
LEMMA CloseLeasesKeys ==
    ASSUME NEW s \in LedgerState, NEW q \in LedgerState, NEW L, NEW t \in Nat,
           q.leases = CloseLeases(s.leases, L, t)
    PROVE  SameKeys(s, q)
<1> SUFFICES ASSUME NEW l \in LeaseId
             PROVE  /\ q.leases[l] = Null <=> s.leases[l] = Null
                    /\ s.leases[l] # Null =>
                          q.leases[l].reservation_key = s.leases[l].reservation_key
  BY DEF SameKeys
<1>1. s.leases[l] \in Lease \cup {Null}
  BY DEF LedgerState
<1>2. q.leases[l] = s.leases[l]
      \/ (s.leases[l] # Null /\ q.leases[l] = [s.leases[l] EXCEPT !.released_at = t])
  BY DEF CloseLeases
<1>3. s.leases[l] # Null =>
        /\ [s.leases[l] EXCEPT !.released_at = t] \in Lease
        /\ [s.leases[l] EXCEPT !.released_at = t].reservation_key = s.leases[l].reservation_key
  BY <1>1 DEF Lease
<1>4. QED BY <1>1, <1>2, <1>3, NullIsNoRecord

\* Closing reservations ends runs.
LEMMA ClosingEnds ==
    ASSUME NEW s \in LedgerState, NEW q \in LedgerState, NEW K \in SUBSET Key, NEW t \in Nat,
           Closing(s, q, K, t), Rooted(s)
    PROVE  Ending(s, q) /\ Rooted(q)
<1>1. SameKeys(s, q)
  BY CloseLeasesKeys DEF Closing
<1>2. OnlyEnds(s, q)
  BY DEF Closing, OnlyEnds, HasStatus
<1>3. QED BY <1>1, <1>2, OnlyEndsEnding

\* A frozen ledger stays frozen.
LEMMA FrozenStays ==
    ASSUME NEW s \in LedgerState, NEW t \in Nat
    PROVE  /\ s.frozen => recoverExpired(s, t).frozen
           /\ \A q : ClosesOne(s, q, t) => (s.frozen => q.frozen)
           /\ \A k \in Key : ReleaseReservation(s, k, t).frozen = s.frozen
<1>1. s.frozen => recoverExpired(s, t).frozen
  BY DEF recoverExpired, LedgerState
<1>2. ASSUME NEW k \in Key PROVE ReleaseReservation(s, k, t).frozen = s.frozen
  BY DEF ReleaseReservation, LedgerState
<1>3. ASSUME NEW q, ClosesOne(s, q, t), s.frozen PROVE q.frozen
  <2>1. PICK k \in Key :
           \/ q = chargeUncertainReservation(s, k, t)
           \/ \E usage \in Usage, costKnown \in BOOLEAN, hasResult \in BOOLEAN :
                 q = ReconcileExactly(s, k, usage, costKnown, hasResult, t)
           \/ q = SettlePaper(s, k, t)
           \/ q = ReleaseReservation(s, k, t)
    BY <1>3 DEF ClosesOne
  <2>2. CASE q = chargeUncertainReservation(s, k, t)
    BY <2>2 DEF chargeUncertainReservation, LedgerState
  <2>3. CASE \E usage \in Usage, costKnown \in BOOLEAN, hasResult \in BOOLEAN :
                 q = ReconcileExactly(s, k, usage, costKnown, hasResult, t)
    BY <1>3, <2>3 DEF ReconcileExactly, LedgerState
  <2>4. CASE q = SettlePaper(s, k, t)
    BY <1>3, <2>4 DEF SettlePaper, LedgerState
  <2>5. CASE q = ReleaseReservation(s, k, t)
    BY <1>2, <1>3, <2>5
  <2>6. QED BY <2>1, <2>2, <2>3, <2>4, <2>5
<1>4. QED BY <1>1, <1>2, <1>3

\* Runs in progress have open leases, so that the parallel limit bounds them.
LEMMA InProgressBound ==
    ASSUME NEW s \in LedgerState, Safe(s), Rooted(s)
    PROVE  Cardinality({l \in LeaseId : StageOf(s, l) \in {"held", "started"}}) <= MaxParallel
<1> DEFINE P == {l \in LeaseId : StageOf(s, l) \in {"held", "started"}}
<1>1. ASSUME NEW l \in LeaseId, StageOf(s, l) \in {"held", "started"}
      PROVE  IsActive(s, l)
  <2> DEFINE k == s.leases[l].reservation_key
             r == s.reservations[k]
  <2>1. s.leases[l] # Null
    BY <1>1 DEF StageOf
  <2>2. k \in Key /\ r # Null
    BY <2>1 DEF LedgerState, Lease, Rooted
  <2>3. r.lease_id = l /\ r.status # "released" /\ r.status # "reconciled"
    BY <1>1, <2>1 DEF StageOf
  <2>4. r.status = "reserved"
    BY <2>2, <2>3 DEF LedgerState, Reservation
  <2>5. LifecycleOK(s, k)
    BY <2>2 DEF Safe, Sound
  <2>6. QED BY <2>1, <2>2, <2>3, <2>4, <2>5 DEF LifecycleOK, IsActive
<1>2. P \subseteq activeLeases(s)
  BY <1>1 DEF activeLeases
<1>3. IsFiniteSet(activeLeases(s)) /\ Cardinality(activeLeases(s)) \in Nat
  BY FewerActive, FiniteAssumption, FS_Subset DEF activeLeases
<1>4. Cardinality(P) <= Cardinality(activeLeases(s)) /\ IsFiniteSet(P)
  BY <1>2, <1>3, FS_Subset
<1>5. Cardinality(P) \in Nat
  BY <1>4, FS_CardinalityType
<1>6. QED BY <1>3, <1>4, <1>5, BoundAssumption DEF Safe

\* A step that ends runs and keeps the freeze is a move.
LEMMA EndingMoves ==
    ASSUME NEW s, NEW q, Ending(s, q), s.frozen => q.frozen
    PROVE  Moves(s, q)
<1>1. \A l \in LeaseId \ {} : EndsOrStays(StageOf(s, l), StageOf(q, l))
  BY DEF Ending
<1>2. \A l \in {} : Begins(s, q, l)
  OBVIOUS
<1>3. {} \in {{}} \cup {{l} : l \in LeaseId}
  OBVIOUS
<1>4. QED BY <1>1, <1>2, <1>3, Zenon DEF Moves

\* Every step of the ledger is a move of runs.
LEMMA StepMoves ==
    ASSUME NEW s \in LedgerState, NEW t \in Nat, NEW q \in LedgerState,
           Safe(s), Safe(q), Rooted(s), Step(s, q, t)
    PROVE  Moves(s, q) /\ Rooted(q)
<1>0. Sound(s)
  BY DEF Safe
<1>00. /\ \A k \in Key : s.reservations[k] # Null =>
             s.reservations[k].status \in {"reserved", "reconciled", "released"}
       /\ \A l \in LeaseId : s.leases[l] # Null => s.leases[l].reservation_key \in Key
  BY DEF LedgerState, Reservation, Lease
<1>1. CASE Admits(s, q, t)
  <2>1. PICK k \in Key, l \in LeaseId :
          /\ s.leases[l] = Null /\ ~s.frozen /\ q.frozen = s.frozen
          /\ s.reservations[k] = Null \/ HasStatus(s, k, "released")
          /\ HasStatus(q, k, "reserved") /\ q.reservations[k].lease_id = l
          /\ ~q.reservations[k].started
          /\ \A j \in Key : j # k => q.reservations[j] = s.reservations[j]
          /\ q.leases[l] # Null /\ q.leases[l].reservation_key = k
          /\ \A m \in LeaseId : m # l => q.leases[m] = s.leases[m]
    BY <1>1, AdmitsFrame
  <2>2. StageOf(s, l) = "none" /\ StageOf(q, l) = "held"
    BY <2>1 DEF StageOf, HasStatus
  <2>3. Rooted(q)
    BY <1>00, <2>1 DEF Rooted, HasStatus
  <2>4. ASSUME NEW m \in LeaseId, m # l PROVE StageOf(q, m) = StageOf(s, m)
    <3>1. q.leases[m] = s.leases[m]
      BY <2>1, <2>4
    <3>2. CASE s.leases[m] = Null
      BY <3>1, <3>2 DEF StageOf
    <3>3. CASE s.leases[m] # Null /\ s.leases[m].reservation_key # k
      BY <1>00, <2>1, <3>1, <3>3 DEF StageOf
    <3>4. CASE s.leases[m] # Null /\ s.leases[m].reservation_key = k
      <4>1. HasStatus(s, k, "released")
        BY <2>1, <3>4 DEF Rooted
      <4>2. StageOf(s, m) = "released"
        BY <3>4, <4>1 DEF StageOf, HasStatus
      <4>3. StageOf(q, m) = "released"
        BY <2>1, <2>4, <3>1, <3>4 DEF StageOf
      <4>4. QED BY <4>2, <4>3
    <3>5. QED BY <3>2, <3>3, <3>4
  <2>5. Begins(s, q, l)
    BY <2>1, <2>2, <2>3, InProgressBound DEF Begins
  <2>6. \A m \in LeaseId \ {l} : EndsOrStays(StageOf(s, m), StageOf(q, m))
    BY <2>4 DEF EndsOrStays
  <2>7. Moves(s, q)
    BY <2>1, <2>5, <2>6 DEF Moves
  <2>8. QED BY <2>3, <2>7
<1>2. CASE Marks(s, q)
  <2>1. PICK k \in Key :
          /\ HasStatus(s, k, "reserved") /\ HasStatus(q, k, "reserved")
          /\ ~s.reservations[k].started /\ q.reservations[k].started
          /\ q.reservations[k].lease_id = s.reservations[k].lease_id
          /\ \A j \in Key : j # k => q.reservations[j] = s.reservations[j]
          /\ q.leases = s.leases
          /\ ~s.frozen /\ q.frozen = s.frozen
    BY <1>2, MarksFrame
  <2> DEFINE l == s.reservations[k].lease_id
  <2>2. l \in LeaseId /\ s.leases[l] # Null /\ s.leases[l].reservation_key = k
    BY <1>0, <2>1 DEF Sound, LifecycleOK, HasStatus, LedgerState, Reservation
  <2>3. StageOf(s, l) = "held" /\ StageOf(q, l) = "started"
    BY <2>1, <2>2 DEF StageOf, HasStatus
  <2>4. ASSUME NEW m \in LeaseId, m # l PROVE StageOf(q, m) = StageOf(s, m)
    <3>1. CASE s.leases[m] = Null
      BY <2>1, <3>1 DEF StageOf
    <3>2. CASE s.leases[m] # Null /\ s.leases[m].reservation_key # k
      BY <1>00, <2>1, <3>2 DEF StageOf
    <3>3. CASE s.leases[m] # Null /\ s.leases[m].reservation_key = k
      BY <2>1, <2>4, <3>3 DEF StageOf
    <3>4. QED BY <3>1, <3>2, <3>3
  <2>5. Rooted(q)
    BY <1>00, <2>1 DEF Rooted, HasStatus
  <2> HIDE DEF l
  <2>6. Begins(s, q, l)
    BY <2>1, <2>3 DEF Begins
  <2>7. \A m \in LeaseId \ {l} : EndsOrStays(StageOf(s, m), StageOf(q, m))
    BY <2>4 DEF EndsOrStays
  <2>8. Moves(s, q)
    BY <2>1, <2>2, <2>6, <2>7 DEF Moves
  <2>9. QED BY <2>5, <2>8
<1>3. CASE ClosesOne(s, q, t)
  <2>1. PICK k \in Key : Closing(s, q, {k}, t)
    BY <1>0, <1>3, ClosesOneCloses
  <2>2. {k} \in SUBSET Key
    OBVIOUS
  <2>3. Ending(s, q) /\ Rooted(q)
    BY <2>1, <2>2, ClosingEnds
  <2>4. s.frozen => q.frozen
    BY <1>3, FrozenStays
  <2>5. QED BY <2>3, <2>4, EndingMoves
<1>4. CASE Touches(s, q, t)
  <2>1. /\ \A k \in Key :
             \/ q.reservations[k] = s.reservations[k]
             \/ /\ HasStatus(s, k, "reconciled") /\ HasStatus(q, k, "reconciled")
                /\ SameRun(s.reservations[k], q.reservations[k])
        /\ q.frozen = s.frozen
    BY <1>4, TouchesFrame
  <2>2. OnlyEnds(s, q)
    BY <2>1 DEF OnlyEnds, HasStatus
  <2>3. SameKeys(s, q)
    BY <1>0, <1>4, TouchesAlike DEF Alike, SameKeys
  <2>4. QED BY <2>1, <2>2, <2>3, OnlyEndsEnding, EndingMoves
<1>5. CASE Cancels(s, q, t)
  <2>1. PICK k \in Key, d \in Digest, o \in Owner, p \in LedgerState :
            /\ p = WithTombstone(s, o, k, d, t)
            /\ HasStatus(p, k, "reserved") /\ ~p.reservations[k].started
            /\ q = ReleaseReservation(p, k, t)
    BY <1>5, CancelsClose
  <2>2. /\ p.reservations = s.reservations /\ p.leases = s.leases /\ p.audit = s.audit
        /\ p.used = s.used /\ p.reserved = s.reserved /\ p.frozen = s.frozen
    BY <2>1, TombstoneFrame
  <2>3. Alike(s, p)
    BY <2>2 DEF Alike
  <2>4. Sound(p) /\ Rooted(p)
    BY <2>2, <2>3, AlikeSafe DEF Safe, Rooted
  <2>5. PICK j \in Key : Closing(p, q, {j}, t)
    BY <2>1, <2>4, ClosesOneCloses DEF ClosesOne
  <2>6. {j} \in SUBSET Key
    OBVIOUS
  <2>7. Ending(p, q) /\ Rooted(q)
    BY <2>4, <2>5, <2>6, ClosingEnds
  <2>8. \A l \in LeaseId : StageOf(p, l) = StageOf(s, l)
    BY <2>2 DEF StageOf
  <2>9. Ending(s, q)
    BY <2>7, <2>8 DEF Ending
  <2>10. q.frozen = s.frozen
    BY <2>1, <2>2, FrozenStays
  <2>11. QED BY <2>7, <2>9, <2>10, EndingMoves
<1>6. QED BY <1>1, <1>2, <1>3, <1>4, <1>5 DEF Step, Transition

\* Ending runs and then moving is a move.
LEMMA EndingThenMoves ==
    ASSUME NEW s, NEW p, NEW q, Ending(s, p), s.frozen => p.frozen, Moves(p, q)
    PROVE  Moves(s, q)
<1>1. PICK S \in {{}} \cup {{l} : l \in LeaseId} :
         /\ \A l \in S : Begins(p, q, l)
         /\ \A l \in LeaseId \ S : EndsOrStays(StageOf(p, l), StageOf(q, l))
  BY DEF Moves
<1>2. S \subseteq LeaseId
  BY <1>1
<1>3. ASSUME NEW l \in S PROVE Begins(s, q, l)
  BY <1>1, <1>2, <1>3 DEF Begins, Ending, EndsOrStays
<1>4. ASSUME NEW l \in LeaseId \ S PROVE EndsOrStays(StageOf(s, l), StageOf(q, l))
  BY <1>1, <1>4 DEF Ending, EndsOrStays
<1>5. QED BY <1>1, <1>3, <1>4 DEF Moves

\* A committed operation is a move.
LEMMA CommitsMoves ==
    ASSUME ledger \in LedgerState, Safe(ledger), Rooted(ledger), Commits
    PROVE  Moves(ledger, ledger') /\ Rooted(ledger')
<1>1. PICK t \in Nat : Step(recoverExpired(ledger, t), ledger', t)
  BY DEF Commits
<1> DEFINE s == recoverExpired(ledger, t)
<1>2. s \in LedgerState
  BY RecoverType
<1>3. /\ ExpiredKeys(ledger, t) \in SUBSET Key
      /\ Closing(ledger, s, ExpiredKeys(ledger, t), t)
      /\ Bounded(ledger, s, ExpiredKeys(ledger, t))
  BY RecoverCloses DEF Safe
<1>4. ledger.frozen => s.frozen
  BY FrozenStays
<1>5. Step(s, ledger', t)
  BY <1>1
<1> HIDE DEF s
<1>6. Safe(s)
  BY <1>2, <1>3, ClosingSafe
<1>7. Ending(ledger, s) /\ Rooted(s)
  BY <1>2, <1>3, ClosingEnds
<1>8. ledger' \in LedgerState /\ Safe(ledger')
  BY <1>2, <1>5, <1>6, StepSafe
<1>9. Moves(s, ledger') /\ Rooted(ledger')
  BY <1>2, <1>5, <1>6, <1>7, <1>8, StepMoves
<1>10. QED BY <1>4, <1>7, <1>9, EndingThenMoves

\* A move is a step of RunLifecycle.
LEMMA MovesRefines ==
    ASSUME ledger' \in LedgerState, Moves(ledger, ledger')
    PROVE  Lifecycle!Next
<1>1. PICK S \in {{}} \cup {{l} : l \in LeaseId} :
         /\ \A l \in S : Begins(ledger, ledger', l)
         /\ \A l \in LeaseId \ S : EndsOrStays(StageOf(ledger, l), StageOf(ledger', l))
  BY DEF Moves
<1>2. S \subseteq LeaseId
  BY <1>1
<1> DEFINE run == [l \in LeaseId |-> RunStage(l)]
<1>3. \A l \in LeaseId : run[l] = StageOf(ledger, l) /\ run'[l] = StageOf(ledger', l)
  BY DEF RunStage, StageOf
<1>4. run' \in [LeaseId -> Lifecycle!Stage]
  <2>1. \A l \in LeaseId : StageOf(ledger', l) \in Lifecycle!Stage
    BY DEF StageOf, Lifecycle!Stage
  <2>2. run' = [l \in LeaseId |-> run'[l]]
    OBVIOUS
  <2>3. QED BY <1>3, <2>1, <2>2
<1>5. ledger.frozen' \in BOOLEAN /\ (ledger.frozen => ledger.frozen')
  BY DEF LedgerState, Moves
<1>6. {l \in LeaseId : StageOf(ledger', l) \in {"held", "started"}} = Lifecycle!InProgress(run')
  BY <1>3 DEF Lifecycle!InProgress
<1>61. \A T : Lifecycle!Cardinality(T) = Cardinality(T)
  BY Zenon DEF Lifecycle!Cardinality, Cardinality
<1>7. ASSUME NEW l \in S PROVE Lifecycle!Admits(l) \/ Lifecycle!Starts(l)
  <2>1. Begins(ledger, ledger', l) /\ l \in LeaseId
    BY <1>1, <1>2
  <2>2. CASE StageOf(ledger, l) = "none"
    <3>1. Lifecycle!Cardinality(Lifecycle!InProgress(run')) <= MaxParallel
      BY <1>6, <1>61, <2>1, <2>2 DEF Begins
    <3>2. QED BY <1>3, <2>1, <2>2, <3>1 DEF Begins, Lifecycle!Admits
  <2>3. CASE StageOf(ledger, l) # "none"
    BY <1>3, <2>1, <2>3 DEF Begins, Lifecycle!Starts
  <2>4. QED BY <2>2, <2>3
<1>8. ASSUME NEW l \in LeaseId \ S PROVE Lifecycle!Ends(l) \/ run'[l] = run[l]
  BY <1>1, <1>3 DEF EndsOrStays, Lifecycle!Ends
<1>9. QED BY <1>1, <1>4, <1>5, <1>7, <1>8 DEF Lifecycle!Next

\* The ledger implements the life of a run, for any number of runs and slots: admitted
\* once within the parallel limit, started once and never on a frozen ledger, settled if
\* it was started, final when it ended.
THEOREM LifecycleTheorem == Spec => ImplementsLifecycle
<1>1. Init => Lifecycle!Init /\ Rooted(ledger)
  BY DEF Init, emptyLedger, Lifecycle!Init, RunStage, Rooted
<1>2. TypeOK /\ Safe(ledger) /\ Rooted(ledger) /\ TypeOK' /\ [Next]_vars
        => [Lifecycle!Next]_(Lifecycle!vars) /\ Rooted(ledger)'
  <2> SUFFICES ASSUME TypeOK, Safe(ledger), Rooted(ledger), TypeOK', [Next]_vars
               PROVE  [Lifecycle!Next]_(Lifecycle!vars) /\ Rooted(ledger')
    OBVIOUS
  <2>0. ledger \in LedgerState /\ ledger' \in LedgerState
    BY DEF TypeOK
  <2>1. CASE Commits
    BY <2>0, <2>1, CommitsMoves, MovesRefines
  <2>2. CASE ledger' = ledger
    BY <2>2 DEF Lifecycle!vars, RunStage
  <2>3. QED BY <2>1, <2>2, NextSteps
<1>3. QED BY <1>1, <1>2, TypeCorrect, AccountingSafe, PTL DEF Spec, ImplementsLifecycle, Lifecycle!Spec

-----------------------------------------------------------------------------
(* What the ledger stores loads again, or holds one of the two things that *)
(* coerceState refuses.                                                    *)

\* A settlement that loads, or the one of a paper run.
Fit(r) == \/ PersistedSettlementOK(r)
          \/ /\ r.status = "reconciled" /\ r.settlement # Null
             /\ r.settlement.usage_source = "legacy_unattributed"

\* A lease that was acquired by time n and expires later.
Dated(s, l, n) == s.leases[l] # Null => /\ s.leases[l].acquired_at <= s.leases[l].expires_at
                                        /\ s.leases[l].acquired_at <= n

\* The part of Loads that the operations write, at time n.
Orderly(s, n) ==
    /\ \A k \in Key : s.reservations[k] # Null => Fit(s.reservations[k])
    /\ \A l \in LeaseId : Dated(s, l, n)
    /\ IsFiniteSet(s.tombstones) /\ Cardinality(s.tombstones) <= MaxTombstones

\* Closing leases, at whatever time, changes neither their start nor their term.
LEMMA CloseLeasesDated ==
    ASSUME NEW s \in LedgerState, NEW q, NEW t, NEW n, NEW L, Orderly(s, n),
           q.leases = CloseLeases(s.leases, L, t) \/ q.leases = s.leases
    PROVE  \A l \in LeaseId : Dated(q, l, n)
<1> SUFFICES ASSUME NEW l \in LeaseId PROVE Dated(q, l, n)
  OBVIOUS
<1>1. Dated(s, l, n)
  BY DEF Orderly
<1>2. s.leases \in [LeaseId -> Lease \cup {Null}]
  BY DEF LedgerState
<1>3. CASE q.leases[l] = s.leases[l]
  BY <1>1, <1>3 DEF Dated
<1>4. CASE s.leases[l] # Null /\ q.leases[l] = [s.leases[l] EXCEPT !.released_at = t]
  <2>1. s.leases[l] \in Lease
    BY <1>2, <1>4
  <2>2. /\ q.leases[l].acquired_at = s.leases[l].acquired_at
        /\ q.leases[l].expires_at = s.leases[l].expires_at
    BY <1>4, <2>1 DEF Lease
  <2>3. QED BY <1>1, <1>4, <2>2 DEF Dated
<1>5. QED BY <1>2, <1>3, <1>4 DEF CloseLeases

\* One reservation is rewritten, leases may be closed, the tombstones stay.
LEMMA OneOrderly ==
    ASSUME NEW s \in LedgerState, NEW q, NEW t, NEW n, NEW L, Orderly(s, n),
           NEW k \in Key, NEW x, q.reservations = [s.reservations EXCEPT ![k] = x], Fit(x),
           q.leases = CloseLeases(s.leases, L, t) \/ q.leases = s.leases,
           q.tombstones = s.tombstones
    PROVE  Orderly(q, n)
<1>1. s.reservations \in [Key -> Reservation \cup {Null}]
  BY DEF LedgerState
<1>2. q.reservations[k] = x /\ \A j \in Key : j # k => q.reservations[j] = s.reservations[j]
  BY <1>1
<1>3. \A j \in Key : q.reservations[j] # Null => Fit(q.reservations[j])
  BY <1>2 DEF Orderly
<1>4. \A l \in LeaseId : Dated(q, l, n)
  BY CloseLeasesDated
<1>5. QED BY <1>3, <1>4 DEF Orderly

\* The same reservations, the same leases but for closed ones.
LEMMA SameOrderly ==
    ASSUME NEW s \in LedgerState, NEW q, NEW t, NEW n, NEW L, Orderly(s, n),
           q.reservations = s.reservations,
           q.leases = CloseLeases(s.leases, L, t) \/ q.leases = s.leases,
           IsFiniteSet(q.tombstones), Cardinality(q.tombstones) <= MaxTombstones
    PROVE  Orderly(q, n)
<1>1. \A l \in LeaseId : Dated(q, l, n)
  BY CloseLeasesDated
<1>2. QED BY <1>1 DEF Orderly

\* A reservation whose settlement is as it was.
LEMMA SameSettlement ==
    ASSUME NEW r, NEW x, Fit(r), x.settlement = r.settlement,
           x.actual = r.actual, x.amounts = r.amounts,
           r.status = "reserved" \/ x.status = r.status
    PROVE  Fit(x)
BY DEF PersistedSettlementOK, Fit

\* The settlements the ledger writes.
LEMMA SettlementsFit ==
    ASSUME NEW r \in Reservation
    PROVE  /\ Fit(ChargedAtMaximum(r))
           /\ Fit(PaperSettled(r))
           /\ Fit(r) /\ r.status = "reserved" => Fit([r EXCEPT !.status = "released"])
           /\ Fit(r) => Fit([r EXCEPT !.secret = FALSE])
           /\ \A actual \in Amounts, costKnown \in BOOLEAN, hasResult \in BOOLEAN :
                 Fit(ExactlySettled(r, actual, costKnown, hasResult))
<1>1. Fit(ChargedAtMaximum(r))
  <2> DEFINE x == ChargedAtMaximum(r)
  <2>1. /\ x.settlement = [usage_source |-> "reserved_max_uncertain", actual_cost_known |-> FALSE]
        /\ x.actual = r.amounts /\ x.amounts = r.amounts /\ r.amounts \in Amounts
    BY DEF ChargedAtMaximum, Reservation
  <2> HIDE DEF x
  <2>2. /\ x.settlement.usage_source = "reserved_max_uncertain"
        /\ ~x.settlement.actual_cost_known /\ x.actual # Null /\ x.actual = x.amounts
    BY <2>1, NullIsNoRecord
  <2>3. Fit(x)
    BY <2>2 DEF PersistedSettlementOK, Fit
  <2>4. QED BY <2>3 DEF x
<1>2. Fit(PaperSettled(r))
  <2> DEFINE st == [usage_source |-> "legacy_unattributed", actual_cost_known |-> TRUE]
             x == PaperSettled(r)
  <2>1. x.settlement = st /\ x.status = "reconciled"
    BY DEF PaperSettled, Reservation
  <2>2. st \in Settlement /\ st.usage_source = "legacy_unattributed"
    BY DEF Settlement
  <2> HIDE DEF x, st
  <2>3. Fit(x)
    BY <2>1, <2>2, NullIsNoRecord DEF Fit
  <2>4. QED BY <2>3 DEF x
<1>3. ASSUME Fit(r), NEW x,
             \/ r.status = "reserved" /\ x = [r EXCEPT !.status = "released"]
             \/ x = [r EXCEPT !.secret = FALSE]
      PROVE  Fit(x)
  <2>1. /\ x.settlement = r.settlement /\ x.actual = r.actual /\ x.amounts = r.amounts
        /\ r.status = "reserved" \/ x.status = r.status
    BY <1>3 DEF Reservation
  <2>2. QED BY <1>3, <2>1, SameSettlement
<1>4. ASSUME NEW actual \in Amounts, NEW costKnown \in BOOLEAN, NEW hasResult \in BOOLEAN
      PROVE  Fit(ExactlySettled(r, actual, costKnown, hasResult))
  <2> DEFINE st == [usage_source |-> IF costKnown THEN "provider"
                                     ELSE "provider_tokens_estimated_cost",
                    actual_cost_known |-> costKnown]
             fe == IF exceedsReserved(r.amounts, actual) THEN "actual_exceeds_reserved" ELSE Null
             x == ExactlySettled(r, actual, costKnown, hasResult)
  <2>1. x = [r EXCEPT !.status = "reconciled", !.actual = actual, !.settlement = st,
                      !.finalize_error = fe, !.cached = hasResult, !.consumed = TRUE,
                      !.secret = FALSE]
    BY DEF ExactlySettled
  <2>2. \/ costKnown /\ st.usage_source = "provider" /\ st.actual_cost_known
        \/ st.usage_source = "provider_tokens_estimated_cost" /\ ~st.actual_cost_known
    BY <1>4
  <2> HIDE DEF st, fe, x
  <2>3. x.settlement = st /\ x.actual = actual
    BY <2>1 DEF Reservation
  <2>4. x.actual # Null
    BY <1>4, <2>3, NullIsNoRecord
  <2>5. Fit(x)
    BY <2>2, <2>3, <2>4 DEF PersistedSettlementOK, Fit
  <2>6. QED BY <2>5 DEF x
<1>5. QED BY <1>1, <1>2, <1>3, <1>4

\* recoverExpired.
LEMMA RecoverOrderly ==
    ASSUME NEW s \in LedgerState, NEW t \in Nat, NEW n, Orderly(s, n)
    PROVE  Orderly(recoverExpired(s, t), n)
<1> DEFINE K == ExpiredKeys(s, t)
           charged == {k \in K : s.reservations[k].started}
           q == recoverExpired(s, t)
<1>1. q.reservations =
        [k \in Key |-> IF k \in charged THEN ChargedAtMaximum(s.reservations[k])
                       ELSE IF k \in K THEN [s.reservations[k] EXCEPT !.status = "released"]
                       ELSE s.reservations[k]]
  BY DEF recoverExpired, LedgerState
<1>2. q.leases = CloseLeases(s.leases, ExpiredLeases(s, t), t) /\ q.tombstones \subseteq s.tombstones
  BY DEF recoverExpired, LedgerState
<1>3. ASSUME NEW k \in Key, q.reservations[k] # Null PROVE Fit(q.reservations[k])
  <2>1. CASE k \notin K
    <3>1. q.reservations[k] = s.reservations[k]
      BY <1>1, <2>1
    <3>2. QED BY <1>3, <3>1 DEF Orderly
  <2>2. CASE k \in K
    <3>1. s.reservations[k] # Null /\ s.reservations[k].status = "reserved"
      BY <2>2 DEF ExpiredKeys, HasStatus
    <3>2. s.reservations[k] \in Reservation /\ Fit(s.reservations[k])
      BY <3>1 DEF LedgerState, Orderly
    <3>3. \/ q.reservations[k] = ChargedAtMaximum(s.reservations[k])
          \/ q.reservations[k] = [s.reservations[k] EXCEPT !.status = "released"]
      BY <1>1, <2>2
    <3>4. QED BY <3>1, <3>2, <3>3, SettlementsFit
  <2>3. QED BY <2>1, <2>2
<1> HIDE DEF q
<1>4. \A l \in LeaseId : Dated(q, l, n)
  BY <1>2, CloseLeasesDated
<1>5. IsFiniteSet(q.tombstones) /\ Cardinality(q.tombstones) <= MaxTombstones
  <2>1. IsFiniteSet(s.tombstones) /\ Cardinality(s.tombstones) <= MaxTombstones
    BY DEF Orderly
  <2>2. /\ IsFiniteSet(q.tombstones) /\ Cardinality(q.tombstones) <= Cardinality(s.tombstones)
        /\ Cardinality(q.tombstones) \in Nat /\ Cardinality(s.tombstones) \in Nat
    BY <1>2, <2>1, FS_Subset, FS_CardinalityType
  <2>3. QED BY <2>1, <2>2, BoundAssumption
<1>6. QED BY <1>3, <1>4, <1>5 DEF Orderly, q

\* Creating the ledger and quarantining it write nothing that coerceState compares.
LEMMA TouchOrderly ==
    ASSUME NEW s \in LedgerState, NEW t \in Nat, NEW n, Orderly(s, n)
    PROVE  Orderly(ensureCreated(s), n) /\ Orderly(persistOwnerCancellationQuarantine(s, t), n)
<1>1. ASSUME NEW q, q = ensureCreated(s) \/ q = persistOwnerCancellationQuarantine(s, t)
      PROVE  Orderly(q, n)
  <2>1. q.reservations = s.reservations /\ q.leases = s.leases /\ q.tombstones = s.tombstones
    BY <1>1 DEF ensureCreated, persistOwnerCancellationQuarantine, LedgerState
  <2>2. QED BY <2>1, SameOrderly DEF Orderly
<1>2. QED BY <1>1

\* reserveBudget: a lease is acquired with the clock it is read at.
LEMMA ReserveOrderly ==
    ASSUME NEW s \in LedgerState, NEW t \in Nat, Orderly(s, t), NEW k \in Key, NEW d \in Digest,
           NEW o, NEW a \in ReserveAmounts, NEW l \in LeaseId
    PROVE  Orderly(reserveBudget(s, k, d, o, a, l, t), t)
<1> DEFINE q == reserveBudget(s, k, d, o, a, l, t)
           e == [reservation_key |-> k, acquired_at |-> t, expires_at |-> t + TTL,
                 released_at |-> Null]
           x == [request_digest |-> d, owner |-> o, lease_id |-> l, amounts |-> a,
                 actual |-> Null, status |-> "reserved", started |-> FALSE,
                 consumed |-> FALSE, secret |-> FALSE, hash |-> Null, settlement |-> Null,
                 finalize_error |-> Null, cached |-> FALSE]
<1>1. CASE ReserveVerdict(s, k, d, o, a) = "fresh"
  <2>1. q = AdmitReservation(ensureCreated(s), k, d, o, a, l, t)
    BY <1>1 DEF reserveBudget
  <2>2. /\ q.leases = [s.leases EXCEPT ![l] = e]
        /\ q.reservations = [s.reservations EXCEPT ![k] = x]
        /\ q.tombstones = s.tombstones
        /\ s.leases \in [LeaseId -> Lease \cup {Null}]
        /\ s.reservations \in [Key -> Reservation \cup {Null}]
    BY <2>1 DEF AdmitReservation, ensureCreated, LedgerState
  <2>3. x.settlement = Null /\ e.acquired_at = t /\ e.expires_at = t + TTL
    OBVIOUS
  <2> HIDE DEF q, e, x
  <2>4. Fit(x)
    BY <2>3 DEF PersistedSettlementOK, Fit
  <2>5. \A j \in Key : q.reservations[j] # Null => Fit(q.reservations[j])
    BY <2>2, <2>4 DEF Orderly
  <2>6. q.leases[l] = e /\ \A m \in LeaseId : m # l => q.leases[m] = s.leases[m]
    BY <2>2
  <2>7. \A m \in LeaseId : Dated(q, m, t)
    BY <2>3, <2>6, BoundAssumption DEF Orderly, Dated
  <2>8. Orderly(q, t)
    BY <2>2, <2>5, <2>7 DEF Orderly
  <2>9. QED BY <2>8 DEF q
<1>2. CASE ReserveVerdict(s, k, d, o, a) # "fresh"
  BY <1>2, TouchOrderly DEF reserveBudget
<1>3. QED BY <1>1, <1>2

\* markProviderStarted.
LEMMA MarkOrderly ==
    ASSUME NEW s \in LedgerState, NEW n, Orderly(s, n), NEW k \in Key, NEW d, NEW o, NEW l,
           NEW seen
    PROVE  Orderly(markProviderStarted(s, k, d, o, l, seen), n)
<1> DEFINE q == markProviderStarted(s, k, d, o, l, seen)
           r == s.reservations[k]
           x == [[[[r EXCEPT !.started = TRUE] EXCEPT !.consumed = FALSE] EXCEPT !.secret = TRUE]
                    EXCEPT !.hash = seen]
<1>1. CASE MarkVerdict(s, k, d, o, l, seen) = "started"
  <2>1. r # Null
    BY <1>1 DEF MarkVerdict
  <2>2. r \in Reservation /\ Fit(r)
    BY <2>1 DEF LedgerState, Orderly
  <2>3. /\ x.settlement = r.settlement /\ x.actual = r.actual /\ x.amounts = r.amounts
        /\ x.status = r.status
    BY <2>2 DEF Reservation
  <2>4. /\ q.reservations = [s.reservations EXCEPT ![k] = x] /\ q.leases = s.leases
        /\ q.tombstones = s.tombstones
    BY <1>1 DEF markProviderStarted, LedgerState
  <2> HIDE DEF q, x, r
  <2>5. Fit(x)
    BY <2>2, <2>3, SameSettlement
  <2>6. Orderly(q, n)
    BY <2>4, <2>5, OneOrderly
  <2>7. QED BY <2>6 DEF q
<1>2. CASE MarkVerdict(s, k, d, o, l, seen) # "started"
  BY <1>2 DEF markProviderStarted
<1>3. QED BY <1>1, <1>2

\* The ways a reservation is closed.
LEMMA CloseOrderly ==
    ASSUME NEW s \in LedgerState, NEW t \in Nat, NEW n, Orderly(s, n), NEW k \in Key,
           HasStatus(s, k, "reserved")
    PROVE  /\ Orderly(chargeUncertainReservation(s, k, t), n)
           /\ Orderly(ReleaseReservation(s, k, t), n)
           /\ Orderly(SettlePaper(s, k, t), n)
           /\ \A usage \in Usage, costKnown \in BOOLEAN, hasResult \in BOOLEAN :
                 Orderly(ReconcileExactly(s, k, usage, costKnown, hasResult, t), n)
<1> DEFINE r == s.reservations[k]
<1>1. r \in Reservation /\ Fit(r) /\ r.status = "reserved"
  BY DEF HasStatus, LedgerState, Orderly
<1>2. ASSUME NEW q, NEW x, Fit(x), q.reservations = [s.reservations EXCEPT ![k] = x],
             q.leases = CloseLeases(s.leases, {r.lease_id}, t), q.tombstones = s.tombstones
      PROVE  Orderly(q, n)
  BY <1>2, OneOrderly
<1>3. Orderly(chargeUncertainReservation(s, k, t), n)
  <2> DEFINE q == chargeUncertainReservation(s, k, t)
             x == ChargedAtMaximum(r)
  <2>1. /\ q.reservations = [s.reservations EXCEPT ![k] = x]
        /\ q.leases = CloseLeases(s.leases, {r.lease_id}, t) /\ q.tombstones = s.tombstones
    BY DEF chargeUncertainReservation, LedgerState
  <2>2. Fit(x)
    BY <1>1, SettlementsFit
  <2> HIDE DEF q, x
  <2>3. Orderly(q, n)
    BY <1>2, <2>1, <2>2
  <2>4. QED BY <2>3 DEF q
<1>4. Orderly(ReleaseReservation(s, k, t), n)
  <2> DEFINE q == ReleaseReservation(s, k, t)
             x == [r EXCEPT !.status = "released"]
  <2>1. /\ q.reservations = [s.reservations EXCEPT ![k] = x]
        /\ q.leases = CloseLeases(s.leases, {r.lease_id}, t) /\ q.tombstones = s.tombstones
    BY DEF ReleaseReservation, LedgerState
  <2>2. Fit(x)
    BY <1>1, SettlementsFit
  <2> HIDE DEF q, x
  <2>3. Orderly(q, n)
    BY <1>2, <2>1, <2>2
  <2>4. QED BY <2>3 DEF q
<1>5. Orderly(SettlePaper(s, k, t), n)
  <2> DEFINE q == SettlePaper(s, k, t)
             x == PaperSettled(r)
  <2>1. /\ q.reservations = [s.reservations EXCEPT ![k] = x]
        /\ q.leases = CloseLeases(s.leases, {r.lease_id}, t) /\ q.tombstones = s.tombstones
    BY DEF SettlePaper, LedgerState
  <2>2. Fit(x)
    BY <1>1, SettlementsFit
  <2> HIDE DEF q, x
  <2>3. Orderly(q, n)
    BY <1>2, <2>1, <2>2
  <2>4. QED BY <2>3 DEF q
<1>6. ASSUME NEW usage \in Usage, NEW costKnown \in BOOLEAN, NEW hasResult \in BOOLEAN
      PROVE  Orderly(ReconcileExactly(s, k, usage, costKnown, hasResult, t), n)
  <2> DEFINE q == ReconcileExactly(s, k, usage, costKnown, hasResult, t)
             x == ExactlySettled(r, usage, costKnown, hasResult)
  <2>1. /\ q.reservations = [s.reservations EXCEPT ![k] = x]
        /\ q.leases = CloseLeases(s.leases, {r.lease_id}, t) /\ q.tombstones = s.tombstones
    BY DEF ReconcileExactly, LedgerState
  <2>2. usage \in Amounts
    BY CounterAssumption DEF Amounts
  <2>3. Fit(x)
    BY <1>1, <2>2, SettlementsFit
  <2> HIDE DEF q, x
  <2>4. Orderly(q, n)
    BY <1>2, <2>1, <2>3
  <2>5. QED BY <2>4 DEF q
<1>7. QED BY <1>3, <1>4, <1>5, <1>6

\* settleUncertainBudget and finalizeBudget.
LEMMA SettleOrderly ==
    ASSUME NEW s \in LedgerState, NEW t \in Nat, NEW n, Orderly(s, n), NEW k \in Key,
           NEW d, NEW o, NEW l
    PROVE  /\ Orderly(settleUncertainBudget(s, k, d, o, l, t), n)
           /\ \A report \in Report : Orderly(finalizeBudget(s, k, d, o, l, report, t), n)
<1> DEFINE v == SettleVerdict(s, k, d, o, l)
           r == s.reservations[k]
<1>1. CASE v = "settle"
  <2>1. HasStatus(s, k, "reserved")
    BY <1>1, SettleChecks
  <2>2. Orderly(settleUncertainBudget(s, k, d, o, l, t), n)
    BY <1>1, <2>1, CloseOrderly DEF settleUncertainBudget
  <2>3. ASSUME NEW report \in Report
        PROVE  Orderly(finalizeBudget(s, k, d, o, l, report, t), n)
    <3>1. CASE report.usage = Null
      BY <1>1, <2>1, <3>1, CloseOrderly DEF finalizeBudget
    <3>2. CASE report.usage # Null /\ report.result = "rejected"
      BY <1>1, <3>2 DEF finalizeBudget
    <3>3. CASE report.usage # Null /\ report.result # "rejected"
      <4> DEFINE h == report.result = "canonical"
      <4>1. finalizeBudget(s, k, d, o, l, report, t)
              = ReconcileExactly(s, k, report.usage, report.costKnown, h, t)
        BY <1>1, <3>3 DEF finalizeBudget
      <4>2. report.usage \in Usage /\ report.costKnown \in BOOLEAN /\ h \in BOOLEAN
        BY <3>3 DEF Report
      <4> HIDE DEF h
      <4>3. QED BY <2>1, <4>1, <4>2, CloseOrderly
    <3>4. QED BY <3>1, <3>2, <3>3
  <2>4. QED BY <2>2, <2>3
<1>2. CASE v = "replay"
  <2> DEFINE q == [s EXCEPT !.reservations[k].secret = FALSE]
             y == [r EXCEPT !.secret = FALSE]
  <2>1. /\ settleUncertainBudget(s, k, d, o, l, t) = q
        /\ \A report : finalizeBudget(s, k, d, o, l, report, t) = q
    BY <1>2 DEF settleUncertainBudget, finalizeBudget
  <2>2. r # Null
    BY <1>2, SettleChecks DEF HasStatus
  <2>3. r \in Reservation /\ Fit(r)
    BY <2>2 DEF LedgerState, Orderly
  <2>4. Fit(y)
    BY <2>3, SettlementsFit
  <2>5. /\ q.reservations = [s.reservations EXCEPT ![k] = y] /\ q.leases = s.leases
        /\ q.tombstones = s.tombstones
    BY DEF LedgerState
  <2> HIDE DEF q, y
  <2>6. Orderly(q, n)
    BY <2>4, <2>5, OneOrderly
  <2>7. QED BY <2>1, <2>6
<1>3. CASE v # "settle" /\ v # "replay"
  <2>1. /\ settleUncertainBudget(s, k, d, o, l, t) = s
        /\ \A report : finalizeBudget(s, k, d, o, l, report, t) = s
    BY <1>3 DEF settleUncertainBudget, finalizeBudget
  <2>2. QED BY <2>1
<1>4. QED BY <1>1, <1>2, <1>3

\* cancelPreProviderReservation: a tombstone is written only where there is room.
LEMMA CancelOrderly ==
    ASSUME NEW s \in LedgerState, NEW t \in Nat, NEW n, Orderly(s, n), NEW k \in Key,
           NEW d \in Digest, NEW o \in Owner
    PROVE  Orderly(cancelPreProviderReservation(s, k, d, o, t), n)
<1> DEFINE v == CancelVerdict(s, k, d, o, t)
           p == WithTombstone(s, o, k, d, t)
           q == cancelPreProviderReservation(s, k, d, o, t)
<1>1. p \in LedgerState /\ p.reservations = s.reservations /\ p.leases = s.leases
  BY TombstoneFrame
<1>2. ASSUME TombstoneFits(s, o, k, d, t) PROVE Orderly(p, n)
  <2>1. IsFiniteSet(s.tombstones) /\ Cardinality(s.tombstones) <= MaxTombstones
    BY DEF Orderly
  <2>2. CASE ownerCancellationTombstoneMatches(s, o, k, d)
    BY <2>2 DEF WithTombstone
  <2>3. CASE ~ownerCancellationTombstoneMatches(s, o, k, d)
    <3> DEFINE x == [owner |-> o, key |-> k, digest |-> d, expires_at |-> t + TTL]
    <3>1. p.tombstones = s.tombstones \cup {x} /\ Cardinality(s.tombstones) < MaxTombstones
      BY <1>2, <2>3 DEF WithTombstone, TombstoneFits, LedgerState
    <3> HIDE DEF x, p
    <3>2. /\ IsFiniteSet(p.tombstones) /\ Cardinality(s.tombstones) \in Nat
          /\ \/ Cardinality(p.tombstones) = Cardinality(s.tombstones)
             \/ Cardinality(p.tombstones) = Cardinality(s.tombstones) + 1
      <4>1. Cardinality(s.tombstones) \in Nat
        BY <2>1, FS_CardinalityType
      <4>2. /\ IsFiniteSet(s.tombstones \cup {x})
            /\ \/ Cardinality(s.tombstones \cup {x}) = Cardinality(s.tombstones)
               \/ Cardinality(s.tombstones \cup {x}) = Cardinality(s.tombstones) + 1
        BY <2>1, FS_AddElement
      <4>3. QED BY <3>1, <4>1, <4>2
    <3>3. Cardinality(p.tombstones) <= MaxTombstones
      BY <3>1, <3>2, BoundAssumption
    <3>4. QED BY <1>1, <3>2, <3>3, SameOrderly
  <2>4. QED BY <2>2, <2>3
<1>3. CASE v = "cancelled"
  <2>1. HasStatus(s, k, "reserved") /\ TombstoneFits(s, o, k, d, t)
    BY <1>3 DEF CancelVerdict
  <2>2. q = ReleaseReservation(p, k, t)
    BY <1>3 DEF cancelPreProviderReservation
  <2>3. Orderly(p, n)
    BY <1>2, <2>1
  <2>4. HasStatus(p, k, "reserved")
    BY <1>1, <2>1 DEF HasStatus
  <2> HIDE DEF p, q
  <2>5. Orderly(q, n)
    BY <1>1, <2>2, <2>3, <2>4, CloseOrderly
  <2>6. QED BY <2>5 DEF q
<1>4. CASE v = "tombstoned"
  <2>1. q = p /\ TombstoneFits(s, o, k, d, t)
    BY <1>4 DEF CancelVerdict, cancelPreProviderReservation
  <2>2. QED BY <1>2, <2>1
<1>5. CASE v = "owner_cancellation_tombstone_capacity_exhausted"
  BY <1>5, TouchOrderly DEF cancelPreProviderReservation
<1>6. CASE v \notin {"cancelled", "tombstoned", "owner_cancellation_tombstone_capacity_exhausted"}
  BY <1>6 DEF cancelPreProviderReservation
<1>7. QED BY <1>3, <1>4, <1>5, <1>6

\* finalizeOwnedPaperReservation, releaseBudget and heartbeatLease, whose clock reading
\* is not before the lease's.
LEMMA PaperReleaseBeatOrderly ==
    ASSUME NEW s \in LedgerState, NEW t \in Nat, Orderly(s, t), NEW l \in LeaseId
    PROVE  /\ Orderly(heartbeatLease(s, l, t), t)
           /\ \A k \in Key : \A d, o : Orderly(finalizeOwnedPaperReservation(s, k, d, o, l, t), t)
           /\ \A k \in Key : Orderly(releaseBudget(s, k, l, t), t)
<1>1. Orderly(heartbeatLease(s, l, t), t)
  <2>1. CASE IsActive(s, l)
    <3> DEFINE e == [s.leases[l] EXCEPT !.expires_at = t + TTL]
               q == heartbeatLease(s, l, t)
    <3>1. s.leases[l] \in Lease /\ s.leases \in [LeaseId -> Lease \cup {Null}]
      BY <2>1 DEF IsActive, LedgerState
    <3>2. s.leases[l].acquired_at <= t
      BY <2>1 DEF Orderly, Dated, IsActive
    <3>3. e.acquired_at = s.leases[l].acquired_at /\ e.expires_at = t + TTL
      BY <3>1 DEF Lease
    <3>4. e.acquired_at \in Nat
      BY <3>1, <3>3 DEF Lease
    <3>5. /\ q.leases = [s.leases EXCEPT ![l] = e] /\ q.reservations = s.reservations
          /\ q.tombstones = s.tombstones
      BY <2>1 DEF heartbeatLease, LedgerState
    <3> HIDE DEF e, q
    <3>6. \A m \in LeaseId : Dated(q, m, t)
      BY <3>1, <3>2, <3>3, <3>4, <3>5, BoundAssumption DEF Orderly, Dated
    <3>7. Orderly(q, t)
      BY <3>5, <3>6 DEF Orderly
    <3>8. QED BY <3>7 DEF q
  <2>2. QED BY <2>1 DEF heartbeatLease
<1>2. ASSUME NEW k \in Key, NEW d, NEW o
      PROVE  Orderly(finalizeOwnedPaperReservation(s, k, d, o, l, t), t)
  <2>1. CASE PaperVerdict(s, k, d, o, l) = "settle"
    <3>1. s.reservations[k] # Null =>
            s.reservations[k].status \in {"reserved", "reconciled", "released"}
      BY DEF LedgerState, Reservation
    <3>2. HasStatus(s, k, "reserved")
      BY <2>1, <3>1 DEF PaperVerdict, HasStatus
    <3>3. QED BY <2>1, <3>2, CloseOrderly DEF finalizeOwnedPaperReservation
  <2>2. QED BY <2>1 DEF finalizeOwnedPaperReservation
<1>3. ASSUME NEW k \in Key PROVE Orderly(releaseBudget(s, k, l, t), t)
  <2>1. CASE ~Releasable(s, k, l)
    BY <2>1 DEF releaseBudget
  <2>2. CASE Releasable(s, k, l) /\ HasStatus(s, k, "reserved")
    BY <2>2, CloseOrderly DEF releaseBudget
  <2>3. CASE Releasable(s, k, l) /\ ~HasStatus(s, k, "reserved")
    <3> DEFINE q == releaseBudget(s, k, l, t)
    <3>1. /\ q.reservations = s.reservations /\ q.tombstones = s.tombstones
          /\ q.leases = CloseLeases(s.leases, {l}, t)
      BY <2>3 DEF releaseBudget, LedgerState
    <3> HIDE DEF q
    <3>2. Orderly(q, t)
      BY <3>1, SameOrderly DEF Orderly
    <3>3. QED BY <3>2 DEF q
  <2>4. QED BY <2>1, <2>2, <2>3
<1>4. QED BY <1>1, <1>2, <1>3

\* Every step keeps the stored value orderly, and stores one within the commit limit.
LEMMA NextOrderly ==
    ASSUME TypeOK, Orderly(ledger, now), [Next]_vars
    PROVE  Orderly(ledger', now') /\ (ledger' = ledger \/ FitsCommitLimit(ledger'))
<1>1. ledger \in LedgerState /\ now \in Nat /\ Opened \in LedgerState
  BY RecoverType, BoundAssumption DEF TypeOK, Opened
<1>2. Orderly(Opened, now)
  BY <1>1, RecoverOrderly DEF Opened
<1>3. ASSUME NEW q, Commit(q), Orderly(q, now)
      PROVE  Orderly(ledger', now') /\ FitsCommitLimit(ledger')
  BY <1>3 DEF Commit
<1>4. ASSUME UNCHANGED vars PROVE Orderly(ledger', now') /\ ledger' = ledger
  BY <1>4 DEF vars
<1>5. CASE CreateBudget
  BY <1>1, <1>2, <1>3, <1>5, TouchOrderly DEF CreateBudget
<1>6. CASE \E k \in Key, d \in Digest, o \in Owner \cup {Null}, a \in ReserveAmounts,
              l \in LeaseId : Reserve(k, d, o, a, l)
  BY <1>1, <1>2, <1>3, <1>6, ReserveOrderly DEF Reserve
<1>7. CASE \E k \in Key, d \in Digest, o \in Owner \cup {Null}, l \in LeaseId,
              seen \in LeaseId \cup {Null} : MarkProviderStarted(k, d, o, l, seen)
  BY <1>1, <1>2, <1>3, <1>7, MarkOrderly DEF MarkProviderStarted
<1>8. CASE \E k \in Key, d \in Digest, o \in Owner \cup {Null}, l \in LeaseId \cup {Null} :
              SettleUncertain(k, d, o, l)
  BY <1>1, <1>2, <1>3, <1>8, SettleOrderly DEF SettleUncertain
<1>9. CASE \E k \in Key, d \in Digest, o \in Owner \cup {Null}, l \in LeaseId \cup {Null} :
              \E report \in Reports(k, d, o, l) : FinalizeExact(k, d, o, l, report)
  <2>1. PICK k \in Key, d \in Digest, o \in Owner \cup {Null}, l \in LeaseId \cup {Null} :
              \E report \in Reports(k, d, o, l) : FinalizeExact(k, d, o, l, report)
    BY <1>9
  <2>2. Reports(k, d, o, l) \subseteq Report
    <3>1. [usage |-> Null, costKnown |-> FALSE, result |-> "none"] \in Report
      BY DEF Report
    <3>2. QED BY <3>1 DEF Reports
  <2>3. QED BY <1>1, <1>2, <1>3, <2>1, <2>2, SettleOrderly DEF FinalizeExact
<1>10. CASE \E k \in Key, d \in Digest, o \in Owner, l \in LeaseId : FinalizeOwnedPaper(k, d, o, l)
  BY <1>1, <1>2, <1>3, <1>10, PaperReleaseBeatOrderly DEF FinalizeOwnedPaper
<1>11. CASE \E l \in LeaseId : Heartbeat(l)
  BY <1>1, <1>2, <1>3, <1>11, PaperReleaseBeatOrderly DEF Heartbeat
<1>12. CASE \E k \in Key, d \in Digest, o \in Owner, t \in ClockReadings :
              CancelPreProvider(k, d, o, t)
  <2>1. PICK k \in Key, d \in Digest, o \in Owner, t \in ClockReadings :
              CancelPreProvider(k, d, o, t)
    BY <1>12
  <2>2. t \in Nat
    BY <1>1, BoundAssumption DEF ClockReadings
  <2>3. recoverExpired(ledger, t) \in LedgerState /\ Orderly(recoverExpired(ledger, t), now)
    BY <1>1, <2>2, RecoverType, RecoverOrderly
  <2>4. QED BY <1>3, <2>1, <2>2, <2>3, CancelOrderly DEF CancelPreProvider
<1>13. CASE \E k \in Key, l \in LeaseId : Release(k, l)
  BY <1>1, <1>2, <1>3, <1>13, PaperReleaseBeatOrderly DEF Release
<1>14. CASE RecoverExpiredLeases \/ Alarm
  BY <1>2, <1>3, <1>14 DEF RecoverExpiredLeases, Alarm
<1>15. CASE Throw
  BY <1>4, <1>15 DEF Throw
<1>16. CASE Tick
  <2>1. ledger' = ledger /\ now' = now + 1
    BY <1>16 DEF Tick
  <2>2. \A l \in LeaseId : ledger.leases[l] # Null => ledger.leases[l].acquired_at \in Nat
    BY <1>1 DEF LedgerState, Lease
  <2>3. QED BY <1>1, <2>1, <2>2 DEF Orderly, Dated
<1>17. CASE UNCHANGED vars
  BY <1>4, <1>17
<1>18. QED BY <1>5, <1>6, <1>7, <1>8, <1>9, <1>10, <1>11, <1>12, <1>13, <1>14, <1>15, <1>16,
              <1>17 DEF Next

\* There is no third way to an unreadable ledger: whatever is retried, delayed, expired or
\* refused, the stored value passes coerceState unless it holds a finalized paper run or
\* a lease that a cancel with an old reading of the clock closed before its acquisition.
THEOREM LoadsTheorem == Spec => []UnreadableOnlyByPaperOrLateCancel
<1> DEFINE Small == StateUnits(ledger) <= MaxMutableUnits + HeadroomUnits
<1>1. Init => Orderly(ledger, now) /\ Small
  <2> SUFFICES ASSUME Init PROVE Orderly(ledger, now) /\ Small
    OBVIOUS
  <2>1. /\ \A k \in Key : ledger.reservations[k] = Null
        /\ \A l \in LeaseId : ledger.leases[l] = Null
        /\ ledger.tombstones = {} /\ ledger.audit = {} /\ ledger.quarantine_until = Null
    BY DEF Init, emptyLedger
  <2>2. IsFiniteSet({}) /\ Cardinality({}) = 0
    BY FS_EmptySet
  <2>3. Orderly(ledger, now)
    BY <2>1, <2>2, BoundAssumption DEF Orderly, Dated
  <2>4. /\ {k \in Key : ledger.reservations[k] # Null} = {}
        /\ {k \in Key : HasStatus(ledger, k, "reconciled")} = {}
        /\ {l \in LeaseId : ledger.leases[l] # Null} = {}
    BY <2>1 DEF HasStatus
  <2>5. StateUnits(ledger) = 0
    BY <2>1, <2>2, <2>4 DEF StateUnits
  <2>6. QED BY <2>3, <2>5, BoundAssumption
<1>2. TypeOK /\ Orderly(ledger, now) /\ Small /\ [Next]_vars => Orderly(ledger, now)' /\ Small'
  <2> SUFFICES ASSUME TypeOK, Orderly(ledger, now), Small, [Next]_vars
               PROVE  Orderly(ledger, now)' /\ Small'
    OBVIOUS
  <2>1. Orderly(ledger', now') /\ (ledger' = ledger \/ FitsCommitLimit(ledger'))
    BY NextOrderly
  <2>2. Small'
    BY <2>1 DEF FitsCommitLimit
  <2>3. QED BY <2>1, <2>2
<1>3. ASSUME TypeOK, Orderly(ledger, now), Small, Safe(ledger)
      PROVE  UnreadableOnlyByPaperOrLateCancel
  <2> SUFFICES ASSUME ~PaperStored(ledger), ~ClosedBeforeAcquired(ledger) PROVE Loads(ledger)
    BY DEF UnreadableOnlyByPaperOrLateCancel
  <2>1. \A k \in Key : ledger.reservations[k] # Null => PersistedSettlementOK(ledger.reservations[k])
    BY <1>3 DEF Orderly, Fit, PaperStored, HasStatus
  <2>2. ASSUME NEW l \in LeaseId PROVE LeaseOK(ledger, l)
    <3>1. ledger.leases[l] # Null =>
            /\ ledger.leases[l].acquired_at \in Nat
            /\ ledger.leases[l].released_at \in Nat \cup {Null}
      BY <1>3 DEF TypeOK, LedgerState, Lease
    <3>2. QED BY <1>3, <3>1 DEF Orderly, Dated, ClosedBeforeAcquired, LeaseOK
  <2>3. CountersOK(ledger) /\ \A k \in Key : LifecycleOK(ledger, k)
    BY <1>3 DEF Safe, Sound
  <2>4. QED BY <1>3, <2>1, <2>2, <2>3 DEF Orderly, Loads
<1>4. QED BY <1>1, <1>2, <1>3, TypeCorrect, AccountingSafe, PTL DEF Spec
=============================================================================
