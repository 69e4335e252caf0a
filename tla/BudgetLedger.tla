---------------------------- MODULE BudgetLedger ----------------------------
(***************************************************************************)
(* The hard budget ledger of the research AI gateway: one Durable Object   *)
(* that holds reservations, leases and counters as a single stored value   *)
(* (platform/workers/research-ai-gateway/src/budget_do.ts) behind the RPC  *)
(* and HTTP surface of budget_http.ts.                                     *)
(*                                                                         *)
(* Every operation of the code is one storage transaction that loads the   *)
(* ledger, runs recoverExpired, applies its own transition, and writes the *)
(* ledger together with the next recovery alarm.  Here an operation is a   *)
(* state function  s |-> s'  on the ledger record, a verdict (the error or *)
(* success the caller sees, in the order of the code's early returns) and  *)
(* an action that commits it.                                              *)
(*                                                                         *)
(* Abstractions.  A reservation and its lease are created by the same call *)
(* with two fresh UUIDs: one element of LeaseId, the "run", stands for     *)
(* both.  The one-shot settlement secret is minted once per run; what the  *)
(* stored hash of it was computed over is the run the minting call had     *)
(* read.  The hash of an owner capability binds the capability to key and  *)
(* digest: it matches exactly when all three do.  Money is in integer      *)
(* micro-dollars, as usdMicros makes it.  Diagnostic text (frozen and      *)
(* uncertainty reasons, cached response bodies) is not kept.               *)
(***************************************************************************)
EXTENDS Integers, FiniteSets, FiniteSums

CONSTANTS
    Key,              \* idempotency keys
    Digest,           \* request digests
    Owner,            \* reserve-owner capabilities
    LeaseId,          \* runs: lease ids / reservation ids
    Counter,          \* CounterName
    ProviderCounter,  \* the counters only a provider call can spend
    Cap,              \* CAP_FOR
    ReserveAmounts,   \* the amounts callers may reserve (parseAmounts output)
    Usage,            \* the usage a provider may report (parseActualUsage output)
    TTL,              \* lease_ttl_seconds, also the tombstone and quarantine window
    MaxParallel,      \* max_parallel_experiments
    MaxTombstones,    \* MAX_OWNER_CANCELLATION_TOMBSTONES
    MaxMutableUnits,  \* MAX_MUTABLE_LEDGER_STATE_BYTES, in stored entries
    HeadroomUnits,    \* OWNER_CANCELLATION_QUARANTINE_HEADROOM_BYTES, in entries
    MaxTime,          \* bound on the clock
    ClockLag,         \* how old an operation's reading of the clock may be at commit
    Null

ASSUME NullAssumption == /\ Null \notin Int
                         /\ Null \notin Owner
                         /\ Null \notin LeaseId
                         /\ Null \notin Key
                         /\ Null \notin {"actual_exceeds_reserved", "provider_usage_uncertain"}
ASSUME FiniteAssumption == IsFiniteSet(Key) /\ IsFiniteSet(LeaseId)
ASSUME CounterAssumption ==
    /\ ProviderCounter \subseteq Counter
    /\ Cap \in [Counter -> Nat]
    /\ ReserveAmounts \subseteq [Counter -> Nat]
    /\ Usage \subseteq [Counter -> Nat]
ASSUME BoundAssumption ==
    /\ TTL \in Nat \ {0}
    /\ MaxParallel \in Nat \ {0}
    /\ MaxTombstones \in Nat
    /\ MaxMutableUnits \in Nat
    /\ HeadroomUnits \in Nat \ {0}
    /\ MaxTime \in Nat
    /\ ClockLag \in Nat

VARIABLES
    ledger,  \* the stored LedgerState
    alarm,   \* the Durable Object alarm written with it
    now      \* Date.now() as the operations read it

vars == <<ledger, alarm, now>>

-----------------------------------------------------------------------------
(* Counters *)

Amounts == [Counter -> Nat]

zeroCounters == [c \in Counter |-> 0]

\* applyDelta with sign 1 and -1; subCounter clamps at zero.
Plus(a, b) == [c \in Counter |-> a[c] + b[c]]
Minus(a, b) == [c \in Counter |-> IF b[c] <= a[c] THEN a[c] - b[c] ELSE 0]

\* What the ledger's reservations add up to in one counter.
SumKeys(f) == SumOver(Key, f)

\* MUTANT of insufficient: what is already reserved is not counted.
insufficientIgnoringReserved(s, delta) ==
    \E c \in Counter : delta[c] # 0 /\ s.used[c] + delta[c] > Cap[c]

\* A cap is exceeded by the delta; a counter with a zero delta is not looked at.
insufficient(s, delta) ==
    \E c \in Counter : delta[c] # 0 /\ s.used[c] + s.reserved[c] + delta[c] > Cap[c]

exceedsReserved(amounts, actual) == \E c \in Counter : actual[c] > amounts[c]

-----------------------------------------------------------------------------
(* The stored ledger *)

Settlement == [usage_source : {"provider", "provider_tokens_estimated_cost",
                               "legacy_unattributed", "reserved_max_uncertain"},
               actual_cost_known : BOOLEAN]

Reservation ==
    [request_digest : Digest,
     owner : Owner \cup {Null},
     lease_id : LeaseId,
     amounts : Amounts,
     actual : Amounts \cup {Null},
     status : {"reserved", "reconciled", "released"},
     started : BOOLEAN,               \* provider_started_at # null
     consumed : BOOLEAN,              \* settlement_capability_consumed
     secret : BOOLEAN,                \* settlement_capability_secret # null
     hash : LeaseId \cup {Null},      \* the run settlement_capability_hash binds
     settlement : Settlement \cup {Null},
     finalize_error : {Null, "actual_exceeds_reserved", "provider_usage_uncertain"},
     cached : BOOLEAN]                \* cached_result # null

Lease == [reservation_key : Key, acquired_at : Nat, expires_at : Nat,
          released_at : Nat \cup {Null}]

\* Null is the absence of any of these.
ASSUME NullIsNoRecord ==
    Null \notin Amounts /\ Null \notin Settlement /\ Null \notin Reservation /\ Null \notin Lease

Tombstone == [owner : Owner, key : Key, digest : Digest, expires_at : Nat]

Audit == [kind : {"actual_exceeds_reserved", "uncertain_provider_charge"},
          run : LeaseId]

LedgerState ==
    [created : BOOLEAN,
     used : Amounts,
     reserved : Amounts,
     reservations : [Key -> Reservation \cup {Null}],
     leases : [LeaseId -> Lease \cup {Null}],
     tombstones : SUBSET Tombstone,
     quarantine_until : Nat \cup {Null},
     frozen : BOOLEAN,
     audit : SUBSET Audit]

emptyLedger ==
    [created |-> FALSE,
     used |-> zeroCounters,
     reserved |-> zeroCounters,
     reservations |-> [k \in Key |-> Null],
     leases |-> [l \in LeaseId |-> Null],
     tombstones |-> {},
     quarantine_until |-> Null,
     frozen |-> FALSE,
     audit |-> {}]

HasStatus(s, k, st) == s.reservations[k] # Null /\ s.reservations[k].status = st

IsActive(s, l) == s.leases[l] # Null /\ s.leases[l].released_at = Null

activeLeases(s) == {l \in LeaseId : IsActive(s, l)}

\* What key k contributes to a counter in a given status.
HeldBy(s, k, c) == IF HasStatus(s, k, "reserved") THEN s.reservations[k].amounts[c] ELSE 0
SpentBy(s, k, c) == IF HasStatus(s, k, "reconciled") /\ s.reservations[k].actual # Null
                    THEN s.reservations[k].actual[c] ELSE 0

-----------------------------------------------------------------------------
(* What loadState accepts and what saveState writes *)

\* requirePersistedSettlement: the source and the cost fields must agree.
PersistedSettlementOK(r) ==
    LET st == r.settlement IN
    st # Null =>
      /\ r.actual # Null
      /\ CASE st.usage_source = "provider" -> st.actual_cost_known
           [] st.usage_source = "provider_tokens_estimated_cost" -> ~st.actual_cost_known
           [] st.usage_source = "reserved_max_uncertain" ->
                  ~st.actual_cost_known /\ r.actual = r.amounts
           [] st.usage_source = "legacy_unattributed" -> ~st.actual_cost_known

\* requirePersistedOccupancyClosure, the lifecycle of one reservation.
LifecycleOK(s, k) ==
    LET r == s.reservations[k] IN
    r # Null =>
      /\ s.leases[r.lease_id] # Null
      /\ s.leases[r.lease_id].reservation_key = k
      /\ r.status = "reserved" =>
            /\ r.actual = Null /\ r.settlement = Null
            /\ s.leases[r.lease_id].released_at = Null
      /\ r.status # "reserved" => s.leases[r.lease_id].released_at # Null
      /\ r.status = "reconciled" => r.actual # Null /\ r.settlement # Null
      /\ r.status = "released" => r.actual = Null /\ r.settlement = Null /\ ~r.started

\* ... and the counters it derives from the reservations.
CountersOK(s) ==
    \A c \in Counter :
        /\ s.reserved[c] = SumKeys([k \in Key |-> HeldBy(s, k, c)])
        /\ s.used[c] = SumKeys([k \in Key |-> SpentBy(s, k, c)])

\* requirePersistedLease: a lease is not released before it was acquired.
LeaseOK(s, l) ==
    s.leases[l] # Null =>
      /\ s.leases[l].acquired_at <= s.leases[l].expires_at
      /\ s.leases[l].released_at # Null =>
             s.leases[l].acquired_at <= s.leases[l].released_at

\* The serialized size, in stored entries: a settlement and an audit record are
\* written beside the reservation they belong to.
StateUnits(s) ==
    Cardinality({k \in Key : s.reservations[k] # Null})
    + Cardinality({k \in Key : HasStatus(s, k, "reconciled")})
    + Cardinality({l \in LeaseId : s.leases[l] # Null})
    + Cardinality(s.tombstones) + Cardinality(s.audit)
    + (IF s.quarantine_until # Null THEN 1 ELSE 0)

\* coerceState: any failure throws PersistedBudgetStateError out of every operation.
Loads(s) ==
    /\ \A k \in Key : s.reservations[k] # Null => PersistedSettlementOK(s.reservations[k])
    /\ \A k \in Key : LifecycleOK(s, k)
    /\ \A l \in LeaseId : LeaseOK(s, l)
    /\ CountersOK(s)
    /\ Cardinality(s.tombstones) <= MaxTombstones
    /\ StateUnits(s) <= MaxMutableUnits + HeadroomUnits

\* requireLedgerStateWithinCommitLimit
FitsCommitLimit(s) ==
    /\ StateUnits(s) <= MaxMutableUnits + HeadroomUnits
    /\ s.quarantine_until = Null => StateUnits(s) <= MaxMutableUnits

\* MUTANT of Deadlines: the alarm is set for cancellations only.
DeadlinesWithoutLeases(s) ==
    {t.expires_at : t \in s.tombstones}
    \cup (IF s.quarantine_until # Null THEN {s.quarantine_until} ELSE {})

\* saveState: the earliest expiry of an active lease, a tombstone or the quarantine.
Deadlines(s) ==
    {s.leases[l].expires_at : l \in activeLeases(s)}
    \cup {t.expires_at : t \in s.tombstones}
    \cup (IF s.quarantine_until # Null THEN {s.quarantine_until} ELSE {})

nextAlarm(s) ==
    IF Deadlines(s) = {} THEN Null
    ELSE CHOOSE d \in Deadlines(s) : \A e \in Deadlines(s) : d <= e

-----------------------------------------------------------------------------
(* Closing a reservation *)

\* closeReservationLease, for a set of leases: an open lease is released at t.
CloseLeases(leases, L, t) ==
    [l \in LeaseId |-> IF l \in L /\ leases[l] # Null /\ leases[l].released_at = Null
                       THEN [leases[l] EXCEPT !.released_at = t] ELSE leases[l]]

\* MUTANT of ChargedAtMaximum: the reason is written where the error code belongs.
ChargedWithReason(r) ==
    [r EXCEPT !.status = "reconciled",
              !.actual = r.amounts,
              !.settlement = [usage_source |-> "reserved_max_uncertain",
                              actual_cost_known |-> FALSE],
              !.finalize_error = "timeout",
              !.cached = TRUE,
              !.secret = FALSE,
              !.consumed = TRUE]

\* Settled at the reserved maximum, because what the provider used is unknown.
ChargedAtMaximum(r) ==
    [r EXCEPT !.status = "reconciled",
              !.actual = r.amounts,
              !.settlement = [usage_source |-> "reserved_max_uncertain",
                              actual_cost_known |-> FALSE],
              !.finalize_error = "provider_usage_uncertain",
              !.cached = TRUE,
              !.secret = FALSE,
              !.consumed = TRUE]

\* MUTANT of chargeUncertainReservation: the lease is left open.
chargeKeepsLease(s, k, t) ==
    LET r == s.reservations[k] IN
    [s EXCEPT !.reserved = Minus(@, r.amounts),
              !.used = Plus(@, r.amounts),
              !.reservations[k] = ChargedAtMaximum(r),
              !.frozen = TRUE,
              !.audit = @ \cup {[kind |-> "uncertain_provider_charge", run |-> r.lease_id]}]

chargeUncertainReservation(s, k, t) ==
    LET r == s.reservations[k] IN
    [s EXCEPT !.reserved = Minus(@, r.amounts),
              !.used = Plus(@, r.amounts),
              !.reservations[k] = ChargedAtMaximum(r),
              !.leases = CloseLeases(@, {r.lease_id}, t),
              !.frozen = TRUE,
              !.audit = @ \cup {[kind |-> "uncertain_provider_charge", run |-> r.lease_id]}]

\* MUTANT of ReleaseReservation: the lease is left open.
ReleaseKeepsLease(s, k, t) ==
    [s EXCEPT !.reserved = Minus(@, s.reservations[k].amounts),
              !.reservations[k].status = "released"]

\* MUTANT of ReleaseReservation: the held amounts are not given back.
ReleaseKeepsHold(s, k, t) ==
    [s EXCEPT !.reservations[k].status = "released",
              !.leases = CloseLeases(@, {s.reservations[k].lease_id}, t)]

\* The pre-provider release shared by cancelPreProviderReservation and releaseBudget.
ReleaseReservation(s, k, t) ==
    LET r == s.reservations[k] IN
    [s EXCEPT !.reserved = Minus(@, r.amounts),
              !.reservations[k].status = "released",
              !.leases = CloseLeases(@, {r.lease_id}, t)]

-----------------------------------------------------------------------------
(* Recovery *)

\* The leases recoverExpired visits and the open reservations they hold.
ExpiredLeases(s, t) == {l \in activeLeases(s) : s.leases[l].expires_at <= t}
ExpiredKeys(s, t) == {k \in Key : /\ HasStatus(s, k, "reserved")
                                  /\ \E l \in ExpiredLeases(s, t) :
                                        s.leases[l].reservation_key = k}

\* Run at the start of every operation.  Expired cancellation tombstones and the
\* quarantine go; a reservation whose lease expired is given back if the provider
\* was never started and charged in full if it was.
recoverExpired(s, t) ==
    LET due == ExpiredKeys(s, t)
        charged == {k \in due : s.reservations[k].started}
        total(K, c) == SumKeys([k \in Key |-> IF k \in K THEN s.reservations[k].amounts[c]
                                                         ELSE 0])
    IN
    [s EXCEPT
       !.tombstones = {x \in @ : x.expires_at > t},
       !.quarantine_until = IF @ # Null /\ @ <= t THEN Null ELSE @,
       !.leases = CloseLeases(@, ExpiredLeases(s, t), t),
       !.reserved = Minus(@, [c \in Counter |-> total(due, c)]),
       !.used = Plus(@, [c \in Counter |-> total(charged, c)]),
       !.reservations =
           [k \in Key |-> IF k \in charged THEN ChargedAtMaximum(s.reservations[k])
                          ELSE IF k \in due THEN [s.reservations[k] EXCEPT !.status = "released"]
                          ELSE s.reservations[k]],
       !.frozen = @ \/ charged # {},
       !.audit = @ \cup {[kind |-> "uncertain_provider_charge",
                          run |-> s.reservations[k].lease_id] : k \in charged}]

-----------------------------------------------------------------------------
(* Owner capabilities *)

\* MUTANT of OwnerMatches: any holder of the key and digest is the owner.
OwnerMatchesAnyone(r, o, d) == r.owner # Null /\ d = r.request_digest

\* reserveOwnerMatches: the stored hash binds the capability to key and digest.
OwnerMatches(r, o, d) == r.owner # Null /\ o = r.owner /\ d = r.request_digest
OwnerRefused(r, o, d) == r.owner # Null /\ ~OwnerMatches(r, o, d)

\* MUTANT of ownerCancellationTombstoneMatches: no tombstone is ever found.
NoTombstoneMatches(s, o, k, d) == FALSE

ownerCancellationTombstoneMatches(s, o, k, d) ==
    \E x \in s.tombstones : x.owner = o /\ x.key = k /\ x.digest = d

\* persistOwnerCancellationTombstone.  When the map is full, or the ledger would
\* outgrow its mutable size, the tombstone is not written and the whole ledger is
\* quarantined for one lease window instead.
WithTombstone(s, o, k, d, t) ==
    IF ownerCancellationTombstoneMatches(s, o, k, d) THEN s
    ELSE [s EXCEPT !.tombstones = @ \cup {[owner |-> o, key |-> k, digest |-> d,
                                           expires_at |-> t + TTL]}]

TombstoneFits(s, o, k, d, t) ==
    \/ ownerCancellationTombstoneMatches(s, o, k, d)
    \/ /\ Cardinality(s.tombstones) < MaxTombstones
       /\ StateUnits(WithTombstone(s, o, k, d, t)) <= MaxMutableUnits

persistOwnerCancellationQuarantine(s, t) ==
    [s EXCEPT !.quarantine_until = IF @ # Null /\ @ > t + TTL THEN @ ELSE t + TTL]

-----------------------------------------------------------------------------
(* Operations.  Each verdict lists the code's early returns in order; s is the *)
(* ledger after recoverExpired.  A verdict that does not change the ledger     *)
(* still commits s.                                                            *)

ensureCreated(s) == [s EXCEPT !.created = TRUE]

Quarantined(s) == s.quarantine_until # Null

\* MUTANT of AtParallelLimit: off by one.
PastParallelLimit(s) == Cardinality(activeLeases(s)) > MaxParallel

AtParallelLimit(s) == Cardinality(activeLeases(s)) >= MaxParallel

ReserveVerdict(s, k, d, o, a) ==
    LET r == s.reservations[k] IN
    IF ownerCancellationTombstoneMatches(s, o, k, d) THEN "reservation_released"
    ELSE IF r # Null /\ r.request_digest # d THEN "idempotency_digest_conflict"
    ELSE IF HasStatus(s, k, "reconciled") THEN "existing"
    ELSE IF HasStatus(s, k, "reserved") /\ Quarantined(s) THEN "budget_frozen"
    ELSE IF HasStatus(s, k, "reserved") /\ OwnerRefused(r, o, d)
         THEN "reservation_owned_by_other_invocation"
    ELSE IF HasStatus(s, k, "reserved") THEN "existing"
    ELSE IF r # Null /\ r.owner # Null /\ o = Null THEN "reserve_owner_capability_invalid"
    ELSE IF r # Null /\ OwnerMatches(r, o, d) THEN "reservation_released"
    ELSE IF Quarantined(s) \/ s.frozen THEN "budget_frozen"
    ELSE IF insufficient(s, a) THEN "budget_exhausted"
    ELSE IF AtParallelLimit(s) THEN "budget_exhausted"
    ELSE "fresh"

\* A fresh reservation and its lease; a released one under the same key is replaced.
AdmitReservation(s, k, d, o, a, l, t) ==
    [s EXCEPT
       !.leases[l] = [reservation_key |-> k, acquired_at |-> t, expires_at |-> t + TTL,
                      released_at |-> Null],
       !.reservations[k] = [request_digest |-> d, owner |-> o, lease_id |-> l,
                            amounts |-> a, actual |-> Null, status |-> "reserved",
                            started |-> FALSE, consumed |-> FALSE, secret |-> FALSE,
                            hash |-> Null, settlement |-> Null, finalize_error |-> Null,
                            cached |-> FALSE],
       !.reserved = Plus(@, a)]

reserveBudget(s, k, d, o, a, l, t) ==
    IF ReserveVerdict(s, k, d, o, a) = "fresh"
    THEN AdmitReservation(ensureCreated(s), k, d, o, a, l, t)
    ELSE ensureCreated(s)

\* MUTANT of FrozenForStart: a frozen ledger still starts the provider.
StartsWhenFrozen(s, r) == FALSE

\* A run that was started before the freeze may still repeat its mark.
FrozenForStart(s, r) == s.frozen /\ ~r.started

\* seen: the run found under the key before the transaction, which the settlement
\* secret was minted and hashed for (Null: none, or one that was started).
MarkVerdict(s, k, d, o, l, seen) ==
    LET r == s.reservations[k] IN
    IF r = Null THEN "reservation_not_found"
    ELSE IF r.status # "reserved" THEN "reservation_closed"
    ELSE IF FrozenForStart(s, r) THEN "budget_frozen"
    ELSE IF r.request_digest # d THEN "request_digest_mismatch"
    ELSE IF r.lease_id # l THEN "lease_mismatch"
    ELSE IF OwnerRefused(r, o, d) THEN "reserve_owner_capability_invalid"
    ELSE IF ~IsActive(s, l) \/ s.leases[l].reservation_key # k THEN "lease_not_active"
    ELSE IF r.started THEN "replay"
    ELSE IF seen # r.lease_id THEN "reservation_changed_retry"
    ELSE "started"

\* MUTANT of markProviderStarted: the secret is minted, the marker is not stored.
markWithoutMarker(s, k, d, o, l, seen) ==
    IF MarkVerdict(s, k, d, o, l, seen) = "started"
    THEN [s EXCEPT !.reservations[k].consumed = FALSE,
                   !.reservations[k].secret = TRUE,
                   !.reservations[k].hash = seen]
    ELSE s

\* MUTANT of markProviderStarted: the run read before the transaction is not compared
\* with the one the transaction finds.
markTrustsRead(s, k, d, o, l, seen) ==
    IF MarkVerdict(s, k, d, o, l, s.reservations[k].lease_id) = "started"
    THEN [s EXCEPT !.reservations[k].started = TRUE,
                   !.reservations[k].consumed = FALSE,
                   !.reservations[k].secret = TRUE,
                   !.reservations[k].hash = seen]
    ELSE s

markProviderStarted(s, k, d, o, l, seen) ==
    IF MarkVerdict(s, k, d, o, l, seen) = "started"
    THEN [s EXCEPT !.reservations[k].started = TRUE,
                   !.reservations[k].consumed = FALSE,
                   !.reservations[k].secret = TRUE,
                   !.reservations[k].hash = seen]
    ELSE s

\* verifySettlementAuthority: the digest and lease id of this run, and a settlement
\* secret whose hash over this run is the stored one (l = Null: none that match).
SettlementAuthority(r, d, l) == r.request_digest = d /\ r.lease_id = l /\ r.hash = l

\* The checks settleUncertainBudget and finalizeBudget share.
SettleVerdict(s, k, d, o, l) ==
    LET r == s.reservations[k] IN
    IF r = Null THEN "reservation_not_found"
    ELSE IF OwnerRefused(r, o, d) THEN "reserve_owner_capability_invalid"
    ELSE IF r.status = "reconciled" /\ SettlementAuthority(r, d, l) THEN "replay"
    ELSE IF r.status = "released" THEN "reservation_released"
    ELSE IF r.status = "reserved" /\ ~r.started THEN "provider_not_started"
    ELSE IF ~SettlementAuthority(r, d, l) THEN "settlement_authority_invalid"
    ELSE IF r.consumed THEN "settlement_capability_consumed"
    ELSE "settle"

settleUncertainBudget(s, k, d, o, l, t) ==
    LET v == SettleVerdict(s, k, d, o, l) IN
    IF v = "settle" THEN chargeUncertainReservation(s, k, t)
    ELSE IF v = "replay" THEN [s EXCEPT !.reservations[k].secret = FALSE]
    ELSE s

\* deriveExactSettlement and the fields finalizeBudget writes with it.
ExactlySettled(r, actual, costKnown, hasResult) ==
    [r EXCEPT !.status = "reconciled",
              !.actual = actual,
              !.settlement = [usage_source |-> IF costKnown THEN "provider"
                                               ELSE "provider_tokens_estimated_cost",
                              actual_cost_known |-> costKnown],
              !.finalize_error = IF exceedsReserved(r.amounts, actual)
                                 THEN "actual_exceeds_reserved" ELSE Null,
              !.cached = hasResult,
              !.consumed = TRUE,
              !.secret = FALSE]

\* The estimate is released in full, the billed usage is recorded unclipped, and an
\* overage freezes the ledger.
ReconcileExactly(s, k, actual, costKnown, hasResult, t) ==
    LET r == s.reservations[k]
        over == exceedsReserved(r.amounts, actual)
    IN
    [s EXCEPT
       !.reserved = Minus(@, r.amounts),
       !.used = Plus(@, actual),
       !.reservations[k] = ExactlySettled(r, actual, costKnown, hasResult),
       !.leases = CloseLeases(@, {r.lease_id}, t),
       !.frozen = @ \/ over,
       !.audit = @ \cup (IF over THEN {[kind |-> "actual_exceeds_reserved", run |-> r.lease_id]}
                         ELSE {})]

\* What a caller reports with finalizeExact.  usage = Null: parseActualUsage refuses
\* it.  result: the terminal result, which canonicalizeCachedResult may reject.
Report == [usage : Usage \cup {Null}, costKnown : BOOLEAN,
           result : {"none", "canonical", "rejected"}]

\* MUTANT of ReplayedAnswer: a replay is always a success.
ReplayedAsOk(r) == "ok"

\* A replay repeats the stored error.
ReplayedAnswer(r) == IF r.finalize_error = Null THEN "ok" ELSE r.finalize_error

\* The answer of finalizeBudget.
FinalizeVerdict(s, k, d, o, l, report) ==
    LET v == SettleVerdict(s, k, d, o, l) IN
    IF v = "replay" THEN ReplayedAnswer(s.reservations[k])
    ELSE IF v # "settle" THEN v
    ELSE IF report.usage = Null THEN "provider_usage_invalid"
    ELSE IF report.result = "rejected" THEN "cached_result_invalid"
    ELSE IF exceedsReserved(s.reservations[k].amounts, report.usage)
         THEN "actual_exceeds_reserved"
    ELSE "ok"

finalizeBudget(s, k, d, o, l, report, t) ==
    LET v == SettleVerdict(s, k, d, o, l) IN
    IF v = "replay" THEN [s EXCEPT !.reservations[k].secret = FALSE]
    ELSE IF v # "settle" THEN s
    ELSE IF report.usage = Null THEN chargeUncertainReservation(s, k, t)
    ELSE IF report.result = "rejected" THEN s
    ELSE ReconcileExactly(s, k, report.usage, report.costKnown, report.result = "canonical", t)

heartbeatLease(s, l, t) ==
    IF IsActive(s, l) THEN [s EXCEPT !.leases[l].expires_at = t + TTL] ELSE s

PaperVerdict(s, k, d, o, l) ==
    LET r == s.reservations[k] IN
    IF r = Null THEN "reservation_not_found"
    ELSE IF ~OwnerMatches(r, o, d) THEN "reserve_owner_capability_invalid"
    ELSE IF r.lease_id # l THEN "lease_mismatch"
    ELSE IF r.started THEN "reservation_not_cancellable"
    ELSE IF r.status = "reconciled" THEN "replay"
    ELSE IF r.status = "released" THEN "reservation_released"
    ELSE IF \E c \in ProviderCounter : r.amounts[c] # 0 THEN "caller_settlement_rejected"
    ELSE "settle"

\* A paper run calls no provider: it is settled at its own estimate, with a zero
\* actual cost that is recorded as known.
PaperUsage(r) == [c \in Counter |-> IF c \in ProviderCounter THEN 0 ELSE r.amounts[c]]

PaperSettled(r) ==
    [r EXCEPT !.status = "reconciled",
              !.actual = PaperUsage(r),
              !.settlement = [usage_source |-> "legacy_unattributed",
                              actual_cost_known |-> TRUE],
              !.finalize_error = Null]

SettlePaper(s, k, t) ==
    LET r == s.reservations[k] IN
    [s EXCEPT !.reserved = Minus(@, r.amounts),
              !.used = Plus(@, PaperUsage(r)),
              !.reservations[k] = PaperSettled(r),
              !.leases = CloseLeases(@, {r.lease_id}, t)]

finalizeOwnedPaperReservation(s, k, d, o, l, t) ==
    IF PaperVerdict(s, k, d, o, l) = "settle" THEN SettlePaper(s, k, t) ELSE s

CancelVerdict(s, k, d, o, t) ==
    LET r == s.reservations[k] IN
    IF r # Null /\ r.request_digest # d THEN "request_digest_mismatch"
    ELSE IF r # Null /\ ~OwnerMatches(r, o, d) THEN "reserve_owner_capability_invalid"
    ELSE IF r # Null /\ (r.started \/ r.status = "reconciled")
         THEN "reservation_not_cancellable"
    ELSE IF ~TombstoneFits(s, o, k, d, t) THEN "owner_cancellation_tombstone_capacity_exhausted"
    ELSE IF HasStatus(s, k, "reserved") THEN "cancelled"
    ELSE "tombstoned"

cancelPreProviderReservation(s, k, d, o, t) ==
    LET v == CancelVerdict(s, k, d, o, t) IN
    IF v = "owner_cancellation_tombstone_capacity_exhausted"
    THEN persistOwnerCancellationQuarantine(s, t)
    ELSE IF v = "cancelled" THEN ReleaseReservation(WithTombstone(s, o, k, d, t), k, t)
    ELSE IF v = "tombstoned" THEN WithTombstone(s, o, k, d, t)
    ELSE s

\* releaseBudget names a reservation by key, by lease, or by both (which must agree);
\* an owner-bound reservation is never released this way.
Releasable(s, k, l) ==
    /\ s.reservations[k] # Null
    /\ s.reservations[k].lease_id = l
    /\ s.reservations[k].owner = Null

\* MUTANT of releaseBudget: a settled reservation is closed again.
releaseAgain(s, k, l, t) ==
    IF ~Releasable(s, k, l) THEN s
    ELSE IF s.reservations[k].started THEN chargeUncertainReservation(s, k, t)
    ELSE ReleaseReservation(s, k, t)

releaseBudget(s, k, l, t) ==
    IF ~Releasable(s, k, l) THEN s
    ELSE IF ~HasStatus(s, k, "reserved") THEN [s EXCEPT !.leases = CloseLeases(@, {l}, t)]
    ELSE IF s.reservations[k].started THEN chargeUncertainReservation(s, k, t)
    ELSE ReleaseReservation(s, k, t)

-----------------------------------------------------------------------------
(* Actions.  runAtomic commits the ledger and its alarm together; an operation *)
(* that cannot load or cannot save throws and changes nothing.                 *)

Commit(s) ==
    /\ Loads(ledger)
    /\ FitsCommitLimit(s)
    /\ ledger' = s
    /\ alarm' = nextAlarm(s)
    /\ UNCHANGED now

\* The ledger as an operation finds it after its opening recoverExpired.
Opened == recoverExpired(ledger, now)

\* Date.now() is read when the call arrives.  An owned call then awaits the hash of its
\* capability, and calls that arrive meanwhile may commit first with a later reading.
\* It matters where the call names no lease: a cancel may have read the clock before the
\* lease it finds was acquired.
ClockReadings == (IF now > ClockLag THEN now - ClockLag ELSE 0)..now

\* createBudget; reserveBudget without acquire_lease does the same and refuses.
CreateBudget == Commit(ensureCreated(Opened))

\* reserveOwned, and the unowned /reserve (o = Null), which mint l before they know
\* the verdict.  MaxTime bounds a lease that is really acquired.
Reserve(k, d, o, a, l) ==
    /\ ReserveVerdict(Opened, k, d, o, a) = "fresh" =>
           ledger.leases[l] = Null /\ now + TTL <= MaxTime
    /\ Commit(reserveBudget(Opened, k, d, o, a, l, now))

MarkProviderStarted(k, d, o, l, seen) ==
    Commit(markProviderStarted(Opened, k, d, o, l, seen))

SettleUncertain(k, d, o, l) ==
    Commit(settleUncertainBudget(Opened, k, d, o, l, now))

FinalizeExact(k, d, o, l, report) ==
    Commit(finalizeBudget(Opened, k, d, o, l, report, now))

\* Only a call that settles looks at its report: any one stands for the others.
Reports(k, d, o, l) ==
    IF SettleVerdict(Opened, k, d, o, l) = "settle" THEN Report
    ELSE {[usage |-> Null, costKnown |-> FALSE, result |-> "none"]}

FinalizeOwnedPaper(k, d, o, l) ==
    Commit(finalizeOwnedPaperReservation(Opened, k, d, o, l, now))

Heartbeat(l) ==
    /\ now + TTL <= MaxTime
    /\ Commit(heartbeatLease(Opened, l, now))

CancelPreProvider(k, d, o, t) ==
    Commit(cancelPreProviderReservation(recoverExpired(ledger, t), k, d, o, t))

Release(k, l) == Commit(releaseBudget(Opened, k, l, now))

\* The constructor after an eviction, /recover, snapshot and queryOwned.
RecoverExpiredLeases == Commit(Opened)

Alarm == alarm # Null /\ now >= alarm /\ Commit(Opened)

\* Nothing an operation could do is stored: the load or the save throws.
Throw ==
    /\ ~(Loads(ledger) /\ FitsCommitLimit(Opened))
    /\ UNCHANGED vars

Tick ==
    /\ now < MaxTime
    /\ now' = now + 1
    /\ UNCHANGED <<ledger, alarm>>

Init == ledger = emptyLedger /\ alarm = Null /\ now = 0

Next ==
    \/ CreateBudget
    \/ \E k \in Key, d \in Digest, o \in Owner \cup {Null}, a \in ReserveAmounts,
          l \in LeaseId : Reserve(k, d, o, a, l)
    \/ \E k \in Key, d \in Digest, o \in Owner \cup {Null}, l \in LeaseId,
          seen \in LeaseId \cup {Null} : MarkProviderStarted(k, d, o, l, seen)
    \/ \E k \in Key, d \in Digest, o \in Owner \cup {Null}, l \in LeaseId \cup {Null} :
          SettleUncertain(k, d, o, l)
    \/ \E k \in Key, d \in Digest, o \in Owner \cup {Null}, l \in LeaseId \cup {Null} :
          \E report \in Reports(k, d, o, l) : FinalizeExact(k, d, o, l, report)
    \/ \E k \in Key, d \in Digest, o \in Owner, l \in LeaseId : FinalizeOwnedPaper(k, d, o, l)
    \/ \E l \in LeaseId : Heartbeat(l)
    \/ \E k \in Key, d \in Digest, o \in Owner, t \in ClockReadings :
          CancelPreProvider(k, d, o, t)
    \/ \E k \in Key, l \in LeaseId : Release(k, l)
    \/ RecoverExpiredLeases
    \/ Alarm
    \/ Throw
    \/ Tick

Spec == Init /\ [][Next]_vars

-----------------------------------------------------------------------------
(* Properties *)

\* The stored ledger, its alarm and the clock keep their types.
TypeOK ==
    /\ ledger \in LedgerState
    /\ alarm \in Nat \cup {Null}
    /\ now \in 0..MaxTime

\* What the ledger writes it can read again: the stored value passes coerceState, whose
\* failure throws out of every later operation, the recovery alarm and the constructor
\* included.  False: the runs that check it show the two ways it fails.
LedgerLoads == Loads(ledger)

\* The settlement a paper run stores, which requirePersistedSettlement rejects.
PaperStored(s) ==
    \E k \in Key : /\ HasStatus(s, k, "reconciled")
                   /\ s.reservations[k].settlement # Null
                   /\ s.reservations[k].settlement.usage_source = "legacy_unattributed"

\* A lease closed with a reading of the clock older than the one it was acquired with,
\* which requirePersistedLease rejects.
ClosedBeforeAcquired(s) ==
    \E l \in LeaseId : /\ s.leases[l] # Null
                       /\ s.leases[l].released_at # Null
                       /\ s.leases[l].released_at < s.leases[l].acquired_at

\* There is no third way: with late clock readings and paper runs among the calls, a
\* stored value that coerceState rejects (for its counters, life cycles, settlements,
\* leases, tombstones or size) holds a finalized paper run, or a lease that a cancel
\* with an old reading closed before its acquisition.
UnreadableOnlyByPaperOrLateCancel ==
    PaperStored(ledger) \/ ClosedBeforeAcquired(ledger) \/ Loads(ledger)

\* The part of the above that is about the money: the counters are exactly the sums
\* over the reservations, and each reservation is in a legal lifecycle state.
OccupancyClosed == CountersOK(ledger) /\ \A k \in Key : LifecycleOK(ledger, k)

\* Every open lease belongs to the open reservation that names it, so that each of
\* the max_parallel_experiments slots can be given back through a reservation.
LeaseHeld(s, l) ==
    IsActive(s, l) =>
        LET k == s.leases[l].reservation_key IN
        HasStatus(s, k, "reserved") /\ s.reservations[k].lease_id = l

EveryLeaseHeld == \A l \in LeaseId : LeaseHeld(ledger, l)

\* The policy's ceiling on concurrent experiments.
ParallelBound == Cardinality(activeLeases(ledger)) <= MaxParallel

\* The hard budget: spent and reserved together stay within every cap unless a
\* provider reported more than its reservation, which is audited.
SpendWithinCaps ==
    (\A x \in ledger.audit : x.kind # "actual_exceeds_reserved") =>
        \A c \in Counter : ledger.used[c] + ledger.reserved[c] <= Cap[c]

\* A run that was started and not settled still has its unspent settlement secret, hashed
\* over this run and not over another that the minting call had read under the key: its
\* holder can settle it and an exact retry of markProviderStarted recovers it.
StartedRunSettleable ==
    \A k \in Key :
        HasStatus(ledger, k, "reserved") /\ ledger.reservations[k].started =>
            /\ ledger.reservations[k].secret /\ ~ledger.reservations[k].consumed
            /\ ledger.reservations[k].hash = ledger.reservations[k].lease_id

\* Cancellation is durable: while its tombstone lasts, the cancelled invocation holds
\* no reservation, whatever delayed reserve arrives.
CancelledOwnerHoldsNothing ==
    \A x \in ledger.tombstones :
        LET r == ledger.reservations[x.key] IN
        HasStatus(ledger, x.key, "reserved") =>
            ~(r.owner = x.owner /\ r.request_digest = x.digest)

\* A settled run is never charged again, replaced or reopened, and spending is never
\* given back, whatever retries, releases or expiries follow.
SettledOnce ==
    [][ /\ \A c \in Counter : ledger'.used[c] >= ledger.used[c]
        /\ \A k \in Key :
             HasStatus(ledger, k, "reconciled") =>
                /\ HasStatus(ledger', k, "reconciled")
                /\ ledger'.reservations[k].lease_id = ledger.reservations[k].lease_id
                /\ ledger'.reservations[k].actual = ledger.reservations[k].actual
                /\ ledger'.reservations[k].settlement = ledger.reservations[k].settlement
      ]_vars

\* A run whose provider was started is eventually settled, with no caller's help, as long
\* as the stored ledger can be loaded (an alarm that throws settles nothing).
StartedIsSettled ==
    \A k \in Key :
        (HasStatus(ledger, k, "reserved") /\ ledger.reservations[k].started)
            ~> (HasStatus(ledger, k, "reconciled") \/ ~Loads(ledger))

\* The stage of a run, read off the ledger.  A released reservation that was replaced
\* under its key leaves only its closed lease behind.
RunStage(l) ==
    IF ledger.leases[l] = Null THEN "none"
    ELSE LET r == ledger.reservations[ledger.leases[l].reservation_key] IN
         IF r.lease_id # l THEN "released"
         ELSE IF r.status = "released" THEN "released"
         ELSE IF r.status = "reconciled" THEN "settled"
         ELSE IF r.started THEN "started" ELSE "held"

Lifecycle == INSTANCE RunLifecycle
    WITH Run <- LeaseId, Slots <- MaxParallel,
         run <- [l \in LeaseId |-> RunStage(l)], closed <- ledger.frozen

\* The ledger implements the life of a run: admitted once within the parallel limit,
\* started at most once and never on a frozen ledger, settled once if it was started.
ImplementsLifecycle == Lifecycle!Spec
=============================================================================
