---------------------------- MODULE MutationLease ----------------------------
(***************************************************************************)
(* The single-row lease quant_ingest_mutation_lease that serialises remote *)
(* D1 migrations (scripts/apply_ingestion_d1_migrations.py).  The row is a *)
(* record; every statement the script sends is an operator that says when  *)
(* its WHERE clause matches and what row it leaves.                        *)
(*                                                                         *)
(* The pair (owner, nonce) is one token, minted with the control intent.   *)
(* environment, database_id and manifest_digest are fixed by the           *)
(* environment whose row it is, so of the lease identity only source_sha   *)
(* is kept.  expires_at is kept as the fact that the clock has passed it.  *)
(***************************************************************************)
EXTENDS Naturals

CONSTANTS Sha,        \* source commits
          NoSha,      \* the empty source_sha of a vacant row
          MaxOwner    \* bound: tokens minted

NoOwner == 0
Owner == 1..MaxOwner

HeldPhases == {"acquired", "migrating", "verifying", "recovery_required"}

\* "absent" is the state before 0023 ran: the table does not exist.
Lease == [phase : HeldPhases \cup {"absent", "vacant"}, owner : Owner \cup {NoOwner},
          sha : Sha \cup {NoSha}, spawned : {0, 1}, expired : BOOLEAN]

AbsentLease == [phase |-> "absent", owner |-> NoOwner, sha |-> NoSha,
                spawned |-> 0, expired |-> TRUE]

VacantLease == [AbsentLease EXCEPT !.phase = "vacant"]

\* bootstrap_mutation_lease_authority: CREATE IF NOT EXISTS and INSERT OR IGNORE,
\* then the row must be vacant or this caller's own process-free acquisition.
Bootstrapped(l) == IF l.phase = "absent" THEN VacantLease ELSE l

BootstrapAccepts(l, o) ==
    \/ l.phase = "vacant"
    \/ l.phase = "acquired" /\ l.spawned = 0 /\ l.owner = o

\* revalidate_mutation_lease
Revalidates(l, o, sha, phases) == l.owner = o /\ l.sha = sha /\ l.phase \in phases

\* acquire_authorized_mutation_lease: the caller's own row is refreshed when it is
\* an expired process-free acquisition and otherwise only revalidated; any other
\* row is taken when it is vacant or an expired process-free acquisition.
Reclaimable(l) == l.phase = "acquired" /\ l.spawned = 0 /\ l.expired

AcquireAccepts(l, o, sha) ==
    IF l.owner = o
    THEN Reclaimable(l) \/ (Revalidates(l, o, sha, HeldPhases) /\ ~l.expired)
    ELSE l.phase = "vacant" \/ Reclaimable(l)

\* Mutant: the acquisition writes a phase the readers do not know.
AcquiredHeld(l, o, sha) ==
    [phase |-> "held", owner |-> o, sha |-> sha, spawned |-> 0, expired |-> FALSE]

Acquired(l, o, sha) ==
    IF l.owner = o
    THEN [l EXCEPT !.expired = FALSE]
    ELSE [phase |-> "acquired", owner |-> o, sha |-> sha, spawned |-> 0, expired |-> FALSE]

\* _transition_mutation_lease: a compare-and-set on owner and phase that also
\* pushes expires_at forward.
TransitionAccepts(l, o, from, live) ==
    /\ l.owner = o
    /\ l.phase \in from
    /\ live => ~l.expired

Transitioned(l, to, spawned) ==
    [l EXCEPT !.phase = to, !.spawned = spawned, !.expired = FALSE]

\* renew_mutation_lease: any held phase, while it has not expired.
RenewAccepts(l, o, sha) == Revalidates(l, o, sha, HeldPhases) /\ ~l.expired

\* resume_owned_mutation_lease: a process-free phase, expired or not.
ResumeAccepts(l, o, sha) ==
    Revalidates(l, o, sha, {"acquired", "verifying"}) /\ l.spawned = 0

\* release_mutation_lease as every caller invokes it (allow_recovery is False).
ReleaseAccepts(l, o) ==
    l.owner = o /\ l.phase \in {"acquired", "verifying"} /\ l.spawned = 0

==============================================================================
