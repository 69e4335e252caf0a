----------------------------- MODULE JsdaCutover -----------------------------
(***************************************************************************)
(* The JSDA v3 cutover operator (scripts/activate_jsda_v3_cutover.py) over *)
(* the shared D1 mutation lease: stop the Cron, drain, pause the Queue,    *)
(* migrate under the lease, deploy, activate, restore Cron and Queue.  It  *)
(* is one command line run by one operator; every step of it is an action, *)
(* and between any two the process may raise or be killed (Exit) and be    *)
(* started again with --activate, --resume or --prepare-staging-schema.    *)
(*                                                                         *)
(* A guard of the code that fails raises, which is Exit (or Raise, where   *)
(* the code cleans up), so an action states only the branch that goes on.  *)
(* The JSDA Worker, its Queue and a Wrangler child that outlives the       *)
(* operator are the environment.                                           *)
(***************************************************************************)
EXTENDS MutationLease, FiniteSets

CONSTANTS Env,           \* environments operated on: "staging", "production"
          IncidentSha,   \* the one source commit --repair-staging-schema-incident accepts
          Migrations,    \* length of the canonical migration chain
          MaxReceipt     \* bound: receipts created

VARIABLES
    head,       \* the clean origin/main commit _source_sha returns
    found,      \* history: the Cron and Queue state each environment started with
    legacy,     \* environments with an unresolved restore intent of the retired drill
    lease,      \* quant_ingest_mutation_lease of each environment
    applied,    \* how many of the canonical migrations each D1 has
    control,    \* jsda_v3_cutover_control: "absent", "bridge" or the activated commit
    surface,    \* live Cron and Queue delivery of the JSDA Worker
    work,       \* the JSDA job of each environment: "none", "queued" or "running"
    version,    \* source tag of the deployed Worker
    flight,     \* owner of the Wrangler migration process that is running, if any
    intent,     \* local control-intent file per environment and commit
    receipt,    \* local receipts, in creation order
    runPhase,   \* jsda_v3_cutover_run.phase of each receipt ("none": no row)
    minted,     \* owner tokens minted so far
    cli         \* the operator's running command

vars == <<head, found, legacy, lease, applied, control, surface, work, version, flight,
          intent, receipt, runPhase, minted, cli>>

remote == <<lease, applied, control, surface, work, version, flight, runPhase>>
files == <<intent, receipt, minted>>
world == <<head, found, legacy>>

ASSUME CutoverAssumption ==
    /\ Env \subseteq {"staging", "production"}
    /\ IncidentSha \in Sha
    /\ Sha \cap {NoSha, "absent", "bridge", "unattested", "older"} = {}  \* 40 hex digits
    /\ Migrations \in Nat \ {0} /\ MaxReceipt \in Nat /\ MaxOwner \in Nat

Surface == [cron : {"on", "off"}, paused : BOOLEAN]
Tags == Sha \cup {"unattested", "older"}
Intent == [owner : Owner, surface : Surface, version : Tags]
NoIntent == [owner |-> NoOwner]
Receipt == [env : Env, sha : Sha, owner : Owner, surface : Surface]
NoReceipt == [owner |-> NoOwner]
ReceiptId == 1..MaxReceipt
RunPhases == {"none", "queue_paused", "bridge_established", "deployed", "v3_active", "activated"}

Idle == [op |-> "none", pc |-> "idle", env |-> "staging", sha |-> NoSha, owner |-> NoOwner,
         rid |-> 0, base |-> [cron |-> "off", paused |-> FALSE],
         owned |-> FALSE, held |-> FALSE, skip |-> FALSE, paused |-> FALSE,
         failed |-> FALSE, clean |-> TRUE]

Schema == {"prepare", "repair"}      \* the two commands that clean up when they raise
TryPcs == {"own", "stop", "drain1", "drain2", "pause", "quiesce", "bookmark", "bootstrap",
           "acquire", "fence0", "fence1", "refence", "spawn", "settle", "exact"}
Pcs == TryPcs \cup {"idle", "intent", "lease", "apply", "unsettle", "start", "loop", "deployed",
        "activate", "cron", "finish", "unintent", "r_queue", "r_cron", "r_release", "r_intent"}

TypeOK ==
    /\ head \in Sha
    /\ found \in [Env -> Surface]
    /\ legacy \in SUBSET Env
    /\ lease \in [Env -> Lease]
    /\ applied \in [Env -> 0..Migrations]
    /\ control \in [Env -> {"absent", "bridge"} \cup Sha]
    /\ surface \in [Env -> Surface]
    /\ work \in [Env -> {"none", "queued", "running"}]
    /\ version \in [Env -> Tags]
    /\ flight \in [Env -> Owner \cup {NoOwner}]
    /\ intent \in [Env -> [Sha -> Intent \cup {NoIntent}]]
    /\ receipt \in [ReceiptId -> Receipt \cup {NoReceipt}]
    /\ runPhase \in [ReceiptId -> RunPhases]
    /\ minted \in 0..MaxOwner
    /\ cli.op \in {"none", "activate", "resume"} \cup Schema
    /\ cli.pc \in Pcs
    /\ cli.env \in Env \cup {"staging"}

-----------------------------------------------------------------------------
(* What _observe reports, and the checks made on it.                       *)

Pending(e) == applied[e] < Migrations

\* _selected: without allow_unattested_tag the deployed version must carry a source tag.
Attested(e) == version[e] # "unattested"

\* _require_drained: no Queue backlog and no open job, and after the migration the
\* whole canonical chain.
Drained(e, after) == work[e] = "none" /\ (after => ~Pending(e))

\* _require_staging_admission
StagingAdmits(sha) ==
    /\ \E r \in ReceiptId : /\ receipt[r] # NoReceipt
                            /\ receipt[r].env = "staging" /\ receipt[r].sha = sha
                            /\ runPhase[r] = "activated"
    /\ control["staging"] = sha
    /\ Drained("staging", TRUE)
    /\ version["staging"] = sha
    /\ surface["staging"] = [cron |-> "off", paused |-> FALSE]

\* _require_frozen_incident_schema and _require_frozen_incident_jsda (FrozenApplied is
\* the prefix of the chain the failed preparation left behind).
FrozenApplied == 0

FrozenSchema(e) ==
    /\ applied[e] = FrozenApplied
    /\ \A r \in ReceiptId : receipt[r] # NoReceipt /\ receipt[r].env = e => runPhase[r] = "none"

FrozenJsda(e, pausedSet) ==
    /\ version[e] = "unattested"
    /\ surface[e].cron = "off" /\ surface[e].paused \in pausedSet
    /\ work[e] # "queued"

\* _receipt_for_intent: the receipts written under one intent.
ReceiptsOf(e, o) == {r \in ReceiptId : /\ receipt[r] # NoReceipt
                                       /\ receipt[r].env = e /\ receipt[r].owner = o}

NextReceipt == Cardinality({r \in ReceiptId : receipt[r] # NoReceipt}) + 1

-----------------------------------------------------------------------------
(* The deployed system before the operator touches it.                     *)

Init ==
    /\ head = IncidentSha
    /\ legacy \in SUBSET Env
    /\ lease = [e \in Env |-> AbsentLease]
    /\ applied \in [Env -> {0, Migrations}]
    /\ control = [e \in Env |-> IF applied[e] = 0 THEN "absent" ELSE "bridge"]
    /\ surface \in [Env -> Surface]
    /\ found = surface
    /\ work = [e \in Env |-> "none"]
    /\ version \in [Env -> {"unattested", "older"}]
    /\ flight = [e \in Env |-> NoOwner]
    /\ intent = [e \in Env |-> [c \in Sha |-> NoIntent]]
    /\ receipt = [r \in ReceiptId |-> NoReceipt]
    /\ runPhase = [r \in ReceiptId |-> "none"]
    /\ minted = 0
    /\ cli = Idle

Here == cli.env
At(pc) == cli.pc = pc
Goto(pc) == cli' = [cli EXCEPT !.pc = pc]
SetPaused(b) == surface' = [surface EXCEPT ![Here].paused = b]
SetCron(c) == surface' = [surface EXCEPT ![Here].cron = c]
SetLease(l) == lease' = [lease EXCEPT ![Here] = l]

-----------------------------------------------------------------------------
(* Starting a command: the baseline observation, then the control intent.  *)

Launch(op, e, sha) ==
    /\ cli = Idle /\ e \notin legacy
    /\ cli' = [Idle EXCEPT !.op = op, !.pc = "intent", !.env = e, !.sha = sha, !.base = surface[e]]
    /\ UNCHANGED <<world, remote, files>>

Activate(e) ==
    /\ Attested(e)
    /\ e = "production" => "staging" \in Env /\ StagingAdmits(head)
    /\ Launch("activate", e, head)

Prepare(e) ==
    /\ e = "staging" /\ control[e] \notin Sha
    /\ Launch("prepare", e, head)

Repair(e) ==
    /\ e = "staging" /\ control[e] \notin Sha
    /\ head # IncidentSha /\ intent[e][IncidentSha] # NoIntent
    /\ Launch("repair", e, IncidentSha)

\* Mutant: the intent is rewritten from whatever the baseline is now.
LoadIntentAnew ==
    LET i == [owner |-> minted + 1, surface |-> cli.base, version |-> version[Here]]
    IN /\ At("intent") /\ i.owner \in Owner
       /\ intent' = [intent EXCEPT ![Here][cli.sha] = i]
       /\ minted' = minted + 1
       /\ cli' = [cli EXCEPT !.owner = i.owner, !.pc = IF cli.op = "activate" THEN "stop" ELSE "lease"]
       /\ UNCHANGED <<world, remote, receipt>>

\* _control_intent: load the intent of this commit, or create it from the baseline.
\* _execute_staging_schema_prep then refuses an intent the live surface contradicts.
LoadIntent ==
    LET old == intent[Here][cli.sha]
        i == IF old = NoIntent
             THEN [owner |-> minted + 1, surface |-> cli.base, version |-> version[Here]]
             ELSE old
    IN /\ At("intent") /\ i.owner \in Owner
       /\ intent' = [intent EXCEPT ![Here][cli.sha] = i]
       /\ minted' = IF old = NoIntent THEN minted + 1 ELSE minted
       /\ cli.op \in Schema => /\ i.surface.cron = cli.base.cron /\ i.version = version[Here]
                               /\ cli.op = "prepare" => i.surface.paused = cli.base.paused
       /\ cli' = [cli EXCEPT !.owner = i.owner, !.pc = IF cli.op = "activate" THEN "stop" ELSE "lease"]
       /\ UNCHANGED <<world, remote, receipt>>

\* The lease observation of --prepare-staging-schema: nobody else's, and a verifying
\* lease of one's own means the migrations are done.
PrepareLease ==
    LET l == lease[Here]
        mine == l.owner = cli.owner /\ l.phase \in {"acquired", "verifying"} /\ l.spawned = 0
        rs == ReceiptsOf(Here, cli.owner)
    IN /\ At("lease") /\ cli.op = "prepare" /\ Cardinality(rs) <= 1
       /\ l.phase \in {"absent", "vacant"} \/ mine
       /\ mine /\ l.phase = "verifying" => ~Pending(Here) /\ rs # {}
       /\ cli' = [cli EXCEPT !.owned = mine, !.skip = mine /\ l.phase = "verifying",
                             !.rid = IF rs = {} THEN 0 ELSE CHOOSE r \in rs : TRUE,
                             !.pc = IF mine THEN "own" ELSE "stop"]
       /\ UNCHANGED <<world, remote, files>>

\* The lease observation of the incident repair: verifying and process-free means only
\* the verification is left, recovery_required means the migrations are applied again.
RepairLease ==
    LET l == lease[Here]
        rs == ReceiptsOf(Here, cli.owner)
        finish == l.phase = "verifying" /\ l.spawned = 0
    IN /\ At("lease") /\ cli.op = "repair" /\ Cardinality(rs) = 1
       /\ l.owner = cli.owner
       /\ \/ finish /\ ~Pending(Here) /\ FrozenJsda(Here, BOOLEAN)
          \/ /\ l.phase = "recovery_required" /\ l.spawned = 1
             /\ FrozenJsda(Here, {FALSE}) /\ FrozenSchema(Here)
       /\ cli' = [cli EXCEPT !.skip = finish, !.rid = CHOOSE r \in rs : TRUE,
                             !.pc = IF finish THEN "exact" ELSE "stop"]
       /\ UNCHANGED <<world, remote, files>>

\* resume_owned_mutation_lease
Own ==
    /\ At("own") /\ ResumeAccepts(lease[Here], cli.owner, cli.sha)
    /\ SetLease(Transitioned(lease[Here], lease[Here].phase, 0))
    /\ cli' = [cli EXCEPT !.held = TRUE, !.pc = IF cli.skip THEN "exact" ELSE "stop"]
    /\ UNCHANGED <<world, files, applied, control, surface, work, version, flight, runPhase>>

-----------------------------------------------------------------------------
(* Quiescing the JSDA Worker.                                              *)

StopCron ==
    /\ At("stop")
    /\ LET prior == IF cli.op = "activate" THEN cli.base ELSE intent[Here][cli.sha].surface
       IN IF prior.cron = "on" THEN SetCron("off") ELSE UNCHANGED surface
    /\ Goto("drain1")
    /\ UNCHANGED <<world, files, lease, applied, control, work, version, flight, runPhase>>

ObserveDrained(pc, next) ==
    /\ At(pc) /\ Drained(Here, FALSE)
    /\ cli.op = "activate" => Attested(Here)
    /\ Goto(next)
    /\ UNCHANGED <<world, remote, files>>

PauseQueue ==
    /\ At("pause") /\ SetPaused(TRUE)
    /\ cli' = [cli EXCEPT !.paused = TRUE, !.pc = "quiesce"]
    /\ UNCHANGED <<world, files, lease, applied, control, work, version, flight, runPhase>>

Quiesce ==
    /\ At("quiesce") /\ Drained(Here, FALSE)
    /\ surface[Here] = [cron |-> "off", paused |-> TRUE]
    /\ cli.op = "repair" => FrozenJsda(Here, {TRUE}) /\ FrozenSchema(Here)
    /\ Goto("bookmark")
    /\ UNCHANGED <<world, remote, files>>

\* Where a schema preparation goes once it holds the lease.
ApplyPc == IF ~Pending(Here) THEN "exact" ELSE IF cli.op = "repair" THEN "refence" ELSE "fence0"

\* Mutant: the receipt records the baseline of this attempt, not the intent.
SaveReceiptOfBaseline ==
    /\ At("bookmark") /\ NextReceipt \in ReceiptId
    /\ receipt' = [receipt EXCEPT ![NextReceipt] = [env |-> Here, sha |-> cli.sha,
                     owner |-> cli.owner, surface |-> cli.base]]
    /\ cli' = [cli EXCEPT !.rid = NextReceipt, !.pc = "bootstrap"]
    /\ UNCHANGED <<world, remote, intent, minted>>

\* time_travel_bookmark, _build_receipt and _save_receipt.  --activate writes a new
\* receipt every time; the preparation keeps the one its intent already has.
SaveReceipt ==
    LET i == intent[Here][cli.sha]
        new == cli.op = "activate" \/ cli.rid = 0
    IN /\ At("bookmark")
       /\ new => NextReceipt \in ReceiptId
       /\ receipt' = IF new
                     THEN [receipt EXCEPT ![NextReceipt] = [env |-> Here, sha |-> cli.sha,
                              owner |-> cli.owner, surface |-> i.surface]]
                     ELSE receipt
       /\ cli' = [cli EXCEPT !.rid = IF new THEN NextReceipt ELSE @,
                             !.pc = IF cli.op = "repair" \/ cli.owned THEN ApplyPc ELSE "bootstrap"]
       /\ UNCHANGED <<world, remote, intent, minted>>

Bootstrap ==
    /\ At("bootstrap")
    /\ SetLease(Bootstrapped(lease[Here]))
    /\ BootstrapAccepts(lease'[Here], cli.owner)
    /\ Goto("acquire")
    /\ UNCHANGED <<world, files, applied, control, surface, work, version, flight, runPhase>>

Acquire ==
    /\ At("acquire") /\ AcquireAccepts(lease[Here], cli.owner, cli.sha)
    /\ SetLease(Acquired(lease[Here], cli.owner, cli.sha))
    /\ cli' = [cli EXCEPT !.held = TRUE, !.pc = IF cli.op = "activate" THEN "start" ELSE ApplyPc]
    /\ UNCHANGED <<world, files, applied, control, surface, work, version, flight, runPhase>>

\* _start
StartRun ==
    /\ At("start")
    /\ runPhase' = [runPhase EXCEPT ![cli.rid] = IF @ = "none" THEN "queue_paused" ELSE @]
    /\ Goto("loop")
    /\ UNCHANGED <<world, files, lease, applied, control, surface, work, version, flight>>

-----------------------------------------------------------------------------
(* The fenced migration.  remote_spawned is set before the process starts. *)

Fence(pc, from, spawned, live, next) ==
    /\ At(pc) /\ TransitionAccepts(lease[Here], cli.owner, from, live)
    /\ SetLease(Transitioned(lease[Here], "migrating", spawned))
    /\ Goto(next)
    /\ UNCHANGED <<world, files, applied, control, surface, work, version, flight, runPhase>>

\* Mutant: the second fence forgets remote_spawned.
FenceUnspawned == Fence("fence1", {"migrating"}, 0, TRUE, "spawn")

\* _apply_remote_migrations
FenceMigrating == Fence("fence0", {"acquired"}, 0, TRUE, "fence1")
FenceSpawned == Fence("fence1", {"migrating"}, 1, TRUE, "spawn")

\* _apply_incident_recovery_migrations
FenceRecovery ==
    /\ lease[Here].spawned = 1 /\ lease[Here].sha = cli.sha
    /\ Fence("refence", {"recovery_required"}, 1, FALSE, "spawn")

SpawnApply ==
    /\ At("spawn")
    /\ cli.op = "repair" => FrozenSchema(Here)
    /\ flight' = [flight EXCEPT ![Here] = cli.owner]
    /\ Goto("apply")
    /\ UNCHANGED <<world, files, lease, applied, control, surface, work, version, runPhase>>

\* Wrangler applies the next migration of the chain; the first creates the control row.
ApplyOne(e) ==
    /\ flight[e] # NoOwner /\ Pending(e)
    /\ applied' = [applied EXCEPT ![e] = @ + 1]
    /\ control' = [control EXCEPT ![e] = IF @ = "absent" THEN "bridge" ELSE @]
    /\ UNCHANGED <<world, files, lease, surface, work, version, flight, runPhase, cli>>

\* Mutant: a child that timed out is not killed.
ApplyReturnsUnkilled ==
    /\ At("apply")
    /\ \/ /\ ~Pending(Here) /\ Goto("settle")
          /\ flight' = [flight EXCEPT ![Here] = NoOwner]
       \/ Goto("unsettle") /\ UNCHANGED flight
    /\ UNCHANGED <<world, files, lease, applied, control, surface, work, version, runPhase>>

\* _run_apply_process returns zero, or fails or times out and kills its child.
ApplyReturns ==
    /\ At("apply")
    /\ flight' = [flight EXCEPT ![Here] = NoOwner]
    /\ \/ ~Pending(Here) /\ Goto("settle")
       \/ Goto("unsettle")
    /\ UNCHANGED <<world, files, lease, applied, control, surface, work, version, runPhase>>

\* The Wrangler child of an operator that was killed goes on, and ends by itself.
DetachedEnds(e) ==
    /\ flight[e] # NoOwner /\ ~(At("apply") /\ Here = e)
    /\ flight' = [flight EXCEPT ![e] = NoOwner]
    /\ UNCHANGED <<world, files, lease, applied, control, surface, work, version, runPhase, cli>>

SettleApplied ==
    /\ At("settle") /\ TransitionAccepts(lease[Here], cli.owner, {"migrating"}, FALSE)
    /\ SetLease(Transitioned(lease[Here], "verifying", 0))
    /\ Goto("exact")
    /\ UNCHANGED <<world, files, applied, control, surface, work, version, flight, runPhase>>

\* Where an exception leaves a command: the preparation restores, the others stop.
Aborted == IF cli.op \in Schema
           THEN [cli EXCEPT !.failed = TRUE,
                            !.pc = IF cli.op = "repair" /\ ~cli.skip /\ ~cli.paused
                                   THEN "r_release" ELSE "r_queue"]
           ELSE Idle

\* A failed apply makes the lease sticky; a failure to do even that is swallowed.
SettleFailed ==
    /\ At("unsettle")
    /\ \/ /\ TransitionAccepts(lease[Here], cli.owner, {"migrating"}, FALSE)
          /\ SetLease(Transitioned(lease[Here], "recovery_required", 1))
       \/ UNCHANGED lease
    /\ cli' = Aborted
    /\ UNCHANGED <<world, files, applied, control, surface, work, version, flight, runPhase>>

-----------------------------------------------------------------------------
(* _continue: one action per phase of the run row.                         *)

MyPhase == runPhase[cli.rid]
MyReceipt == receipt[cli.rid]

Advance(from, to) == /\ MyPhase = from
                     /\ runPhase' = [runPhase EXCEPT ![cli.rid] = to]

\* Every turn of the loop re-reads the row and observes the environment.
LoopAt(phase) == /\ At("loop") /\ MyPhase = phase
                 /\ Attested(Here) /\ head = cli.sha /\ Here \notin legacy

ContinuePaused ==
    LET l == lease[Here] IN
    /\ LoopAt("queue_paused")
    /\ surface[Here] = [cron |-> "off", paused |-> TRUE] /\ Drained(Here, FALSE)
    /\ Revalidates(l, cli.owner, cli.sha, HeldPhases)
    /\ Pending(Here) => l.phase = "acquired" /\ l.spawned = 0
    /\ Goto(IF Pending(Here) THEN "fence0" ELSE "exact")
    /\ UNCHANGED <<world, remote, files>>

ExactBridge ==
    /\ At("exact") /\ cli.op \notin Schema
    /\ Drained(Here, TRUE) /\ Advance("queue_paused", "bridge_established")
    /\ Goto("loop")
    /\ UNCHANGED <<world, files, lease, applied, control, surface, work, version, flight>>

\* wrangler deploy, unless the Worker already carries the tag.  It also installs the
\* schedules of the deployed configuration: wrangler.toml declares the Cron for
\* production, wrangler.staging.toml none.
Deploy ==
    /\ LoopAt("bridge_established")
    /\ version' = [version EXCEPT ![Here] = cli.sha]
    /\ IF Here = "production" /\ version[Here] # cli.sha THEN SetCron("on") ELSE UNCHANGED surface
    /\ Goto("deployed")
    /\ UNCHANGED <<world, files, lease, applied, control, work, flight, runPhase>>

Deployed ==
    /\ At("deployed") /\ version[Here] = cli.sha
    /\ Advance("bridge_established", "deployed")
    /\ Goto("loop")
    /\ UNCHANGED <<world, files, lease, applied, control, surface, work, version, flight>>

ContinueDeployed ==
    /\ LoopAt("deployed") /\ Drained(Here, TRUE)
    /\ Goto("activate")
    /\ UNCHANGED <<world, remote, files>>

\* Mutant: the batch leaves out the control row.
ActivateRunOnly ==
    /\ At("activate") /\ Advance("deployed", "v3_active")
    /\ Goto("loop")
    /\ UNCHANGED <<world, files, lease, applied, control, surface, work, version, flight>>

\* _activate_control: one batch.  The control row only leaves bridge; the run row moves
\* whether or not the control row did, and the counts are read after the commit.
ActivateControl ==
    LET fresh == control[Here] = "bridge" IN
    /\ At("activate")
    /\ control' = [control EXCEPT ![Here] = IF fresh THEN cli.sha ELSE @]
    /\ Advance("deployed", "v3_active")
    /\ cli' = IF fresh THEN [cli EXCEPT !.pc = "loop"] ELSE Idle
    /\ UNCHANGED <<world, files, lease, applied, surface, work, version, flight>>

RestoreQueue ==
    /\ LoopAt("v3_active")
    /\ SetPaused(MyReceipt.surface.paused)
    /\ Goto("cron")
    /\ UNCHANGED <<world, files, lease, applied, control, work, version, flight, runPhase>>

RestoreCron ==
    /\ At("cron")
    /\ SetCron(MyReceipt.surface.cron)
    /\ Goto("finish")
    /\ UNCHANGED <<world, files, lease, applied, control, work, version, flight, runPhase>>

Finish ==
    /\ At("finish") /\ Advance("v3_active", "activated")
    /\ Goto("loop")
    /\ UNCHANGED <<world, files, lease, applied, control, surface, work, version, flight>>

ReleaseActivated ==
    /\ LoopAt("activated")
    /\ IF lease[Here].owner = cli.owner
       THEN ReleaseAccepts(lease[Here], cli.owner) /\ SetLease(VacantLease)
       ELSE UNCHANGED lease
    /\ Goto("unintent")
    /\ UNCHANGED <<world, files, applied, control, surface, work, version, flight, runPhase>>

\* _remove_control_intent
RemoveIntent ==
    /\ cli.pc \in {"unintent", "r_intent"}
    /\ intent[Here][cli.sha].owner \in {cli.owner, NoOwner}
    /\ intent' = [intent EXCEPT ![Here][cli.sha] = NoIntent]
    /\ cli' = Idle
    /\ UNCHANGED <<world, remote, receipt, minted>>

\* resume: the lease must be renewable, or resumable by its own process-free owner.
Resume(r) ==
    LET c == receipt[r]
        l == lease[c.env]
    IN /\ cli = Idle /\ c # NoReceipt /\ c.env \notin legacy
       /\ IF runPhase[r] = "activated" THEN UNCHANGED lease
          ELSE /\ RenewAccepts(l, c.owner, c.sha) \/ ResumeAccepts(l, c.owner, c.sha)
               /\ lease' = [lease EXCEPT ![c.env] = Transitioned(l, l.phase, l.spawned)]
       /\ cli' = [Idle EXCEPT !.op = "resume", !.pc = "loop", !.env = c.env, !.sha = c.sha,
                              !.owner = c.owner, !.rid = r]
       /\ UNCHANGED <<world, files, applied, control, surface, work, version, flight, runPhase>>

-----------------------------------------------------------------------------
(* Verification and clean-up of a schema preparation.                      *)

ExactPrepared ==
    /\ At("exact") /\ cli.op \in Schema
    /\ Drained(Here, TRUE) /\ control[Here] = "bridge"
    /\ cli.op = "repair" => FrozenJsda(Here, IF cli.skip THEN BOOLEAN ELSE {TRUE})
    /\ Goto("r_queue")
    /\ UNCHANGED <<world, remote, files>>

\* _restore_jsda_surface: each half is attempted whatever happened to the other.
RestorePart(pc, next, set) ==
    /\ At(pc)
    /\ \/ set /\ Goto(next)
       \/ UNCHANGED surface /\ cli' = [cli EXCEPT !.clean = FALSE, !.pc = next]
    /\ UNCHANGED <<world, files, lease, applied, control, work, version, flight, runPhase>>

RestoreSurface ==
    \/ RestorePart("r_queue", "r_cron", SetPaused(intent[Here][cli.sha].surface.paused))
    \/ RestorePart("r_cron", "r_release", SetCron(intent[Here][cli.sha].surface.cron))

\* The preparation gives back whatever it acquired; the repair only after it verified
\* the schema and restored the surface.
ReleasePrepared ==
    LET wanted == IF cli.op = "repair" THEN ~cli.failed /\ cli.clean ELSE cli.held
        done == ~cli.failed /\ cli.clean /\ cli.rid # 0
    IN /\ At("r_release")
       /\ \/ /\ wanted => ReleaseAccepts(lease[Here], cli.owner)
             /\ IF wanted THEN SetLease(VacantLease) ELSE UNCHANGED lease
             /\ cli' = IF done THEN [cli EXCEPT !.pc = "r_intent"] ELSE Idle
          \/ wanted /\ UNCHANGED lease /\ cli' = Idle
       /\ UNCHANGED <<world, files, applied, control, surface, work, version, flight, runPhase>>

\* An exception inside the preparation's try block.
Raise ==
    /\ cli.op \in Schema
    /\ \/ cli.pc \in TryPcs \ {"spawn", "settle"} /\ cli' = Aborted
       \/ cli.pc \in {"spawn", "settle"} /\ Goto("unsettle")
    /\ UNCHANGED <<world, remote, files>>

\* The process raises with nothing to clean up, or is killed.
Exit ==
    /\ cli # Idle
    /\ \/ cli' = Idle
       \/ cli.op \notin Schema /\ cli.pc \in {"spawn", "settle"} /\ Goto("unsettle")
    /\ UNCHANGED <<world, remote, files>>

-----------------------------------------------------------------------------
(* The environment.                                                        *)

Merge ==
    /\ \E c \in Sha \ {head} : head = IncidentSha /\ head' = c
    /\ UNCHANGED <<found, legacy, remote, files, cli>>

Expire(e) ==
    /\ lease[e].phase \in HeldPhases /\ ~lease[e].expired
    /\ lease' = [lease EXCEPT ![e].expired = TRUE]
    /\ UNCHANGED <<world, files, applied, control, surface, work, version, flight, runPhase, cli>>

\* A message reaches the main Queue: the Cron, or a manual run that no pause stops.
Enqueue(e) == work[e] = "none" /\ work' = [work EXCEPT ![e] = "queued"]
Deliver(e) == work[e] = "queued" /\ ~surface[e].paused /\ work' = [work EXCEPT ![e] = "running"]
JobEnds(e) == work[e] = "running" /\ work' = [work EXCEPT ![e] = "none"]

Worker(e) ==
    /\ Enqueue(e) \/ Deliver(e) \/ JobEnds(e)
    /\ UNCHANGED <<world, files, lease, applied, control, surface, version, flight, runPhase, cli>>

Step ==
    \/ LoadIntent \/ PrepareLease \/ RepairLease \/ Own \/ StopCron
    \/ ObserveDrained("drain1", "drain2") \/ ObserveDrained("drain2", "pause")
    \/ PauseQueue \/ Quiesce \/ SaveReceipt \/ Bootstrap \/ Acquire \/ StartRun
    \/ FenceMigrating \/ FenceSpawned \/ FenceRecovery \/ SpawnApply
    \/ ApplyReturns \/ SettleApplied \/ SettleFailed
    \/ ContinuePaused \/ ExactBridge \/ Deploy \/ Deployed \/ ContinueDeployed
    \/ ActivateControl \/ RestoreQueue \/ RestoreCron \/ Finish \/ ReleaseActivated
    \/ RemoveIntent \/ ExactPrepared \/ RestoreSurface \/ ReleasePrepared

Next ==
    \/ Step
    \/ \E e \in Env : Activate(e) \/ Prepare(e) \/ Repair(e)
    \/ \E r \in ReceiptId : Resume(r)
    \/ Raise \/ Exit
    \/ \E e \in Env : ApplyOne(e) \/ DetachedEnds(e) \/ Expire(e) \/ Worker(e)
    \/ Merge

Spec == Init /\ [][Next]_vars

-----------------------------------------------------------------------------
(* What the cutover must guarantee.                                        *)

\* The remote_spawned fence: a Wrangler process that may still touch the schema belongs
\* to the owner of a lease nobody can take over or release, even when the operator that
\* started it is gone (apply_ingestion_d1_migrations.py _apply_remote_migrations).
ApplyIsFenced ==
    \A e \in Env : flight[e] # NoOwner /\ Pending(e) =>
        lease[e].owner = flight[e] /\ lease[e].spawned = 1 /\ lease[e].phase = "migrating"

\* No migration lands while the JSDA Cron may fire, the Queue may deliver or a JSDA job
\* runs, whatever was enqueued after the pause and whoever was killed in between.
MigratesQuiesced ==
    [][\A e \in Env : applied'[e] # applied[e] =>
          surface[e] = [cron |-> "off", paused |-> TRUE] /\ work[e] # "running"]_vars

\* The Cron and Queue state the operator found is never lost: while the live surface is
\* another one, a control intent or a receipt on file still records it (_control_intent
\* and _save_receipt are create-only, and an intent goes only after a receipt is kept).
PriorNotLost ==
    \A e \in Env : surface[e] # found[e] =>
        \/ \E c \in Sha : intent[e][c] # NoIntent /\ intent[e][c].surface = found[e]
        \/ \E r \in ReceiptId : /\ receipt[r] # NoReceipt /\ receipt[r].env = e
                               /\ receipt[r].surface = found[e]

\* An intent of an abandoned attempt of another commit is on file.
Abandoned(e, c) == \E d \in Sha \ {c} : intent[e][d] # NoIntent

Activates(r) == runPhase[r] # "activated" /\ runPhase'[r] = "activated"

FirstActivation(r) ==
    Activates(r) /\ \A q \in ReceiptId : runPhase[q] = "activated" => receipt[q].env # receipt[r].env

\* The first run of an environment to activate leaves the Cron and Queue the operator
\* found, however often it was killed, restarted or resumed (_continue, v3_active), unless
\* an intent of an abandoned attempt of another commit is still on file.
RestoresFound ==
    [][\A r \in ReceiptId : FirstActivation(r) =>
          \/ surface[receipt[r].env] = found[receipt[r].env]
          \/ Abandoned(receipt[r].env, receipt[r].sha)]_vars

\* The same for every activation, with no exception: what the runbook promises.
ExactRestore ==
    [][\A r \in ReceiptId :
          Activates(r) => surface[receipt[r].env] = found[receipt[r].env]]_vars

\* While a run row says v3_active or activated, every migration is applied and the
\* control row carries an activated commit, also when two runs of different commits
\* were started, killed and resumed in any order (_activate_control).
ActivationHolds ==
    \A r \in ReceiptId : runPhase[r] \in {"v3_active", "activated"} =>
        control[receipt[r].env] \in Sha /\ ~Pending(receipt[r].env)

==============================================================================
