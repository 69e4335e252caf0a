------------------------- MODULE JsdaCutoverProofs -------------------------
(***************************************************************************)
(* The safety of the JSDA cutover for any chain of migrations, any commits *)
(* and any number of intents and receipts.                                 *)
(***************************************************************************)
EXTENDS JsdaCutover, FiniteSetTheorems, TLAPS

Clis ==
  [op : {"none", "activate", "resume"} \cup Schema, pc : Pcs,
   env : Env \cup {"staging"}, sha : Sha \cup {NoSha}, owner : Owner \cup {NoOwner},
   rid : 0..MaxReceipt, base : Surface, owned : BOOLEAN, held : BOOLEAN,
   skip : BOOLEAN, paused : BOOLEAN, failed : BOOLEAN, clean : BOOLEAN]

\* The program points before a run has a receipt, those of _continue, and those
\* of the clean-up of a schema preparation.
QuiescePcs == {"stop", "drain1", "drain2", "pause", "quiesce", "bookmark"}
LoopPcs == {"loop", "fence0", "fence1", "spawn", "apply", "settle", "unsettle", "exact",
            "deployed", "activate", "cron", "finish", "unintent"}
CleanupPcs == {"r_queue", "r_cron", "r_release", "r_intent"}

\* A schema preparation never enters _continue.
SchemaPcs == TryPcs \cup CleanupPcs \cup {"intent", "lease", "apply", "unsettle"}

\* What the running command knows of the files it works from.
CliOK ==
  /\ cli.op = "none" => cli.pc = "idle"
  /\ cli.pc # "idle" => cli.env \in Env /\ cli.sha \in Sha
  /\ cli.pc \notin {"idle", "intent"} => cli.owner \in Owner
  /\ cli.op = "resume" => cli.pc \in LoopPcs
  /\ cli.op \in Schema => cli.pc \in SchemaPcs
  /\ cli.pc \in CleanupPcs => cli.op \in Schema
  /\ cli.op \in {"activate"} \cup Schema /\ cli.pc # "intent" =>
       /\ intent[cli.env][cli.sha] # NoIntent
       /\ intent[cli.env][cli.sha].owner = cli.owner
  /\ cli.rid # 0 => /\ receipt[cli.rid] # NoReceipt
                    /\ receipt[cli.rid].env = cli.env
                    /\ receipt[cli.rid].owner = cli.owner
  /\ cli.op = "resume" => cli.rid # 0
  /\ cli.op = "activate" /\ cli.pc \notin {"intent"} \cup QuiescePcs => cli.rid # 0
  /\ cli.pc = "r_intent" => cli.rid # 0
  /\ cli.pc \in {"intent", "lease"} => cli.rid = 0

\* Receipts are created one after the other and never replaced.
Filed == {r \in ReceiptId : receipt[r] # NoReceipt}

FilesOK == \E k \in 0..MaxReceipt : Filed = 1..k

RemoteOK ==
  /\ lease \in [Env -> Lease]
  /\ applied \in [Env -> 0..Migrations]
  /\ control \in [Env -> {"absent", "bridge"} \cup Sha]
  /\ surface \in [Env -> Surface]
  /\ work \in [Env -> {"none", "queued", "running"}]
  /\ version \in [Env -> Tags]
  /\ flight \in [Env -> Owner \cup {NoOwner}]
  /\ runPhase \in [ReceiptId -> RunPhases]
  /\ \A r \in ReceiptId : receipt[r] = NoReceipt => runPhase[r] = "none"

LocalOK ==
  /\ head \in Sha
  /\ found \in [Env -> Surface]
  /\ legacy \in SUBSET Env
  /\ intent \in [Env -> [Sha -> Intent \cup {NoIntent}]]
  /\ receipt \in [ReceiptId -> Receipt \cup {NoReceipt}]
  /\ minted \in 0..MaxOwner
  /\ FilesOK

TypeInv == RemoteOK /\ LocalOK /\ cli \in Clis /\ CliOK


LEMMA TypeInvImplies == TypeInv => TypeOK
BY DEF TypeInv, RemoteOK, LocalOK, TypeOK, Clis

LEMMA IdleOK == Idle \in Clis /\ Idle.rid = 0 /\ Idle.op = "none" /\ Idle.pc = "idle"
BY CutoverAssumption DEF Idle, Clis, Schema, Pcs, TryPcs, Surface

\* Facts about the constants in the form the provers want them.
LEMMA Constants ==
  /\ Migrations \in Nat /\ Migrations > 0 /\ MaxReceipt \in Nat /\ MaxOwner \in Nat
  /\ NoOwner = 0 /\ Owner = 1..MaxOwner /\ ReceiptId = 1..MaxReceipt
  /\ IncidentSha \in Sha
BY CutoverAssumption DEF NoOwner, Owner, ReceiptId

LEMMA TypeInit == Init => TypeInv
<1> SUFFICES ASSUME Init PROVE TypeInv
  OBVIOUS
<1> USE Constants
<1>1. RemoteOK
  <2>1. AbsentLease \in Lease
    BY DEF AbsentLease, Lease
  <2>2. applied \in [Env -> 0..Migrations]
    <3>1. applied \in [Env -> {0, Migrations}]
      BY DEF Init
    <3>2. {0, Migrations} \subseteq 0..Migrations
      OBVIOUS
    <3> QED BY <3>1, <3>2
  <2>3. control \in [Env -> {"absent", "bridge"} \cup Sha]
    BY DEF Init
  <2> QED BY <2>1, <2>2, <2>3 DEF Init, RemoteOK, Tags, RunPhases, NoReceipt
<1>2. LocalOK
  <2>1. Filed = 1..0
    BY DEF Init, Filed
  <2>2. FilesOK
    BY <2>1 DEF FilesOK
  <2> QED BY <2>2 DEF Init, LocalOK
<1>3. cli \in Clis /\ CliOK
  BY IdleOK DEF Init, CliOK, Idle, Schema, LoopPcs, CleanupPcs
<1> QED BY <1>1, <1>2, <1>3 DEF TypeInv

\* A command moves on without touching its files.
LEMMA MoveOK ==
  ASSUME TypeInv, cli.pc \notin {"idle", "intent"},
         NEW p \in Pcs \ {"idle", "intent", "lease"},
         Goto(p), UNCHANGED <<world, files>>, RemoteOK',
         cli.op = "resume" => p \in LoopPcs,
         cli.op \in Schema => p \in SchemaPcs,
         p \in CleanupPcs => cli.op \in Schema,
         cli.op = "activate" /\ p \notin QuiescePcs => cli.rid # 0,
         p = "r_intent" => cli.rid # 0
  PROVE  TypeInv'
<1>1. cli \in Clis /\ CliOK /\ LocalOK
  BY DEF TypeInv
<1>2. /\ cli' \in Clis
      /\ cli'.pc = p /\ cli'.op = cli.op /\ cli'.env = cli.env /\ cli'.sha = cli.sha
      /\ cli'.owner = cli.owner /\ cli'.rid = cli.rid
  BY <1>1 DEF Goto, Clis
<1>3. intent' = intent /\ receipt' = receipt /\ LocalOK'
  BY <1>1 DEF files, world, LocalOK, FilesOK, Filed
<1>4. CliOK'
  BY <1>1, <1>2, <1>3 DEF CliOK
<1> QED BY <1>2, <1>3, <1>4 DEF TypeInv

\* A command ends, or none runs.
LEMMA StopOK ==
  ASSUME TypeInv, cli' = Idle, RemoteOK', LocalOK'
  PROVE  TypeInv'
<1>1. CliOK'
  BY DEF CliOK, Idle, Schema, LoopPcs, CleanupPcs
<1> QED BY <1>1, IdleOK DEF TypeInv

\* The environment moves.
LEMMA EnvOK ==
  ASSUME TypeInv, cli' = cli, RemoteOK', LocalOK', intent' = intent, receipt' = receipt
  PROVE  TypeInv'
BY DEF TypeInv, CliOK

LEMMA FilesUnchanged ==
  ASSUME TypeInv, UNCHANGED <<world, files>>
  PROVE  LocalOK'
BY DEF TypeInv, LocalOK, FilesOK, Filed, world, files

LEMMA RemoteUnchanged ==
  ASSUME TypeInv, UNCHANGED remote, receipt' = receipt
  PROVE  RemoteOK'
BY DEF TypeInv, RemoteOK, remote


\* Where a receipt goes next is a number none has yet.
LEMMA NextReceiptIs ==
  ASSUME LocalOK
  PROVE  \E k \in 0..MaxReceipt : Filed = 1..k /\ NextReceipt = k + 1
<1>1. PICK k \in 0..MaxReceipt : Filed = 1..k
  BY DEF LocalOK, FilesOK
<1>2. k \in Int /\ Cardinality(1..k) = k
  BY Constants, FS_Interval
<1> QED BY <1>1, <1>2 DEF NextReceipt, Filed

\* Every held or moved lease is one of the row's states.
LEMMA LeaseOps ==
  ASSUME NEW l \in Lease, NEW o \in Owner, NEW c \in Sha
  PROVE  /\ VacantLease \in Lease
         /\ Bootstrapped(l) \in Lease
         /\ Acquired(l, o, c) \in Lease
         /\ \A to \in HeldPhases \cup {"absent", "vacant"}, n \in {0, 1} :
              /\ Transitioned(l, to, n) \in Lease
              /\ Transitioned(l, to, n).phase = to
              /\ Transitioned(l, to, n).spawned = n
              /\ Transitioned(l, to, n).owner = l.owner
<1>1. VacantLease \in Lease
  BY DEF VacantLease, AbsentLease, Lease, NoOwner
<1>2. Bootstrapped(l) \in Lease
  BY <1>1 DEF Bootstrapped
<1>3. Acquired(l, o, c) \in Lease
  BY DEF Acquired, Lease, HeldPhases
<1>4. ASSUME NEW to \in HeldPhases \cup {"absent", "vacant"}, NEW n \in {0, 1}
      PROVE  /\ Transitioned(l, to, n) \in Lease
             /\ Transitioned(l, to, n).phase = to
             /\ Transitioned(l, to, n).spawned = n
             /\ Transitioned(l, to, n).owner = l.owner
  BY DEF Transitioned, Lease
<1> QED BY <1>1, <1>2, <1>3, <1>4

\* The lease row of the environment is rewritten.
LEMMA SetLeaseOK ==
  ASSUME TypeInv, NEW e \in Env, NEW l \in Lease,
         lease' = [lease EXCEPT ![e] = l],
         UNCHANGED <<applied, control, surface, work, version, flight, runPhase, receipt>>
  PROVE  RemoteOK'
BY DEF TypeInv, RemoteOK

LEMMA SetSurface ==
  ASSUME TypeInv, NEW e \in Env, NEW b \in BOOLEAN, NEW c \in {"on", "off"}
  PROVE  /\ [surface EXCEPT ![e].paused = b] \in [Env -> Surface]
         /\ [surface EXCEPT ![e].cron = c] \in [Env -> Surface]
         /\ [surface EXCEPT ![e].paused = b][e] = [surface[e] EXCEPT !.paused = b]
         /\ [surface EXCEPT ![e].cron = c][e] = [surface[e] EXCEPT !.cron = c]
<1>1. surface \in [Env -> Surface] /\ surface[e] \in Surface
  BY DEF TypeInv, RemoteOK
<1>2. [surface[e] EXCEPT !.paused = b] \in Surface /\ [surface[e] EXCEPT !.cron = c] \in Surface
  BY <1>1 DEF Surface
<1> QED BY <1>1, <1>2

LEMMA LaunchType ==
  ASSUME TypeInv, NEW op \in {"activate", "prepare", "repair"}, NEW e \in Env, NEW c \in Sha,
         Launch(op, e, c)
  PROVE  TypeInv'
<1> DEFINE new == [Idle EXCEPT !.op = op, !.pc = "intent", !.env = e, !.sha = c,
                               !.base = surface[e]]
<1>1. surface[e] \in Surface /\ cli' = new
  BY DEF TypeInv, RemoteOK, Launch
<1>2. /\ new \in Clis
      /\ new.op = op /\ new.pc = "intent" /\ new.env = e /\ new.sha = c /\ new.rid = 0
  BY <1>1, IdleOK DEF Clis, Schema, Pcs, TryPcs
<1> HIDE DEF new
<1>3. CliOK'
  BY <1>1, <1>2 DEF CliOK, LoopPcs, CleanupPcs, SchemaPcs, Schema
<1>4. RemoteOK' /\ LocalOK'
  BY RemoteUnchanged, FilesUnchanged DEF Launch, files
<1> QED BY <1>1, <1>2, <1>3, <1>4 DEF TypeInv

LEMMA LoadIntentType ==
  ASSUME TypeInv, LoadIntent
  PROVE  TypeInv'
<1> DEFINE old == intent[cli.env][cli.sha]
           i == IF old = NoIntent
                THEN [owner |-> minted + 1, surface |-> cli.base, version |-> version[cli.env]]
                ELSE old
           q == IF cli.op = "activate" THEN "stop" ELSE "lease"
           new == [cli EXCEPT !.owner = i.owner, !.pc = q]
<1>1. /\ cli.pc = "intent" /\ i.owner \in Owner
      /\ intent' = [intent EXCEPT ![cli.env] = [intent[cli.env] EXCEPT ![cli.sha] = i]]
      /\ minted' = IF old = NoIntent THEN minted + 1 ELSE minted
      /\ cli' = new
      /\ UNCHANGED <<world, remote, receipt>>
  BY DEF LoadIntent, At, Here
<1>2. cli \in Clis /\ CliOK /\ RemoteOK /\ LocalOK /\ cli.env \in Env /\ cli.sha \in Sha
  BY <1>1 DEF TypeInv, CliOK
<1>3. i \in Intent
  <2>1. CASE old = NoIntent
    BY <1>1, <1>2, <2>1 DEF Intent, Clis, RemoteOK
  <2>2. CASE old # NoIntent
    BY <1>2, <2>2 DEF LocalOK
  <2> QED BY <2>1, <2>2
<1>4. minted' \in 0..MaxOwner
  BY <1>1, <1>2, Constants DEF LocalOK
<1> HIDE DEF i, q
<1>5. q \in {"stop", "lease"}
  BY DEF q
<1>6. /\ new \in Clis /\ new.pc = q /\ new.op = cli.op /\ new.env = cli.env
      /\ new.sha = cli.sha /\ new.owner = i.owner /\ new.rid = cli.rid
  BY <1>1, <1>2, <1>5 DEF Clis, Pcs, TryPcs
<1> HIDE DEF new
<1>7. intent'[cli.env][cli.sha] = i /\ i # NoIntent
  BY <1>1, <1>2, <1>3, Constants DEF LocalOK, Intent, NoIntent
<1>8. LocalOK'
  BY <1>1, <1>2, <1>3, <1>4 DEF LocalOK, FilesOK, Filed, world
<1>9. cli.op \in {"activate"} \cup Schema /\ cli.rid = 0 /\ cli.op # "resume"
  BY <1>1, <1>2 DEF CliOK, Clis, LoopPcs, Schema
<1>10. CliOK'
  BY <1>1, <1>2, <1>5, <1>6, <1>7, <1>9
     DEF CliOK, LoopPcs, CleanupPcs, QuiescePcs, Schema, SchemaPcs, TryPcs, q
<1>11. RemoteOK'
  BY <1>1, RemoteUnchanged
<1> QED BY <1>1, <1>6, <1>8, <1>10, <1>11 DEF TypeInv

\* The lease observations change the command only.
LEMMA LeaseSeenType ==
  ASSUME TypeInv, cli.pc = "lease", cli.op \in Schema,
         NEW owned \in BOOLEAN, NEW skip \in BOOLEAN, NEW rid \in 0..MaxReceipt,
         NEW p \in {"own", "stop", "exact"},
         rid # 0 => rid \in ReceiptsOf(cli.env, cli.owner),
         cli' = [[[[cli EXCEPT !.owned = owned] EXCEPT !.skip = skip] EXCEPT !.rid = rid]
                    EXCEPT !.pc = p],
         UNCHANGED <<world, remote, files>>
  PROVE  TypeInv'
<1>1. cli \in Clis /\ CliOK /\ RemoteOK' /\ LocalOK'
  BY RemoteUnchanged, FilesUnchanged DEF TypeInv, files
<1>2. /\ cli' \in Clis /\ cli'.pc = p /\ cli'.op = cli.op /\ cli'.env = cli.env
      /\ cli'.sha = cli.sha /\ cli'.owner = cli.owner /\ cli'.rid = rid
  <2> DEFINE a == [cli EXCEPT !.owned = owned]
             b == [a EXCEPT !.skip = skip]
             c == [b EXCEPT !.rid = rid]
  <2>1. /\ a \in Clis /\ a.op = cli.op /\ a.env = cli.env /\ a.sha = cli.sha
        /\ a.owner = cli.owner
    BY <1>1 DEF Clis
  <2> HIDE DEF a
  <2>2. /\ b \in Clis /\ b.op = cli.op /\ b.env = cli.env /\ b.sha = cli.sha
        /\ b.owner = cli.owner
    BY <2>1 DEF Clis
  <2> HIDE DEF b
  <2>3. /\ c \in Clis /\ c.op = cli.op /\ c.env = cli.env /\ c.sha = cli.sha
        /\ c.owner = cli.owner /\ c.rid = rid
    BY <2>2 DEF Clis
  <2>4. cli' = [c EXCEPT !.pc = p]
    BY DEF a, b
  <2>5. p \in Pcs
    BY DEF Pcs, TryPcs
  <2> HIDE DEF c
  <2> QED BY <2>3, <2>4, <2>5 DEF Clis
<1>3. intent' = intent /\ receipt' = receipt
  BY DEF files
<1>4. rid # 0 => /\ receipt[rid] # NoReceipt /\ receipt[rid].env = cli.env
                 /\ receipt[rid].owner = cli.owner
  BY DEF ReceiptsOf
<1>5. CliOK'
  BY <1>1, <1>2, <1>3, <1>4 DEF CliOK, LoopPcs, CleanupPcs, QuiescePcs, Schema, SchemaPcs, TryPcs
<1> QED BY <1>1, <1>2, <1>5 DEF TypeInv

LEMMA PrepareLeaseType ==
  ASSUME TypeInv, PrepareLease
  PROVE  TypeInv'
<1> DEFINE rs == ReceiptsOf(cli.env, cli.owner)
           mine == /\ lease[cli.env].owner = cli.owner
                   /\ lease[cli.env].phase \in {"acquired", "verifying"}
                   /\ lease[cli.env].spawned = 0
           skip == mine /\ lease[cli.env].phase = "verifying"
           rid == IF rs = {} THEN 0 ELSE CHOOSE r \in rs : TRUE
           p == IF mine THEN "own" ELSE "stop"
<1>1. rid \in 0..MaxReceipt /\ (rid # 0 => rid \in rs)
  BY Constants DEF ReceiptsOf
<1>2. /\ cli.pc = "lease" /\ cli.op = "prepare"
      /\ cli' = [[[[cli EXCEPT !.owned = mine] EXCEPT !.skip = skip] EXCEPT !.rid = rid]
                   EXCEPT !.pc = p]
      /\ UNCHANGED <<world, remote, files>>
  BY DEF PrepareLease, At, Here
<1>3. mine \in BOOLEAN /\ skip \in BOOLEAN /\ p \in {"own", "stop", "exact"}
  OBVIOUS
<1> HIDE DEF rs, mine, skip, rid, p
<1> QED BY <1>1, <1>2, <1>3, LeaseSeenType DEF Schema, rs

LEMMA RepairLeaseType ==
  ASSUME TypeInv, RepairLease
  PROVE  TypeInv'
<1> DEFINE rs == ReceiptsOf(cli.env, cli.owner)
           skip == lease[cli.env].phase = "verifying" /\ lease[cli.env].spawned = 0
           rid == CHOOSE r \in rs : TRUE
           p == IF skip THEN "exact" ELSE "stop"
<1>1. Cardinality(rs) = 1 /\ cli \in Clis
  BY DEF RepairLease, Here, TypeInv
<1>2. rs # {}
  BY <1>1, FS_EmptySet
<1>3. rid \in rs /\ rid \in 0..MaxReceipt
  BY <1>2, Constants DEF ReceiptsOf
<1>4. /\ cli.pc = "lease" /\ cli.op = "repair"
      /\ cli' = [[[cli EXCEPT !.skip = skip] EXCEPT !.rid = rid] EXCEPT !.pc = p]
      /\ UNCHANGED <<world, remote, files>>
  BY DEF RepairLease, At, Here
<1>5. cli = [cli EXCEPT !.owned = cli.owned] /\ cli.owned \in BOOLEAN
  BY <1>1 DEF Clis
<1>6. skip \in BOOLEAN /\ p \in {"own", "stop", "exact"}
  OBVIOUS
<1> HIDE DEF rs, skip, rid, p
<1> QED BY <1>3, <1>4, <1>5, <1>6, LeaseSeenType DEF Schema, rs


\* A command that moves on and sets some of its flags on the way.
LEMMA FlagOK ==
  ASSUME TypeInv, cli.pc \notin {"idle", "intent"},
         NEW p \in Pcs \ {"idle", "intent", "lease"},
         cli' \in Clis, cli'.pc = p, cli'.op = cli.op, cli'.env = cli.env,
         cli'.sha = cli.sha, cli'.owner = cli.owner, cli'.rid = cli.rid,
         UNCHANGED <<world, files>>, RemoteOK',
         cli.op = "resume" => p \in LoopPcs,
         cli.op \in Schema => p \in SchemaPcs,
         p \in CleanupPcs => cli.op \in Schema,
         cli.op = "activate" /\ p \notin QuiescePcs => cli.rid # 0,
         p = "r_intent" => cli.rid # 0
  PROVE  TypeInv'
<1>1. cli \in Clis /\ CliOK /\ LocalOK'
  BY FilesUnchanged DEF TypeInv
<1>2. intent' = intent /\ receipt' = receipt
  BY DEF files
<1>3. CliOK'
  BY <1>1, <1>2 DEF CliOK
<1> QED BY <1>1, <1>3 DEF TypeInv

\* What the running command may rely on at a program point past its intent.
LEMMA RunningCli ==
  ASSUME TypeInv, cli.pc \notin {"idle", "intent"}
  PROVE  /\ cli \in Clis /\ cli.env \in Env /\ cli.sha \in Sha /\ cli.owner \in Owner
         /\ lease[cli.env] \in Lease /\ surface[cli.env] \in Surface
         /\ cli.op = "resume" => cli.pc \in LoopPcs /\ cli.rid # 0
         /\ cli.op \in Schema => cli.pc \in SchemaPcs
         /\ cli.op = "activate" /\ cli.pc \notin QuiescePcs => cli.rid # 0
         /\ cli.op \in {"activate", "resume"} \cup Schema
         /\ cli.pc \in CleanupPcs => cli.op \in Schema
BY DEF TypeInv, CliOK, Clis, RemoteOK

LEMMA OwnType ==
  ASSUME TypeInv, Own
  PROVE  TypeInv'
<1>1. cli.pc = "own" /\ UNCHANGED <<world, files>>
  BY DEF Own, At
<1>2. /\ cli \in Clis /\ cli.env \in Env /\ cli.sha \in Sha /\ cli.owner \in Owner
      /\ lease[cli.env] \in Lease /\ cli.op \in {"activate", "resume"} \cup Schema
      /\ cli.op # "resume"
      /\ cli.op = "activate" => cli.rid # 0
  BY <1>1, RunningCli DEF LoopPcs, QuiescePcs
<1>3. RemoteOK'
  <2> DEFINE l == Transitioned(lease[cli.env], lease[cli.env].phase, 0)
  <2>1. l \in Lease
    BY <1>2, LeaseOps DEF Lease
  <2> HIDE DEF l
  <2> QED BY <1>2, <2>1, SetLeaseOK DEF Own, SetLease, Here, files, l
<1> DEFINE p == IF cli.skip THEN "exact" ELSE "stop"
<1>4. p \in {"exact", "stop"} /\ cli' = [[cli EXCEPT !.held = TRUE] EXCEPT !.pc = p]
  BY DEF Own
<1> HIDE DEF p
<1>5. /\ cli' \in Clis /\ cli'.pc = p /\ cli'.op = cli.op /\ cli'.env = cli.env
      /\ cli'.sha = cli.sha /\ cli'.owner = cli.owner /\ cli'.rid = cli.rid
  BY <1>2, <1>4 DEF Clis, Pcs, TryPcs
<1> QED BY <1>1, <1>2, <1>3, <1>4, <1>5, FlagOK DEF Pcs, TryPcs, CleanupPcs, QuiescePcs, SchemaPcs

LEMMA QuiesceType ==
  ASSUME TypeInv,
         \/ StopCron \/ ObserveDrained("drain1", "drain2") \/ ObserveDrained("drain2", "pause")
         \/ PauseQueue \/ Quiesce
  PROVE  TypeInv'
<1>1. cli.pc \in QuiescePcs \ {"bookmark"} /\ UNCHANGED <<world, files>>
  BY DEF StopCron, ObserveDrained, PauseQueue, Quiesce, At, QuiescePcs
<1>2. /\ cli \in Clis /\ cli.env \in Env /\ surface[cli.env] \in Surface
      /\ cli.op # "resume" /\ cli.op \in {"activate", "resume"} \cup Schema
  BY <1>1, RunningCli DEF QuiescePcs, LoopPcs
<1>3. RemoteOK'
  <2>1. surface' \in [Env -> Surface]
    <3>1. CASE UNCHANGED surface
      BY <3>1 DEF TypeInv, RemoteOK
    <3>2. CASE SetCron("off") \/ SetPaused(TRUE)
      <4>1. /\ [surface EXCEPT ![cli.env].paused = TRUE] \in [Env -> Surface]
            /\ [surface EXCEPT ![cli.env].cron = "off"] \in [Env -> Surface]
        BY <1>2, SetSurface
      <4> QED BY <3>2, <4>1 DEF SetCron, SetPaused, Here
    <3> QED BY <3>1, <3>2 DEF StopCron, ObserveDrained, PauseQueue, Quiesce, remote
  <2>2. UNCHANGED <<lease, applied, control, work, version, flight, runPhase, receipt>>
    BY DEF StopCron, ObserveDrained, PauseQueue, Quiesce, remote, files
  <2> QED BY <2>1, <2>2 DEF TypeInv, RemoteOK
<1>4. CASE PauseQueue
  <2>1. /\ cli' \in Clis /\ cli'.pc = "quiesce" /\ cli'.op = cli.op /\ cli'.env = cli.env
        /\ cli'.sha = cli.sha /\ cli'.owner = cli.owner /\ cli'.rid = cli.rid
    BY <1>2, <1>4 DEF PauseQueue, Clis, Pcs, TryPcs
  <2> QED BY <1>1, <1>2, <1>3, <2>1, FlagOK DEF Pcs, TryPcs, CleanupPcs, QuiescePcs, SchemaPcs
<1>5. CASE ~PauseQueue
  <2>1. PICK p \in {"drain1", "drain2", "pause", "bookmark"} : Goto(p)
    BY <1>5 DEF StopCron, ObserveDrained, Quiesce
  <2> QED BY <1>1, <1>2, <1>3, <2>1, MoveOK DEF Pcs, TryPcs, CleanupPcs, QuiescePcs, SchemaPcs
<1> QED BY <1>4, <1>5

LEMMA SaveReceiptType ==
  ASSUME TypeInv, SaveReceipt
  PROVE  TypeInv'
<1> DEFINE i == intent[cli.env][cli.sha]
           isNew == cli.op = "activate" \/ cli.rid = 0
           q == IF cli.op = "repair" \/ cli.owned THEN ApplyPc ELSE "bootstrap"
           rid == IF isNew THEN NextReceipt ELSE cli.rid
           rc == [env |-> cli.env, sha |-> cli.sha, owner |-> cli.owner,
                  surface |-> i.surface]
<1>1. /\ cli.pc = "bookmark" /\ UNCHANGED <<world, remote, intent, minted>>
      /\ isNew => NextReceipt \in ReceiptId
      /\ receipt' = IF isNew THEN [receipt EXCEPT ![NextReceipt] = rc] ELSE receipt
      /\ cli' = [[cli EXCEPT !.rid = rid] EXCEPT !.pc = q]
  BY DEF SaveReceipt, At, Here
<1>2. q \in {"exact", "refence", "fence0", "bootstrap"}
  BY DEF ApplyPc
<1>3. /\ cli \in Clis /\ cli.env \in Env /\ cli.sha \in Sha /\ cli.owner \in Owner
      /\ cli.op # "resume" /\ cli.op \in {"activate"} \cup Schema
      /\ LocalOK /\ RemoteOK /\ CliOK
  BY <1>1, RunningCli DEF LoopPcs, TypeInv
<1>4. i # NoIntent /\ i.owner = cli.owner /\ i \in Intent
  BY <1>1, <1>3 DEF CliOK, LocalOK
<1>5. rc \in Receipt /\ rc # NoReceipt /\ rc.env = cli.env /\ rc.owner = cli.owner
  BY <1>3, <1>4, Constants DEF Receipt, Intent, NoReceipt
<1>6. PICK k \in 0..MaxReceipt : Filed = 1..k /\ NextReceipt = k + 1
  BY <1>3, NextReceiptIs
<1> HIDE DEF rc, q
<1>7. receipt' \in [ReceiptId -> Receipt \cup {NoReceipt}]
  BY <1>1, <1>3, <1>5 DEF LocalOK
<1>8. FilesOK'
  <2>1. CASE isNew
    <3>1. k + 1 \in 0..MaxReceipt
      BY <1>1, <1>6, <2>1, Constants
    <3>2. \A r \in ReceiptId : receipt'[r] # NoReceipt <=> receipt[r] # NoReceipt \/ r = k + 1
      BY <1>1, <1>3, <1>5, <1>6, <2>1 DEF LocalOK
    <3>3. \A r \in ReceiptId : receipt[r] # NoReceipt <=> r \in 1..k
      BY <1>6 DEF Filed
    <3>4. Filed' = 1..(k + 1)
      BY <3>1, <3>2, <3>3, Constants DEF Filed
    <3> QED BY <3>1, <3>4 DEF FilesOK
  <2>2. CASE ~isNew
    BY <1>1, <1>3, <2>2 DEF LocalOK, FilesOK, Filed
  <2> QED BY <2>1, <2>2
<1>9. LocalOK'
  BY <1>1, <1>3, <1>7, <1>8 DEF LocalOK, world
<1>10. RemoteOK'
  BY <1>1, <1>3, <1>5, <1>6 DEF RemoteOK, remote
<1>11. /\ rid \in ReceiptId /\ receipt'[rid] # NoReceipt
       /\ receipt'[rid].env = cli.env /\ receipt'[rid].owner = cli.owner
  <2>1. CASE isNew
    BY <1>1, <1>3, <1>5, <2>1 DEF LocalOK
  <2>2. CASE ~isNew
    BY <1>1, <1>3, <2>2, Constants DEF CliOK, Clis
  <2> QED BY <2>1, <2>2
<1> HIDE DEF rid
<1>12. /\ cli' \in Clis /\ cli'.pc = q /\ cli'.op = cli.op /\ cli'.env = cli.env
       /\ cli'.sha = cli.sha /\ cli'.owner = cli.owner /\ cli'.rid = rid
  <2>1. rid \in 0..MaxReceipt /\ q \in Pcs
    BY <1>2, <1>11, Constants DEF Pcs, TryPcs
  <2>2. cli' = [[cli EXCEPT !.rid = rid] EXCEPT !.pc = q] /\ cli \in Clis
    BY <1>1, <1>3 DEF rid
  <2> QED BY <2>1, <2>2 DEF Clis
<1>13. CliOK'
  BY <1>1, <1>2, <1>3, <1>4, <1>11, <1>12, Constants
     DEF CliOK, CleanupPcs, LoopPcs, QuiescePcs, Schema, SchemaPcs, TryPcs
<1> QED BY <1>9, <1>10, <1>12, <1>13 DEF TypeInv

LEMMA AcquireType ==
  ASSUME TypeInv, Bootstrap \/ Acquire
  PROVE  TypeInv'
<1>1. cli.pc \in {"bootstrap", "acquire"} /\ UNCHANGED <<world, files>>
  BY DEF Bootstrap, Acquire, At
<1>2. /\ cli \in Clis /\ cli.env \in Env /\ cli.sha \in Sha /\ cli.owner \in Owner
      /\ lease[cli.env] \in Lease /\ cli.op \in {"activate", "resume"} \cup Schema
      /\ cli.op # "resume"
      /\ cli.op = "activate" => cli.rid # 0
  BY <1>1, RunningCli DEF LoopPcs, QuiescePcs
<1>3. CASE Bootstrap
  <2>1. RemoteOK'
    BY <1>2, <1>3, LeaseOps, SetLeaseOK DEF Bootstrap, SetLease, Here, files
  <2> QED BY <1>1, <1>2, <1>3, <2>1, MoveOK
          DEF Bootstrap, Pcs, TryPcs, CleanupPcs, QuiescePcs, SchemaPcs
<1>4. CASE Acquire
  <2>1. RemoteOK'
    BY <1>2, <1>4, LeaseOps, SetLeaseOK DEF Acquire, SetLease, Here, files
  <2> DEFINE p == IF cli.op = "activate" THEN "start" ELSE ApplyPc
  <2>2. /\ p \in {"start", "exact", "refence", "fence0"}
        /\ p = "start" => cli.op = "activate"
        /\ cli' = [[cli EXCEPT !.held = TRUE] EXCEPT !.pc = p]
    BY <1>4 DEF Acquire, ApplyPc
  <2> HIDE DEF p
  <2>3. /\ cli' \in Clis /\ cli'.pc = p /\ cli'.op = cli.op /\ cli'.env = cli.env
        /\ cli'.sha = cli.sha /\ cli'.owner = cli.owner /\ cli'.rid = cli.rid
    BY <1>2, <2>2 DEF Clis, Pcs, TryPcs
  <2> QED BY <1>1, <1>2, <2>1, <2>2, <2>3, FlagOK
             DEF Pcs, TryPcs, CleanupPcs, QuiescePcs, SchemaPcs, Schema
<1> QED BY <1>3, <1>4


\* The rows of runs: only one with a receipt is ever written.
LEMMA RunRowOK ==
  ASSUME TypeInv, cli.rid # 0, cli \in Clis, NEW ph \in RunPhases,
         runPhase' = [runPhase EXCEPT ![cli.rid] = ph], receipt' = receipt
  PROVE  /\ cli.rid \in ReceiptId
         /\ runPhase' \in [ReceiptId -> RunPhases]
         /\ \A r \in ReceiptId : receipt'[r] = NoReceipt => runPhase'[r] = "none"
<1>1. cli.rid \in ReceiptId /\ receipt[cli.rid] # NoReceipt
  BY Constants DEF Clis, TypeInv, CliOK
<1> QED BY <1>1 DEF TypeInv, RemoteOK

LEMMA StartRunType ==
  ASSUME TypeInv, StartRun
  PROVE  TypeInv'
<1>1. /\ cli.pc = "start" /\ UNCHANGED <<world, files>> /\ Goto("loop")
      /\ UNCHANGED <<lease, applied, control, surface, work, version, flight>>
  BY DEF StartRun, At
<1>2. cli \in Clis /\ cli.op = "activate" /\ cli.rid # 0
  BY <1>1, RunningCli DEF LoopPcs, QuiescePcs, SchemaPcs, TryPcs, CleanupPcs
<1> DEFINE ph == IF runPhase[cli.rid] = "none" THEN "queue_paused" ELSE runPhase[cli.rid]
<1>3. ph \in RunPhases
  BY <1>2, Constants DEF RunPhases, TypeInv, RemoteOK, Clis
<1>4. runPhase' = [runPhase EXCEPT ![cli.rid] = ph] /\ receipt' = receipt
  BY <1>1 DEF StartRun, files
<1> HIDE DEF ph
<1>5. RemoteOK'
  BY <1>1, <1>2, <1>3, <1>4, RunRowOK DEF TypeInv, RemoteOK
<1> QED BY <1>1, <1>2, <1>5, MoveOK DEF Pcs, TryPcs, LoopPcs, CleanupPcs, Schema, SchemaPcs

LEMMA FenceType ==
  ASSUME TypeInv, FenceMigrating \/ FenceSpawned \/ FenceRecovery
  PROVE  TypeInv'
<1>1. PICK pc \in {"fence0", "fence1", "refence"}, from \in SUBSET HeldPhases, n \in {0, 1},
           live \in BOOLEAN, next \in {"fence1", "spawn"} : Fence(pc, from, n, live, next)
  <2>1. {"acquired"} \in SUBSET HeldPhases /\ {"migrating"} \in SUBSET HeldPhases
        /\ {"recovery_required"} \in SUBSET HeldPhases
    BY DEF HeldPhases
  <2> QED BY <2>1 DEF FenceMigrating, FenceSpawned, FenceRecovery
<1>2. cli.pc = pc /\ UNCHANGED <<world, files>> /\ Goto(next)
  BY <1>1 DEF Fence, At
<1>3. /\ cli \in Clis /\ cli.env \in Env /\ cli.sha \in Sha /\ cli.owner \in Owner
      /\ lease[cli.env] \in Lease
      /\ cli.op = "activate" => cli.rid # 0
  BY <1>2, RunningCli DEF QuiescePcs
<1>4. Transitioned(lease[cli.env], "migrating", n) \in Lease
  BY <1>3, LeaseOps DEF HeldPhases
<1>5. RemoteOK'
  BY <1>1, <1>3, <1>4, SetLeaseOK DEF Fence, SetLease, Here, files
<1> QED BY <1>2, <1>3, <1>5, MoveOK DEF Pcs, TryPcs, LoopPcs, CleanupPcs, SchemaPcs

LEMMA ApplyType ==
  ASSUME TypeInv, SpawnApply \/ ApplyReturns
  PROVE  TypeInv'
<1>1. cli.pc \in {"spawn", "apply"} /\ UNCHANGED <<world, files>>
  BY DEF SpawnApply, ApplyReturns, At
<1>2. /\ cli \in Clis /\ cli.env \in Env /\ cli.owner \in Owner
      /\ cli.op = "activate" => cli.rid # 0
  BY <1>1, RunningCli DEF QuiescePcs
<1>3. RemoteOK'
  BY <1>2, Constants DEF SpawnApply, ApplyReturns, Here, TypeInv, RemoteOK, files
<1>4. PICK p \in {"apply", "settle", "unsettle"} : Goto(p)
  BY DEF SpawnApply, ApplyReturns
<1> QED BY <1>1, <1>2, <1>3, <1>4, MoveOK DEF Pcs, TryPcs, LoopPcs, CleanupPcs, SchemaPcs

\* Where an exception leaves a command.
LEMMA AbortedType ==
  ASSUME TypeInv, cli.pc \notin {"idle", "intent"}, cli' = Aborted,
         UNCHANGED <<world, files>>, RemoteOK'
  PROVE  TypeInv'
<1>1. cli \in Clis /\ LocalOK'
  BY FilesUnchanged DEF TypeInv
<1>2. CASE cli.op \in Schema
  <2> DEFINE p == IF cli.op = "repair" /\ ~cli.skip /\ ~cli.paused
                  THEN "r_release" ELSE "r_queue"
  <2>1. p \in {"r_release", "r_queue"} /\ cli' = [[cli EXCEPT !.failed = TRUE] EXCEPT !.pc = p]
    BY <1>2 DEF Aborted
  <2> HIDE DEF p
  <2>2. /\ cli' \in Clis /\ cli'.pc = p /\ cli'.op = cli.op /\ cli'.env = cli.env
        /\ cli'.sha = cli.sha /\ cli'.owner = cli.owner /\ cli'.rid = cli.rid
    BY <1>1, <2>1 DEF Clis, Pcs, TryPcs
  <2> QED BY <1>2, <2>1, <2>2, FlagOK DEF Pcs, TryPcs, Schema, SchemaPcs, CleanupPcs
<1>3. CASE cli.op \notin Schema
  BY <1>1, <1>3, StopOK DEF Aborted
<1> QED BY <1>2, <1>3

LEMMA SettleType ==
  ASSUME TypeInv, SettleApplied \/ SettleFailed
  PROVE  TypeInv'
<1>1. cli.pc \in {"settle", "unsettle"} /\ UNCHANGED <<world, files>>
  BY DEF SettleApplied, SettleFailed, At
<1>2. /\ cli \in Clis /\ cli.env \in Env /\ cli.sha \in Sha /\ cli.owner \in Owner
      /\ lease[cli.env] \in Lease
      /\ cli.op = "activate" => cli.rid # 0
  BY <1>1, RunningCli DEF QuiescePcs
<1>3. /\ Transitioned(lease[cli.env], "verifying", 0) \in Lease
      /\ Transitioned(lease[cli.env], "recovery_required", 1) \in Lease
  BY <1>2, LeaseOps DEF HeldPhases
<1>4. CASE SettleApplied
  <2>1. RemoteOK'
    BY <1>2, <1>3, <1>4, SetLeaseOK DEF SettleApplied, SetLease, Here, files
  <2> QED BY <1>1, <1>2, <1>4, <2>1, MoveOK
             DEF SettleApplied, Pcs, TryPcs, LoopPcs, CleanupPcs, SchemaPcs
<1>5. CASE SettleFailed
  <2>1. UNCHANGED <<applied, control, surface, work, version, flight, runPhase, receipt>>
    BY <1>5 DEF SettleFailed, files
  <2>2. RemoteOK'
    <3>1. CASE UNCHANGED lease
      BY <2>1, <3>1 DEF TypeInv, RemoteOK
    <3>2. CASE SetLease(Transitioned(lease[cli.env], "recovery_required", 1))
      BY <1>2, <1>3, <2>1, <3>2, SetLeaseOK DEF SetLease, Here
    <3> QED BY <1>5, <3>1, <3>2 DEF SettleFailed, Here
  <2> QED BY <1>1, <1>5, <2>2, AbortedType DEF SettleFailed
<1> QED BY <1>4, <1>5


\* A run row advances.
LEMMA AdvanceOK ==
  ASSUME TypeInv, cli.rid # 0, cli \in Clis, NEW from, NEW to \in RunPhases, Advance(from, to),
         receipt' = receipt
  PROVE  /\ cli.rid \in ReceiptId
         /\ runPhase' \in [ReceiptId -> RunPhases]
         /\ \A r \in ReceiptId : receipt'[r] = NoReceipt => runPhase'[r] = "none"
BY RunRowOK DEF Advance

\* _continue works on a run that has a receipt.
LEMMA RunOfCli ==
  ASSUME TypeInv, cli.pc \in LoopPcs, cli.op \notin Schema
  PROVE  /\ cli \in Clis /\ cli.env \in Env /\ cli.sha \in Sha /\ cli.rid # 0
         /\ cli.op \in {"activate", "resume"}
         /\ cli.rid \in ReceiptId /\ receipt[cli.rid] \in Receipt
         /\ receipt[cli.rid].env = cli.env /\ receipt[cli.rid].surface \in Surface
<1>1. cli.rid # 0 /\ cli \in Clis /\ CliOK /\ LocalOK
  BY RunningCli DEF LoopPcs, QuiescePcs, TypeInv
<1>2. cli.rid \in ReceiptId
  BY <1>1, Constants DEF Clis
<1>3. receipt[cli.rid] \in Receipt /\ receipt[cli.rid].env = cli.env
  BY <1>1, <1>2 DEF CliOK, LocalOK
<1> QED BY <1>1, <1>2, <1>3, RunningCli DEF Receipt, LoopPcs

\* The program points only a run is at.
LEMMA RunPcs ==
  ASSUME TypeInv, cli.pc \in {"loop", "deployed", "activate", "cron", "finish", "unintent"}
  PROVE  cli.pc \in LoopPcs /\ cli.op \notin Schema
BY RunningCli DEF LoopPcs, SchemaPcs, TryPcs, CleanupPcs

LEMMA ContinueType ==
  ASSUME TypeInv,
         \/ ContinuePaused \/ ExactBridge \/ Deploy \/ Deployed \/ ContinueDeployed
         \/ Finish
  PROVE  TypeInv'
<1>1. cli.pc \in LoopPcs /\ UNCHANGED <<world, files>> /\ cli.op \notin Schema
  BY RunPcs DEF ContinuePaused, ExactBridge, Deploy, Deployed, ContinueDeployed, Finish,
                LoopAt, At, LoopPcs
<1>2. /\ cli \in Clis /\ cli.env \in Env /\ cli.sha \in Sha /\ cli.rid # 0
      /\ receipt' = receipt
  BY <1>1, RunOfCli DEF files
<1>3. PICK p \in LoopPcs : Goto(p)
  BY DEF ContinuePaused, ExactBridge, Deploy, Deployed, ContinueDeployed, Finish, LoopPcs
<1>4. RemoteOK'
  <2>1. CASE ContinuePaused \/ ContinueDeployed
    BY <1>2, <2>1, RemoteUnchanged DEF ContinuePaused, ContinueDeployed
  <2>2. CASE Deploy
    <3>1. surface' \in [Env -> Surface]
      <4>1. surface' = surface \/ surface' = [surface EXCEPT ![cli.env].cron = "on"]
        BY <2>2 DEF Deploy, SetCron, Here
      <4>2. surface \in [Env -> Surface]
        BY DEF TypeInv, RemoteOK
      <4>3. [surface EXCEPT ![cli.env].cron = "on"] \in [Env -> Surface]
        BY <1>2, SetSurface
      <4> QED BY <4>1, <4>2, <4>3
    <3>2. version' \in [Env -> Tags] /\ UNCHANGED <<lease, applied, control, work, flight, runPhase>>
      BY <1>2, <2>2 DEF Deploy, Here, TypeInv, RemoteOK, Tags
    <3> QED BY <1>2, <3>1, <3>2 DEF TypeInv, RemoteOK
  <2>3. CASE ExactBridge \/ Deployed \/ Finish
    <3>1. UNCHANGED <<lease, applied, control, surface, work, version, flight>>
      BY <2>3 DEF ExactBridge, Deployed, Finish
    <3>2. PICK from \in RunPhases, to \in RunPhases : Advance(from, to)
      BY <2>3 DEF ExactBridge, Deployed, Finish, RunPhases
    <3> QED BY <1>2, <3>1, <3>2, AdvanceOK DEF TypeInv, RemoteOK
  <2> QED BY <2>1, <2>2, <2>3
<1> QED BY <1>1, <1>2, <1>3, <1>4, MoveOK DEF Pcs, TryPcs, LoopPcs, CleanupPcs

LEMMA ActivateControlType ==
  ASSUME TypeInv, ActivateControl
  PROVE  TypeInv'
<1>1. cli.pc = "activate" /\ UNCHANGED <<world, files>>
  BY DEF ActivateControl, At
<1>2. /\ cli \in Clis /\ cli.env \in Env /\ cli.sha \in Sha /\ cli.rid # 0
      /\ receipt' = receipt /\ cli.op \notin Schema
  BY <1>1, RunPcs, RunOfCli DEF files
<1>3. RemoteOK'
  <2>1. /\ UNCHANGED <<lease, applied, surface, work, version, flight>>
        /\ control' \in [Env -> {"absent", "bridge"} \cup Sha]
        /\ Advance("deployed", "v3_active")
    BY <1>2 DEF ActivateControl, TypeInv, RemoteOK, Here
  <2> QED BY <1>2, <2>1, AdvanceOK DEF TypeInv, RemoteOK, RunPhases
<1>4. CASE control[cli.env] = "bridge"
  BY <1>1, <1>2, <1>3, <1>4, MoveOK
     DEF ActivateControl, Here, Goto, Pcs, TryPcs, LoopPcs, CleanupPcs
<1>5. CASE control[cli.env] # "bridge"
  BY <1>1, <1>3, <1>5, FilesUnchanged, StopOK DEF ActivateControl, Here
<1> QED BY <1>4, <1>5

\* The surface a receipt or an intent records can be put back.
LEMMA RestoredOK ==
  ASSUME TypeInv, NEW e \in Env,
         \/ surface' = surface
         \/ \E b \in BOOLEAN : surface' = [surface EXCEPT ![e].paused = b]
         \/ \E c \in {"on", "off"} : surface' = [surface EXCEPT ![e].cron = c],
         UNCHANGED <<lease, applied, control, work, version, flight, runPhase, receipt>>
  PROVE  RemoteOK'
<1>1. surface' \in [Env -> Surface]
  <2>1. CASE surface' = surface
    BY <2>1 DEF TypeInv, RemoteOK
  <2>2. CASE \E b \in BOOLEAN : surface' = [surface EXCEPT ![e].paused = b]
    <3>1. PICK b \in BOOLEAN : surface' = [surface EXCEPT ![e].paused = b]
      BY <2>2
    <3> QED BY <3>1, SetSurface
  <2>3. CASE \E c \in {"on", "off"} : surface' = [surface EXCEPT ![e].cron = c]
    <3>1. PICK c \in {"on", "off"} : surface' = [surface EXCEPT ![e].cron = c]
      BY <2>3
    <3> QED BY <3>1, SetSurface
  <2> QED BY <2>1, <2>2, <2>3
<1> QED BY <1>1 DEF TypeInv, RemoteOK

LEMMA RestoreType ==
  ASSUME TypeInv, RestoreQueue \/ RestoreCron
  PROVE  TypeInv'
<1>1. cli.pc \in {"loop", "cron"} /\ UNCHANGED <<world, files>>
  BY DEF RestoreQueue, RestoreCron, LoopAt, At
<1>2. /\ cli \in Clis /\ cli.env \in Env /\ cli.rid # 0 /\ cli.op \notin Schema
      /\ receipt[cli.rid].surface \in Surface
  BY <1>1, RunPcs, RunOfCli
<1>3. PICK p \in {"cron", "finish"} : Goto(p)
  BY DEF RestoreQueue, RestoreCron
<1>4. RemoteOK'
  <2>1. /\ receipt[cli.rid].surface.paused \in BOOLEAN
        /\ receipt[cli.rid].surface.cron \in {"on", "off"}
    BY <1>2 DEF Surface
  <2>2. UNCHANGED <<lease, applied, control, work, version, flight, runPhase, receipt>>
    BY DEF RestoreQueue, RestoreCron, files
  <2> QED BY <1>2, <2>1, <2>2, RestoredOK
             DEF RestoreQueue, RestoreCron, SetPaused, SetCron, Here, MyReceipt
<1> QED BY <1>1, <1>2, <1>3, <1>4, MoveOK DEF Pcs, TryPcs, LoopPcs, CleanupPcs

LEMMA ReleaseActivatedType ==
  ASSUME TypeInv, ReleaseActivated
  PROVE  TypeInv'
<1>1. cli.pc = "loop" /\ UNCHANGED <<world, files>> /\ Goto("unintent")
  BY DEF ReleaseActivated, LoopAt, At
<1>2. /\ cli \in Clis /\ cli.env \in Env /\ cli.rid # 0 /\ cli.op \notin Schema
      /\ lease[cli.env] \in Lease /\ cli.owner \in Owner /\ cli.sha \in Sha
  BY <1>1, RunPcs, RunOfCli, RunningCli
<1>3. RemoteOK'
  <2>1. VacantLease \in Lease
    BY <1>2, LeaseOps
  <2>2. UNCHANGED <<applied, control, surface, work, version, flight, runPhase, receipt>>
    BY DEF ReleaseActivated, files
  <2>3. CASE UNCHANGED lease
    BY <2>2, <2>3 DEF TypeInv, RemoteOK
  <2>4. CASE SetLease(VacantLease)
    BY <1>2, <2>1, <2>2, <2>4, SetLeaseOK DEF SetLease, Here
  <2> QED BY <2>3, <2>4 DEF ReleaseActivated
<1> QED BY <1>1, <1>2, <1>3, MoveOK DEF Pcs, TryPcs, LoopPcs, CleanupPcs

LEMMA RemoveIntentType ==
  ASSUME TypeInv, RemoveIntent
  PROVE  TypeInv'
<1>1. /\ cli.pc \in {"unintent", "r_intent"} /\ cli' = Idle
      /\ intent' = [intent EXCEPT ![cli.env] = [intent[cli.env] EXCEPT ![cli.sha] = NoIntent]]
      /\ UNCHANGED <<world, remote, receipt, minted>>
  BY DEF RemoveIntent, Here
<1>2. cli.env \in Env /\ cli.sha \in Sha /\ LocalOK
  BY <1>1, RunningCli DEF TypeInv
<1>3. LocalOK'
  BY <1>1, <1>2 DEF LocalOK, FilesOK, Filed, world
<1>4. RemoteOK'
  BY <1>1, RemoteUnchanged
<1> QED BY <1>1, <1>3, <1>4, StopOK

LEMMA ResumeType ==
  ASSUME TypeInv, NEW r \in ReceiptId, Resume(r)
  PROVE  TypeInv'
<1> DEFINE c == receipt[r]
           l == lease[c.env]
           new == [Idle EXCEPT !.op = "resume", !.pc = "loop", !.env = c.env, !.sha = c.sha,
                               !.owner = c.owner, !.rid = r]
<1>1. /\ c # NoReceipt /\ cli' = new /\ UNCHANGED <<world, files>>
      /\ UNCHANGED <<applied, control, surface, work, version, flight, runPhase, receipt>>
      /\ \/ UNCHANGED lease
         \/ lease' = [lease EXCEPT ![c.env] = Transitioned(l, l.phase, l.spawned)]
  BY DEF Resume, files
<1>2. c \in Receipt /\ c.env \in Env /\ c.sha \in Sha /\ c.owner \in Owner
  BY <1>1 DEF TypeInv, LocalOK, Receipt
<1>3. r # 0 /\ r \in 0..MaxReceipt
  BY Constants
<1>4. /\ new \in Clis /\ new.pc = "loop" /\ new.op = "resume" /\ new.env = c.env
      /\ new.sha = c.sha /\ new.owner = c.owner /\ new.rid = r
  BY <1>2, <1>3, IdleOK DEF Clis, Pcs, TryPcs
<1> HIDE DEF new
<1>5. RemoteOK'
  <2>1. l \in Lease
    BY <1>2 DEF TypeInv, RemoteOK
  <2>2. Transitioned(l, l.phase, l.spawned) \in Lease
    BY <1>2, <2>1, LeaseOps DEF Lease
  <2> HIDE DEF l
  <2>3. CASE UNCHANGED lease
    BY <1>1, <2>3 DEF TypeInv, RemoteOK
  <2>4. CASE lease' = [lease EXCEPT ![c.env] = Transitioned(l, l.phase, l.spawned)]
    BY <1>1, <1>2, <2>2, <2>4, SetLeaseOK
  <2> QED BY <1>1, <2>3, <2>4
<1>6. CliOK'
  BY <1>1, <1>2, <1>3, <1>4 DEF CliOK, LoopPcs, CleanupPcs, QuiescePcs, Schema
<1> QED BY <1>1, <1>4, <1>5, <1>6, FilesUnchanged DEF TypeInv

LEMMA ExactPreparedType ==
  ASSUME TypeInv, ExactPrepared
  PROVE  TypeInv'
<1>1. /\ cli.pc = "exact" /\ cli.op \in Schema /\ UNCHANGED <<world, remote, files>>
      /\ Goto("r_queue")
  BY DEF ExactPrepared, At
<1>2. RemoteOK'
  BY <1>1, RemoteUnchanged DEF files
<1> QED BY <1>1, <1>2, MoveOK DEF Pcs, TryPcs, CleanupPcs, Schema, SchemaPcs

LEMMA RestoreSurfaceType ==
  ASSUME TypeInv, RestoreSurface
  PROVE  TypeInv'
<1>1. cli.pc \in CleanupPcs \ {"r_intent", "r_release"} /\ UNCHANGED <<world, files>>
  BY DEF RestoreSurface, RestorePart, At, CleanupPcs
<1>2. /\ cli \in Clis /\ cli.env \in Env /\ cli.sha \in Sha /\ cli.op \in Schema
      /\ CliOK /\ LocalOK
  BY <1>1, RunningCli DEF TypeInv, CleanupPcs
<1> DEFINE i == intent[cli.env][cli.sha]
<1>3. i.surface.paused \in BOOLEAN /\ i.surface.cron \in {"on", "off"}
  <2>1. i \in Intent
    BY <1>1, <1>2 DEF CliOK, LocalOK, CleanupPcs
  <2> QED BY <2>1 DEF Intent, Surface
<1>4. UNCHANGED <<lease, applied, control, work, version, flight, runPhase, receipt>>
  BY DEF RestoreSurface, RestorePart, files
<1>5. RemoteOK'
  BY <1>2, <1>3, <1>4, RestoredOK DEF RestoreSurface, RestorePart, SetPaused, SetCron, Here
<1>6. PICK p \in {"r_cron", "r_release"} :
         Goto(p) \/ cli' = [[cli EXCEPT !.clean = FALSE] EXCEPT !.pc = p]
  BY DEF RestoreSurface, RestorePart
<1>7. /\ cli' \in Clis /\ cli'.pc = p /\ cli'.op = cli.op /\ cli'.env = cli.env
      /\ cli'.sha = cli.sha /\ cli'.owner = cli.owner /\ cli'.rid = cli.rid
  BY <1>2, <1>6 DEF Goto, Clis, Pcs, TryPcs
<1> QED BY <1>1, <1>2, <1>5, <1>7, FlagOK DEF Pcs, TryPcs, CleanupPcs, SchemaPcs, Schema

LEMMA ReleasePreparedType ==
  ASSUME TypeInv, ReleasePrepared
  PROVE  TypeInv'
<1>1. cli.pc = "r_release" /\ UNCHANGED <<world, files>>
  BY DEF ReleasePrepared, At
<1>2. /\ cli \in Clis /\ cli.env \in Env /\ cli.sha \in Sha /\ cli.op \in Schema
      /\ cli.owner \in Owner /\ lease[cli.env] \in Lease
  BY <1>1, RunningCli DEF CleanupPcs
<1>3. RemoteOK'
  <2>1. VacantLease \in Lease
    BY <1>2, LeaseOps
  <2>2. UNCHANGED <<applied, control, surface, work, version, flight, runPhase, receipt>>
    BY DEF ReleasePrepared, files
  <2>3. CASE UNCHANGED lease
    BY <2>2, <2>3 DEF TypeInv, RemoteOK
  <2>4. CASE SetLease(VacantLease)
    BY <1>2, <2>1, <2>2, <2>4, SetLeaseOK DEF SetLease, Here
  <2> QED BY <2>3, <2>4 DEF ReleasePrepared
<1>4. CASE cli' = Idle
  BY <1>1, <1>3, <1>4, FilesUnchanged, StopOK
<1>5. CASE cli' = [cli EXCEPT !.pc = "r_intent"] /\ cli.rid # 0
  BY <1>1, <1>2, <1>3, <1>5, MoveOK DEF Goto, Pcs, TryPcs, CleanupPcs, SchemaPcs, Schema
<1> QED BY <1>4, <1>5 DEF ReleasePrepared

LEMMA RaiseType ==
  ASSUME TypeInv, Raise \/ Exit
  PROVE  TypeInv'
<1>1. UNCHANGED <<world, remote, files>> /\ RemoteOK' /\ LocalOK'
  BY RemoteUnchanged, FilesUnchanged DEF Raise, Exit, files
<1>2. CASE cli' = Idle
  BY <1>1, <1>2, StopOK
<1>3. CASE cli.pc \in {"spawn", "settle"} /\ Goto("unsettle")
  <2>1. cli.op = "activate" => cli.rid # 0
    BY <1>3, RunningCli DEF QuiescePcs
  <2> QED BY <1>1, <1>3, <2>1, MoveOK DEF Pcs, TryPcs, LoopPcs, CleanupPcs, SchemaPcs
<1>4. CASE cli.pc \in TryPcs \ {"spawn", "settle"} /\ cli' = Aborted
  BY <1>1, <1>4, AbortedType DEF TryPcs
<1> QED BY <1>2, <1>3, <1>4 DEF Raise, Exit

LEMMA EnvironmentType ==
  ASSUME TypeInv, NEW e \in Env, ApplyOne(e) \/ DetachedEnds(e) \/ Expire(e) \/ Worker(e)
  PROVE  TypeInv'
<1>1. /\ UNCHANGED <<world, files>> /\ cli' = cli /\ LocalOK'
      /\ intent' = intent /\ receipt' = receipt
  BY FilesUnchanged DEF ApplyOne, DetachedEnds, Expire, Worker, files
<1>2. RemoteOK'
  <2>1. CASE ApplyOne(e)
    <3>1. applied[e] \in 0..Migrations /\ applied[e] < Migrations
      BY <2>1 DEF ApplyOne, Pending, TypeInv, RemoteOK
    <3>2. applied[e] + 1 \in 0..Migrations
      BY <3>1, Constants
    <3> QED BY <1>1, <2>1, <3>2 DEF ApplyOne, TypeInv, RemoteOK
  <2>2. CASE DetachedEnds(e)
    BY <1>1, <2>2 DEF DetachedEnds, TypeInv, RemoteOK
  <2>3. CASE Expire(e)
    <3>1. [lease[e] EXCEPT !.expired = TRUE] \in Lease
      BY DEF TypeInv, RemoteOK, Lease
    <3>2. lease' = [lease EXCEPT ![e] = [lease[e] EXCEPT !.expired = TRUE]]
      BY <2>3 DEF Expire
    <3> QED BY <1>1, <2>3, <3>1, <3>2, SetLeaseOK DEF Expire
  <2>4. CASE Worker(e)
    BY <1>1, <2>4 DEF Worker, Enqueue, Deliver, JobEnds, TypeInv, RemoteOK
  <2> QED BY <2>1, <2>2, <2>3, <2>4
<1> QED BY <1>1, <1>2, EnvOK

LEMMA MergeType ==
  ASSUME TypeInv, Merge
  PROVE  TypeInv'
<1>1. RemoteOK' /\ cli' = cli /\ intent' = intent /\ receipt' = receipt
  BY RemoteUnchanged DEF Merge, files
<1>2. LocalOK'
  BY DEF Merge, files, TypeInv, LocalOK, FilesOK, Filed
<1> QED BY <1>1, <1>2, EnvOK

LEMMA TypeNext == TypeInv /\ [Next]_vars => TypeInv'
<1> SUFFICES ASSUME TypeInv, [Next]_vars PROVE TypeInv'
  OBVIOUS
<1>1. CASE Step
  BY <1>1, LoadIntentType, PrepareLeaseType, RepairLeaseType, OwnType, QuiesceType,
     SaveReceiptType, AcquireType, StartRunType, FenceType, ApplyType, SettleType,
     ContinueType, ActivateControlType, RestoreType, ReleaseActivatedType, RemoveIntentType,
     ExactPreparedType, RestoreSurfaceType, ReleasePreparedType DEF Step
<1>2. ASSUME NEW e \in Env, Activate(e) \/ Prepare(e) \/ Repair(e)
      PROVE  TypeInv'
  <2>1. head \in Sha /\ IncidentSha \in Sha
    BY CutoverAssumption DEF TypeInv, LocalOK
  <2> QED BY <1>2, <2>1, LaunchType DEF Activate, Prepare, Repair
<1>3. CASE UNCHANGED vars
  BY <1>3, RemoteUnchanged, FilesUnchanged, EnvOK DEF vars, remote, files, world
<1> QED BY <1>1, <1>2, <1>3, ResumeType, RaiseType, EnvironmentType, MergeType DEF Next

\* TypeOK for any migrations, commits, intents and receipts.
THEOREM CutoverTypeOK == Spec => []TypeOK
<1>1. Spec => []TypeInv
  BY TypeInit, TypeNext, PTL DEF Spec
<1> QED BY <1>1, TypeInvImplies, PTL

-----------------------------------------------------------------------------
(* Where each step takes the command.                                      *)

Same == cli'.op = cli.op /\ cli'.env = cli.env /\ cli'.sha = cli.sha

LEMMA GotoPc ==
  ASSUME TypeInv, NEW p \in Pcs, Goto(p)
  PROVE  Same /\ cli'.pc = p /\ cli'.rid = cli.rid /\ cli'.owner = cli.owner
BY DEF TypeInv, Goto, Clis, Same

LEMMA SetTwo ==
  ASSUME NEW b \in Clis, NEW p \in Pcs, NEW v \in BOOLEAN, NEW o \in Owner,
         NEW n \in 0..MaxReceipt
  PROVE  LET held == [b EXCEPT !.held = v, !.pc = p]
             paused == [b EXCEPT !.paused = v, !.pc = p]
             clean == [b EXCEPT !.clean = v, !.pc = p]
             failed == [b EXCEPT !.failed = v, !.pc = p]
             owner == [b EXCEPT !.owner = o, !.pc = p]
             rid == [b EXCEPT !.rid = n, !.pc = p]
         IN  /\ held.pc = p /\ held.op = b.op /\ held.env = b.env /\ held.sha = b.sha
             /\ paused.pc = p /\ paused.op = b.op /\ paused.env = b.env /\ paused.sha = b.sha
             /\ clean.pc = p /\ clean.op = b.op /\ clean.env = b.env /\ clean.sha = b.sha
             /\ failed.pc = p /\ failed.op = b.op /\ failed.env = b.env /\ failed.sha = b.sha
             /\ owner.pc = p /\ owner.op = b.op /\ owner.env = b.env /\ owner.sha = b.sha
             /\ owner.base = b.base
             /\ rid.pc = p /\ rid.op = b.op /\ rid.env = b.env /\ rid.sha = b.sha
BY DEF Clis

LEMMA LoadIntentPc ==
  ASSUME TypeInv, LoadIntent
  PROVE  /\ Same /\ cli.pc = "intent" /\ cli'.pc \in {"stop", "lease"}
         /\ cli.op \in Schema => cli'.pc = "lease"
<1>1. PICK o \in Owner : cli' = [cli EXCEPT !.owner = o,
                                   !.pc = IF cli.op = "activate" THEN "stop" ELSE "lease"]
  BY DEF LoadIntent
<1> QED BY <1>1, SetTwo DEF LoadIntent, At, TypeInv, Same, Pcs, TryPcs, Schema, Clis

LEMMA LeasePc ==
  ASSUME TypeInv, PrepareLease \/ RepairLease
  PROVE  /\ Same /\ cli.pc = "lease" /\ cli'.pc \in {"own", "stop", "exact"}
<1>1. cli.pc = "lease" /\ cli \in Clis
  BY DEF PrepareLease, RepairLease, At, TypeInv
<1>2. CASE PrepareLease
  BY <1>1, <1>2 DEF PrepareLease, Clis, Same
<1>3. CASE RepairLease
  BY <1>1, <1>3 DEF RepairLease, Clis, Same
<1> QED BY <1>1, <1>2, <1>3

LEMMA OwnPc ==
  ASSUME TypeInv, Own
  PROVE  Same /\ cli.pc = "own" /\ cli'.pc \in {"exact", "stop"}
BY DEF Own, At, TypeInv, Clis, Same

LEMMA QuiescePc ==
  ASSUME TypeInv,
         \/ StopCron \/ ObserveDrained("drain1", "drain2") \/ ObserveDrained("drain2", "pause")
         \/ PauseQueue \/ Quiesce
  PROVE  /\ Same /\ cli.pc \in QuiescePcs \ {"bookmark"}
         /\ cli'.pc \in {"drain1", "drain2", "pause", "quiesce", "bookmark"}
         /\ cli'.pc = "bookmark" => Quiesce
<1>1. cli.pc \in QuiescePcs \ {"bookmark"}
  BY DEF StopCron, ObserveDrained, PauseQueue, Quiesce, At, QuiescePcs
<1>2. CASE PauseQueue
  BY <1>1, <1>2 DEF PauseQueue, TypeInv, Clis, Same
<1>3. CASE Quiesce
  BY <1>1, <1>3, GotoPc DEF Quiesce, Pcs, TryPcs
<1>4. CASE StopCron \/ ObserveDrained("drain1", "drain2") \/ ObserveDrained("drain2", "pause")
  <2>1. PICK p \in {"drain1", "drain2", "pause"} : Goto(p)
    BY <1>4 DEF StopCron, ObserveDrained
  <2>2. p \in Pcs
    BY DEF Pcs, TryPcs
  <2> QED BY <1>1, <2>1, <2>2, GotoPc
<1> QED BY <1>2, <1>3, <1>4

LEMMA SaveReceiptPc ==
  ASSUME TypeInv, SaveReceipt
  PROVE  /\ Same /\ cli.pc = "bookmark"
         /\ cli'.pc \in {"exact", "refence", "fence0", "bootstrap"}
<1> DEFINE q == IF cli.op = "repair" \/ cli.owned THEN ApplyPc ELSE "bootstrap"
           n == IF cli.op = "activate" \/ cli.rid = 0 THEN NextReceipt ELSE cli.rid
<1>1. q \in {"exact", "refence", "fence0", "bootstrap"}
  BY DEF ApplyPc
<1>2. cli.pc = "bookmark" /\ cli' = [[cli EXCEPT !.rid = n] EXCEPT !.pc = q]
  BY DEF SaveReceipt, At
<1>3. cli \in Clis
  BY DEF TypeInv
<1> HIDE DEF q, n
<1> QED BY <1>1, <1>2, <1>3 DEF Clis, Same

LEMMA AcquirePc ==
  ASSUME TypeInv, Acquire
  PROVE  Same /\ cli.pc = "acquire" /\ cli'.pc \in {"start", "exact", "refence", "fence0"}
<1> DEFINE q == IF cli.op = "activate" THEN "start" ELSE ApplyPc
<1>1. q \in {"start", "exact", "refence", "fence0"}
  BY DEF ApplyPc
<1>2. cli.pc = "acquire" /\ cli \in Clis /\ cli' = [[cli EXCEPT !.held = TRUE] EXCEPT !.pc = q]
  BY DEF Acquire, At, TypeInv
<1> HIDE DEF q
<1> QED BY <1>1, <1>2 DEF Clis, Same

LEMMA AbortedPc ==
  ASSUME TypeInv, cli' = Aborted
  PROVE  cli' = Idle \/ (Same /\ cli.op \in Schema /\ cli'.pc \in {"r_release", "r_queue"})
<1>1. CASE cli.op \in Schema
  <2>1. PICK q \in {"r_release", "r_queue"} : cli' = [cli EXCEPT !.failed = TRUE, !.pc = q]
    BY <1>1 DEF Aborted
  <2> QED BY <1>1, <2>1 DEF TypeInv, Clis, Same
<1>2. CASE cli.op \notin Schema
  BY <1>2 DEF Aborted
<1> QED BY <1>1, <1>2

LEMMA RestoreSurfacePc ==
  ASSUME TypeInv, RestoreSurface
  PROVE  /\ Same /\ cli.pc \in {"r_queue", "r_cron"} /\ cli.op \in Schema
         /\ cli'.pc \in {"r_cron", "r_release"}
<1>1. cli.pc \in {"r_queue", "r_cron"} /\ cli.op \in Schema
  BY RunningCli DEF RestoreSurface, RestorePart, At, CleanupPcs
<1>2. PICK q \in {"r_cron", "r_release"} :
         Goto(q) \/ cli' = [cli EXCEPT !.clean = FALSE, !.pc = q]
  BY DEF RestoreSurface, RestorePart
<1> QED BY <1>1, <1>2 DEF Goto, TypeInv, Clis, Same

LEMMA LaunchPc ==
  ASSUME NEW op, NEW e, NEW c, Launch(op, e, c), TypeInv
  PROVE  /\ cli'.pc = "intent" /\ cli'.op = op /\ cli'.env = e /\ cli'.sha = c
         /\ cli'.base = surface[e]
BY IdleOK DEF Launch, Clis

LEMMA ResumePc ==
  ASSUME TypeInv, NEW r \in ReceiptId, Resume(r)
  PROVE  cli'.pc = "loop" /\ cli'.op = "resume" /\ receipt[r] # NoReceipt
         /\ receipt[r] \in Receipt /\ receipt[r].env \in Env
<1>1. receipt[r] # NoReceipt /\ receipt[r] \in Receipt
  BY DEF Resume, TypeInv, LocalOK
<1> QED BY <1>1, IdleOK DEF Resume, Clis, Receipt

-----------------------------------------------------------------------------
(* The fence around a migration that may still be applied.                 *)

\* The migrations of e are applied, or no process applies them.
Quiet(e) == flight[e] = NoOwner \/ ~Pending(e)

\* The inductive invariant of ApplyIsFenced: until its own process starts, and
\* after it returned, a command that may move the lease meets a quiet schema.
FenceInv ==
  /\ ApplyIsFenced
  /\ cli.pc \in {"fence1", "spawn", "settle", "unsettle"} => Quiet(cli.env)
  /\ cli.op \in Schema /\ cli.pc \notin {"intent", "lease", "apply"} => Quiet(cli.env)
  /\ cli.pc = "settle" => ~Pending(cli.env)
  /\ cli.pc = "spawn" => /\ lease[cli.env].owner = cli.owner
                         /\ lease[cli.env].spawned = 1
                         /\ lease[cli.env].phase = "migrating"

\* A lease that is not the fence of a migration leaves its schema quiet.
LEMMA Unfenced ==
  ASSUME FenceInv, NEW e \in Env, lease[e].spawned # 1 \/ lease[e].phase # "migrating"
  PROVE  Quiet(e)
BY DEF FenceInv, ApplyIsFenced, Quiet

\* A step that leaves the lease, the chain and the process alone.
LEMMA FenceMoves ==
  ASSUME FenceInv, UNCHANGED <<lease, applied, flight>>,
         cli'.pc \notin {"fence1", "spawn", "settle"},
         cli'.pc = "unsettle" => Quiet(cli'.env),
         cli'.op \in Schema /\ cli'.pc \notin {"intent", "lease", "apply"} => Quiet(cli'.env)
  PROVE  FenceInv'
BY DEF FenceInv, ApplyIsFenced, Quiet, Pending


\* A step that rewrites one lease: its schema is quiet, or the row stays the
\* same fence.
LEMMA LeaseMoves ==
  ASSUME TypeInv, FenceInv, NEW e \in Env, NEW l \in Lease, lease' = [lease EXCEPT ![e] = l],
         UNCHANGED <<applied, flight>>,
         \/ Quiet(e)
         \/ /\ l.owner = lease[e].owner /\ l.spawned = lease[e].spawned
            /\ l.phase = lease[e].phase
  PROVE  ApplyIsFenced' /\ \A x \in Env : lease'[x] = IF x = e THEN l ELSE lease[x]
<1>1. \A x \in Env : lease'[x] = IF x = e THEN l ELSE lease[x]
  BY DEF TypeInv, RemoteOK
<1> QED BY <1>1 DEF FenceInv, ApplyIsFenced, Quiet, Pending

LEMMA FilesFence ==
  ASSUME TypeInv, FenceInv, LoadIntent \/ RemoveIntent \/ SaveReceipt
  PROVE  FenceInv'
<1>1. UNCHANGED <<lease, applied, flight>>
  BY DEF LoadIntent, RemoveIntent, SaveReceipt, remote
<1>2. CASE LoadIntent
  BY <1>1, <1>2, LoadIntentPc, FenceMoves DEF Same
<1>3. CASE RemoveIntent
  BY <1>1, <1>3, IdleOK, FenceMoves DEF RemoveIntent, Schema
<1>4. CASE SaveReceipt
  <2>1. Same /\ cli.pc = "bookmark" /\ cli'.pc \in {"exact", "refence", "fence0", "bootstrap"}
    BY <1>4, SaveReceiptPc
  <2> QED BY <1>1, <2>1, FenceMoves DEF Same, FenceInv
<1> QED BY <1>2, <1>3, <1>4

LEMMA LeaseSeenFence ==
  ASSUME TypeInv, FenceInv, PrepareLease \/ RepairLease
  PROVE  FenceInv'
<1>1. Same /\ cli.pc = "lease" /\ cli'.pc \in {"own", "stop", "exact"}
  BY LeasePc
<1>2. UNCHANGED <<lease, applied, flight>>
  BY DEF PrepareLease, RepairLease, remote
<1>3. cli.env \in Env
  BY <1>1, RunningCli
<1>4. lease[cli.env].phase # "migrating"
  BY DEF PrepareLease, RepairLease, Here
<1>5. Quiet(cli.env)
  BY <1>3, <1>4, Unfenced
<1> QED BY <1>1, <1>2, <1>5, FenceMoves DEF Same

\* The steps of a command that change neither lease nor migrations.
LEMMA WorkFence ==
  ASSUME TypeInv, FenceInv,
         \/ StopCron \/ ObserveDrained("drain1", "drain2") \/ ObserveDrained("drain2", "pause")
         \/ PauseQueue \/ Quiesce \/ StartRun \/ RestoreSurface \/ ExactPrepared
         \/ ContinuePaused \/ ExactBridge \/ Deploy \/ Deployed \/ ContinueDeployed
         \/ ActivateControl \/ RestoreQueue \/ RestoreCron \/ Finish
  PROVE  FenceInv'
<1>1. UNCHANGED <<lease, applied, flight>>
  BY DEF StopCron, ObserveDrained, PauseQueue, Quiesce, StartRun, RestoreSurface, RestorePart,
         ExactPrepared, ContinuePaused, ExactBridge, Deploy, Deployed, ContinueDeployed,
         ActivateControl, RestoreQueue, RestoreCron, Finish, remote
<1>2. CASE \/ StopCron \/ ObserveDrained("drain1", "drain2")
           \/ ObserveDrained("drain2", "pause") \/ PauseQueue \/ Quiesce
  <2>1. /\ Same /\ cli.pc \in QuiescePcs \ {"bookmark"}
        /\ cli'.pc \in {"drain1", "drain2", "pause", "quiesce", "bookmark"}
    BY <1>2, QuiescePc
  <2> QED BY <1>1, <2>1, FenceMoves DEF Same, FenceInv, QuiescePcs
<1>3. CASE RestoreSurface
  BY <1>1, <1>3, RestoreSurfacePc, FenceMoves DEF Same, FenceInv
<1>4. CASE ActivateControl /\ cli' = Idle
  BY <1>1, <1>4, IdleOK, FenceMoves DEF Schema
<1>5. CASE \E p \in {"loop", "fence0", "exact", "deployed", "activate", "cron", "finish",
                     "r_queue"} : Goto(p) /\ cli.pc \notin {"intent", "lease", "apply"}
  <2>1. PICK p \in {"loop", "fence0", "exact", "deployed", "activate", "cron", "finish",
                    "r_queue"} : Goto(p)
    BY <1>5
  <2>2. Same /\ cli'.pc = p
    BY <2>1, GotoPc DEF Pcs, TryPcs
  <2> QED BY <1>1, <1>5, <2>2, FenceMoves DEF Same, FenceInv
<1>6. CASE \/ StartRun \/ ExactPrepared \/ ContinuePaused \/ ExactBridge \/ Deploy
           \/ Deployed \/ ContinueDeployed \/ RestoreQueue \/ RestoreCron \/ Finish
  BY <1>5, <1>6 DEF StartRun, ExactPrepared, ContinuePaused, ExactBridge, Deploy, Deployed,
       ContinueDeployed, RestoreQueue, RestoreCron, Finish, At, LoopAt
<1>7. CASE ActivateControl
  BY <1>4, <1>5, <1>7 DEF ActivateControl, At, Goto
<1> QED BY <1>2, <1>3, <1>6, <1>7

\* The steps of a command that rewrite the lease row.
LEMMA LeaseFence ==
  ASSUME TypeInv, FenceInv, Own \/ Bootstrap \/ Acquire \/ ReleaseActivated
  PROVE  FenceInv'
<1>1. UNCHANGED <<applied, flight>> /\ cli.pc \in {"own", "bootstrap", "acquire", "loop"}
  BY DEF Own, Bootstrap, Acquire, ReleaseActivated, At, LoopAt
<1>2. /\ cli.env \in Env /\ cli.sha \in Sha /\ cli.owner \in Owner
      /\ lease[cli.env] \in Lease
  BY <1>1, RunningCli
<1>3. /\ Same
      /\ cli'.pc \in {"exact", "stop", "acquire", "start", "refence", "fence0", "unintent"}
  <2>1. CASE Bootstrap
    BY <2>1, GotoPc DEF Bootstrap, Pcs, TryPcs
  <2>2. CASE ReleaseActivated
    BY <2>2, GotoPc DEF ReleaseActivated, Pcs, TryPcs
  <2> QED BY <2>1, <2>2, OwnPc, AcquirePc
<1>4. ApplyIsFenced'
  <2>1. CASE Own
    <3> DEFINE l == Transitioned(lease[cli.env], lease[cli.env].phase, 0)
    <3>1. l \in Lease
      BY <1>2, LeaseOps DEF Lease
    <3>2. Quiet(cli.env) /\ lease' = [lease EXCEPT ![cli.env] = l]
      BY <1>2, <2>1, Unfenced DEF Own, ResumeAccepts, Here, SetLease
    <3> HIDE DEF l
    <3> QED BY <1>1, <1>2, <3>1, <3>2, LeaseMoves
  <2>2. CASE Bootstrap
    <3>1. lease' = [lease EXCEPT ![cli.env] = Bootstrapped(lease[cli.env])]
          /\ Bootstrapped(lease[cli.env]) \in Lease
      BY <1>2, <2>2, LeaseOps DEF Bootstrap, Here, SetLease
    <3>2. Quiet(cli.env) \/ Bootstrapped(lease[cli.env]) = lease[cli.env]
      BY <1>2, Unfenced DEF Bootstrapped
    <3> QED BY <1>1, <1>2, <3>1, <3>2, LeaseMoves
  <2>3. CASE Acquire
    <3> DEFINE l == Acquired(lease[cli.env], cli.owner, cli.sha)
    <3>1. lease' = [lease EXCEPT ![cli.env] = l] /\ l \in Lease
      BY <1>2, <2>3, LeaseOps DEF Acquire, Here, SetLease
    <3>2. CASE lease[cli.env].owner = cli.owner
      <4>1. /\ l.owner = lease[cli.env].owner /\ l.spawned = lease[cli.env].spawned
            /\ l.phase = lease[cli.env].phase
        BY <1>2, <3>2 DEF Acquired, Lease
      <4> HIDE DEF l
      <4> QED BY <1>1, <1>2, <3>1, <4>1, LeaseMoves
    <3>3. CASE lease[cli.env].owner # cli.owner
      <4>1. Quiet(cli.env)
        BY <1>2, <2>3, <3>3, Unfenced DEF Acquire, AcquireAccepts, Reclaimable, Here
      <4> HIDE DEF l
      <4> QED BY <1>1, <1>2, <3>1, <4>1, LeaseMoves
    <3> QED BY <3>2, <3>3
  <2>4. CASE ReleaseActivated
    <3>1. CASE UNCHANGED lease
      BY <1>1, <3>1 DEF FenceInv, ApplyIsFenced, Pending
    <3>2. CASE ReleaseAccepts(lease[cli.env], cli.owner) /\ SetLease(VacantLease)
      <4>1. Quiet(cli.env) /\ VacantLease \in Lease
        BY <1>2, <3>2, Unfenced, LeaseOps DEF ReleaseAccepts
      <4> QED BY <1>1, <1>2, <3>2, <4>1, LeaseMoves DEF SetLease, Here
    <3> QED BY <2>4, <3>1, <3>2 DEF ReleaseActivated, Here
  <2> QED BY <2>1, <2>2, <2>3, <2>4
<1>5. cli'.op \in Schema => Quiet(cli.env)'
  <2>1. cli'.op \in Schema => Quiet(cli.env)
    BY <1>1, <1>3 DEF FenceInv, Same
  <2> QED BY <1>1, <1>3, <2>1 DEF Same, Quiet, Pending
<1> QED BY <1>3, <1>4, <1>5 DEF FenceInv

LEMMA ReleasePreparedFence ==
  ASSUME TypeInv, FenceInv, ReleasePrepared
  PROVE  FenceInv'
<1>1. UNCHANGED <<applied, flight>> /\ cli.pc = "r_release"
  BY DEF ReleasePrepared, At
<1>2. /\ cli.env \in Env /\ cli.sha \in Sha /\ cli.owner \in Owner /\ cli.op \in Schema
      /\ lease[cli.env] \in Lease
  BY <1>1, RunningCli DEF CleanupPcs
<1>3. Quiet(cli.env)
  BY <1>1, <1>2 DEF FenceInv
<1>4. ApplyIsFenced'
  <2>1. CASE UNCHANGED lease
    BY <1>1, <2>1 DEF FenceInv, ApplyIsFenced, Pending
  <2>2. CASE SetLease(VacantLease)
    BY <1>1, <1>2, <1>3, <2>2, LeaseMoves, LeaseOps DEF SetLease, Here
  <2> QED BY <2>1, <2>2 DEF ReleasePrepared
<1>5. CASE cli' = Idle
  BY <1>4, <1>5, IdleOK DEF FenceInv, Schema
<1>6. CASE cli' = [cli EXCEPT !.pc = "r_intent"]
  <2>1. Same /\ cli'.pc = "r_intent"
    BY <1>6, GotoPc DEF Goto, Pcs, TryPcs
  <2> QED BY <1>1, <1>3, <1>4, <2>1 DEF FenceInv, Same, Quiet, Pending
<1> QED BY <1>5, <1>6 DEF ReleasePrepared


\* The two fences of an apply, and the one of the incident recovery.
LEMMA FenceFence ==
  ASSUME TypeInv, FenceInv, FenceMigrating \/ FenceSpawned \/ FenceRecovery
  PROVE  FenceInv'
<1>1. UNCHANGED <<applied, flight>> /\ cli.pc \in {"fence0", "fence1", "refence"}
  BY DEF FenceMigrating, FenceSpawned, FenceRecovery, Fence, At
<1>2. /\ cli.env \in Env /\ cli.sha \in Sha /\ cli.owner \in Owner
      /\ lease[cli.env] \in Lease
  BY <1>1, RunningCli
<1>3. Quiet(cli.env)
  <2>1. CASE FenceSpawned
    BY <2>1 DEF FenceSpawned, Fence, At, FenceInv
  <2>2. CASE FenceMigrating \/ FenceRecovery
    <3>1. lease[cli.env].phase # "migrating"
      BY <2>2 DEF FenceMigrating, FenceRecovery, Fence, TransitionAccepts, Here
    <3> QED BY <1>2, <3>1, Unfenced
  <2> QED BY <2>1, <2>2
<1> DEFINE L(n) == Transitioned(lease[cli.env], "migrating", n)
<1>4. /\ L(0) \in Lease /\ L(1) \in Lease
      /\ L(1).phase = "migrating" /\ L(1).spawned = 1 /\ L(1).owner = lease[cli.env].owner
  BY <1>2, LeaseOps DEF HeldPhases
<1> HIDE DEF L
<1>5. CASE FenceMigrating
  <2>1. lease' = [lease EXCEPT ![cli.env] = L(0)] /\ Same /\ cli'.pc = "fence1"
    BY <1>5, GotoPc DEF FenceMigrating, Fence, SetLease, Here, L, Pcs, TryPcs
  <2>2. ApplyIsFenced'
    BY <1>1, <1>2, <1>3, <1>4, <2>1, LeaseMoves
  <2> QED BY <1>1, <1>3, <2>1, <2>2 DEF FenceInv, Same, Quiet, Pending
<1>6. CASE FenceSpawned \/ FenceRecovery
  <2>1. /\ lease' = [lease EXCEPT ![cli.env] = L(1)] /\ lease[cli.env].owner = cli.owner
        /\ Goto("spawn")
    BY <1>6 DEF FenceSpawned, FenceRecovery, Fence, SetLease, TransitionAccepts, Here, L
  <2>2. Same /\ cli'.pc = "spawn" /\ cli'.owner = cli.owner
    BY <2>1, GotoPc DEF Pcs, TryPcs
  <2>3. ApplyIsFenced' /\ \A x \in Env : lease'[x] = IF x = cli.env THEN L(1) ELSE lease[x]
    <3> DEFINE l == L(1)
    <3>1. l \in Lease /\ lease' = [lease EXCEPT ![cli.env] = l]
      BY <1>4, <2>1
    <3> HIDE DEF l
    <3>2. ApplyIsFenced' /\ \A x \in Env : lease'[x] = IF x = cli.env THEN l ELSE lease[x]
      BY <1>1, <1>2, <1>3, <3>1, LeaseMoves
    <3> QED BY <3>2 DEF l
  <2>4. lease'[cli.env] = L(1)
    BY <1>2, <2>3
  <2> QED BY <1>1, <1>3, <1>4, <2>1, <2>2, <2>3, <2>4 DEF FenceInv, Same, Quiet, Pending
<1> QED BY <1>5, <1>6

LEMMA ApplyFence ==
  ASSUME TypeInv, FenceInv, SpawnApply \/ ApplyReturns
  PROVE  FenceInv'
<1>1. UNCHANGED <<applied, lease>> /\ cli.pc \in {"spawn", "apply"}
  BY DEF SpawnApply, ApplyReturns, At
<1>2. cli.env \in Env /\ cli.owner \in Owner /\ flight \in [Env -> Owner \cup {NoOwner}]
  BY <1>1, RunningCli DEF TypeInv, RemoteOK
<1>3. CASE SpawnApply
  <2>1. /\ flight' = [flight EXCEPT ![cli.env] = cli.owner] /\ cli.pc = "spawn"
        /\ Same /\ cli'.pc = "apply"
    BY <1>3, GotoPc DEF SpawnApply, At, Here, Pcs, TryPcs
  <2>2. ApplyIsFenced'
    BY <1>1, <1>2, <2>1 DEF FenceInv, ApplyIsFenced, Pending
  <2> QED BY <2>1, <2>2 DEF FenceInv
<1>4. CASE ApplyReturns
  <2>1. flight' = [flight EXCEPT ![cli.env] = NoOwner]
    BY <1>4 DEF ApplyReturns, Here
  <2>2. \/ ~Pending(cli.env) /\ Goto("settle")
        \/ Goto("unsettle")
    BY <1>4 DEF ApplyReturns, Here
  <2>3. Same /\ cli'.pc \in {"settle", "unsettle"}
        /\ (cli'.pc = "settle" => ~Pending(cli.env))
    BY <2>2, GotoPc DEF Pcs, TryPcs
  <2>4. ApplyIsFenced' /\ Quiet(cli.env)'
    <3>1. \A e \in Env : flight'[e] \in {flight[e], NoOwner}
      BY <1>2, <2>1
    <3>2. flight'[cli.env] = NoOwner
      BY <1>2, <2>1
    <3>3. ApplyIsFenced'
      BY <1>1, <3>1 DEF FenceInv, ApplyIsFenced, Pending
    <3> QED BY <2>3, <3>2, <3>3 DEF Quiet, Same
  <2> QED BY <1>1, <2>3, <2>4 DEF FenceInv, Same, Pending
<1> QED BY <1>3, <1>4

LEMMA SettleFence ==
  ASSUME TypeInv, FenceInv, SettleApplied \/ SettleFailed
  PROVE  FenceInv'
<1>1. UNCHANGED <<applied, flight>> /\ cli.pc \in {"settle", "unsettle"}
  BY DEF SettleApplied, SettleFailed, At
<1>2. /\ cli.env \in Env /\ cli.sha \in Sha /\ cli.owner \in Owner
      /\ lease[cli.env] \in Lease
  BY <1>1, RunningCli
<1>3. Quiet(cli.env)
  BY <1>1 DEF FenceInv
<1>4. /\ Transitioned(lease[cli.env], "verifying", 0) \in Lease
      /\ Transitioned(lease[cli.env], "recovery_required", 1) \in Lease
  BY <1>2, LeaseOps DEF HeldPhases
<1>5. ApplyIsFenced'
  <2>1. CASE UNCHANGED lease
    BY <1>1, <2>1 DEF FenceInv, ApplyIsFenced, Pending
  <2>2. CASE lease' = [lease EXCEPT ![cli.env] = Transitioned(lease[cli.env], "verifying", 0)]
    BY <1>1, <1>2, <1>3, <1>4, <2>2, LeaseMoves
  <2>3. CASE lease' = [lease EXCEPT ![cli.env] =
                         Transitioned(lease[cli.env], "recovery_required", 1)]
    BY <1>1, <1>2, <1>3, <1>4, <2>3, LeaseMoves
  <2> QED BY <2>1, <2>2, <2>3 DEF SettleApplied, SettleFailed, SetLease, Here
<1>6. CASE SettleApplied
  <2>1. Same /\ cli'.pc = "exact"
    BY <1>6, GotoPc DEF SettleApplied, Pcs, TryPcs
  <2> QED BY <1>1, <1>3, <1>5, <2>1 DEF FenceInv, Same, Quiet, Pending
<1>7. CASE SettleFailed
  <2>1. cli' = Idle \/ (Same /\ cli'.pc \in {"r_release", "r_queue"})
    BY <1>7, AbortedPc DEF SettleFailed
  <2> QED BY <1>1, <1>3, <1>5, <2>1, IdleOK DEF FenceInv, Same, Quiet, Pending, Schema
<1> QED BY <1>6, <1>7

LEMMA RaiseFence ==
  ASSUME TypeInv, FenceInv, Raise \/ Exit
  PROVE  FenceInv'
<1>1. UNCHANGED <<lease, applied, flight>>
  BY DEF Raise, Exit, remote
<1>2. CASE cli' = Idle
  BY <1>1, <1>2, IdleOK, FenceMoves DEF Schema
<1>3. CASE cli.pc \in {"spawn", "settle"} /\ Goto("unsettle")
  BY <1>1, <1>3, GotoPc, FenceMoves DEF FenceInv, Same, Pcs, TryPcs
<1>4. CASE cli.pc \in TryPcs /\ cli' = Aborted
  BY <1>1, <1>2, <1>4, AbortedPc, FenceMoves DEF FenceInv, Same, TryPcs
<1> QED BY <1>2, <1>3, <1>4 DEF Raise, Exit

LEMMA LaunchFence ==
  ASSUME TypeInv, FenceInv,
         \/ \E e \in Env : Activate(e) \/ Prepare(e) \/ Repair(e)
         \/ \E r \in ReceiptId : Resume(r)
  PROVE  FenceInv'
<1>1. CASE \E e \in Env : Activate(e) \/ Prepare(e) \/ Repair(e)
  <2>1. cli'.pc = "intent" /\ UNCHANGED <<lease, applied, flight>>
    BY <1>1, LaunchPc DEF Activate, Prepare, Repair, Launch, remote
  <2> QED BY <2>1, FenceMoves
<1>2. ASSUME NEW r \in ReceiptId, Resume(r)
      PROVE  FenceInv'
  <2> DEFINE e == receipt[r].env
             l == Transitioned(lease[e], lease[e].phase, lease[e].spawned)
  <2>1. cli'.pc = "loop" /\ cli'.op = "resume" /\ UNCHANGED <<applied, flight>> /\ e \in Env
        /\ receipt[r].owner \in Owner /\ receipt[r].sha \in Sha
    BY <1>2, ResumePc DEF Resume, Receipt
  <2>2. lease[e] \in Lease
    BY <2>1 DEF TypeInv, RemoteOK
  <2>3. /\ l \in Lease /\ l.owner = lease[e].owner /\ l.spawned = lease[e].spawned
        /\ l.phase = lease[e].phase
    <3> DEFINE m == lease[e]
    <3>1. m \in Lease
      BY <2>2
    <3> HIDE DEF m
    <3>2. m.phase \in HeldPhases \cup {"absent", "vacant"} /\ m.spawned \in {0, 1}
      BY <3>1 DEF Lease
    <3>3. LET k == Transitioned(m, m.phase, m.spawned)
          IN  /\ k \in Lease /\ k.owner = m.owner /\ k.spawned = m.spawned
              /\ k.phase = m.phase
      BY <2>1, <3>1, <3>2, LeaseOps
    <3> QED BY <3>3 DEF m
  <2>4. lease' = lease \/ lease' = [lease EXCEPT ![e] = l]
    BY <1>2 DEF Resume
  <2> HIDE DEF l, e
  <2>5. ApplyIsFenced'
    <3>1. CASE lease' = lease
      BY <2>1, <3>1 DEF FenceInv, ApplyIsFenced, Pending
    <3>2. CASE lease' = [lease EXCEPT ![e] = l]
      BY <2>1, <2>3, <3>2, LeaseMoves
    <3> QED BY <2>4, <3>1, <3>2
  <2> QED BY <2>1, <2>5 DEF FenceInv, Schema
<1> QED BY <1>1, <1>2

LEMMA EnvironmentFence ==
  ASSUME TypeInv, FenceInv, NEW e \in Env,
         ApplyOne(e) \/ DetachedEnds(e) \/ Expire(e) \/ Worker(e)
  PROVE  FenceInv'
<1>1. cli' = cli /\ applied[e] \in Int /\ Migrations \in Int
      /\ flight \in [Env -> Owner \cup {NoOwner}] /\ applied \in [Env -> 0..Migrations]
  BY Constants DEF ApplyOne, DetachedEnds, Expire, Worker, TypeInv, RemoteOK
<1>2. CASE ApplyOne(e) \/ DetachedEnds(e)
  <2>1. /\ lease' = lease
        /\ \A x \in Env : flight'[x] \in {flight[x], NoOwner}
        /\ \A x \in Env : Pending(x)' => Pending(x)
    BY <1>1, <1>2 DEF ApplyOne, DetachedEnds, Pending
  <2>2. ApplyIsFenced' /\ \A x \in Env : Quiet(x) => Quiet(x)'
    BY <2>1 DEF FenceInv, ApplyIsFenced, Quiet
  <2>3. cli.pc = "idle" \/ cli.env \in Env
    BY RunningCli DEF TypeInv, CliOK
  <2>4. cli.op \in Schema => cli.pc # "idle"
    BY DEF TypeInv, CliOK, SchemaPcs, TryPcs, CleanupPcs
  <2> QED BY <1>1, <2>1, <2>2, <2>3, <2>4 DEF FenceInv
<1>3. CASE Expire(e)
  <2> DEFINE l == [lease[e] EXCEPT !.expired = TRUE]
  <2>1. lease[e] \in Lease /\ lease' = [lease EXCEPT ![e] = l] /\ UNCHANGED <<applied, flight>>
    BY <1>3 DEF Expire, TypeInv, RemoteOK
  <2>2. l \in Lease /\ l.owner = lease[e].owner /\ l.spawned = lease[e].spawned
        /\ l.phase = lease[e].phase
    BY <2>1 DEF Lease
  <2> HIDE DEF l
  <2>3. ApplyIsFenced' /\ \A x \in Env : lease'[x] = IF x = e THEN l ELSE lease[x]
    BY <2>1, <2>2, LeaseMoves
  <2>4. cli.pc = "spawn" => cli.env \in Env
    BY RunningCli
  <2> QED BY <1>1, <2>1, <2>2, <2>3, <2>4 DEF FenceInv, Quiet, Pending
<1>4. CASE Worker(e)
  BY <1>1, <1>4 DEF Worker, FenceInv, ApplyIsFenced, Quiet, Pending
<1> QED BY <1>2, <1>3, <1>4

LEMMA FenceInit == Init => FenceInv
<1> SUFFICES ASSUME Init PROVE FenceInv
  OBVIOUS
<1>1. ApplyIsFenced
  BY DEF Init, ApplyIsFenced
<1> QED BY <1>1, IdleOK DEF Init, FenceInv, Schema

LEMMA FenceNext == TypeInv /\ FenceInv /\ [Next]_vars => FenceInv'
<1> SUFFICES ASSUME TypeInv, FenceInv, [Next]_vars PROVE FenceInv'
  OBVIOUS
<1>1. CASE Step
  BY <1>1, FilesFence, LeaseSeenFence, WorkFence, LeaseFence, ReleasePreparedFence,
     FenceFence, ApplyFence, SettleFence DEF Step
<1>2. CASE Merge \/ UNCHANGED vars
  BY <1>2 DEF Merge, vars, remote, FenceInv, ApplyIsFenced, Quiet, Pending
<1> QED BY <1>1, <1>2, LaunchFence, RaiseFence, EnvironmentFence DEF Next

LEMMA CutoverFence == Spec => [](TypeInv /\ FenceInv)
<1>1. Init => TypeInv /\ FenceInv
  BY TypeInit, FenceInit
<1>2. (TypeInv /\ FenceInv) /\ [Next]_vars => (TypeInv /\ FenceInv)'
  BY TypeNext, FenceNext
<1> QED BY <1>1, <1>2, PTL DEF Spec

\* ApplyIsFenced for any commits, environments and migrations, however often the
\* operator is killed and started again: a Wrangler process that may still touch
\* the schema belongs to the owner of a lease nobody can take over or release.
THEOREM CutoverApplyIsFenced == Spec => []ApplyIsFenced
<1>1. TypeInv /\ FenceInv => ApplyIsFenced
  BY DEF FenceInv
<1> QED BY <1>1, CutoverFence, PTL

-----------------------------------------------------------------------------
(* Activation.                                                             *)

\* The steps of a command that touch neither the chain nor the control and run rows.
Aside ==
  \/ LoadIntent \/ RemoveIntent \/ SaveReceipt \/ PrepareLease \/ RepairLease \/ Own
  \/ StopCron \/ ObserveDrained("drain1", "drain2") \/ ObserveDrained("drain2", "pause")
  \/ PauseQueue \/ Quiesce \/ Bootstrap \/ Acquire
  \/ FenceMigrating \/ FenceSpawned \/ FenceRecovery \/ SpawnApply \/ ApplyReturns
  \/ SettleApplied \/ SettleFailed \/ ContinuePaused \/ Deploy \/ ReleaseActivated
  \/ ExactPrepared \/ RestoreSurface \/ ReleasePrepared \/ Raise \/ Exit

LEMMA AsideRows ==
  ASSUME Aside
  PROVE  UNCHANGED <<applied, control, runPhase>> /\ (receipt' = receipt \/ SaveReceipt)
BY DEF Aside, LoadIntent, RemoveIntent, SaveReceipt, PrepareLease, RepairLease, Own,
       StopCron, ObserveDrained, PauseQueue, Quiesce, Bootstrap, Acquire, FenceMigrating,
       FenceSpawned, FenceRecovery, Fence, SpawnApply, ApplyReturns, SettleApplied,
       SettleFailed, ContinuePaused, Deploy, ReleaseActivated, ExactPrepared,
       RestoreSurface, RestorePart, ReleasePrepared, Raise, Exit, remote, files

\* Where they take the command: never back to the start or into an activation.
LEMMA AsidePc ==
  ASSUME TypeInv, Aside
  PROVE  cli'.pc \notin {"intent", "activate", "cron", "finish"}
<1>1. CASE \E p \in Pcs \ {"intent", "activate", "cron", "finish"} : Goto(p)
  BY <1>1, GotoPc
<1>2. CASE \/ Bootstrap \/ FenceMigrating \/ FenceSpawned \/ FenceRecovery \/ SpawnApply
           \/ ApplyReturns \/ SettleApplied \/ ContinuePaused \/ Deploy \/ ReleaseActivated
           \/ ExactPrepared
  <2>1. \E p \in {"acquire", "fence0", "fence1", "spawn", "apply", "settle", "unsettle",
                  "exact", "deployed", "unintent", "r_queue"} : Goto(p)
    BY <1>2 DEF Bootstrap, FenceMigrating, FenceSpawned, FenceRecovery, Fence, SpawnApply,
         ApplyReturns, SettleApplied, ContinuePaused, Deploy, ReleaseActivated, ExactPrepared
  <2> QED BY <1>1, <2>1 DEF Pcs, TryPcs
<1>3. CASE \/ LoadIntent \/ SaveReceipt \/ PrepareLease \/ RepairLease \/ Own \/ Acquire
           \/ RestoreSurface
  BY <1>3, LoadIntentPc, SaveReceiptPc, LeasePc, OwnPc, AcquirePc, RestoreSurfacePc
<1>4. CASE \/ StopCron \/ ObserveDrained("drain1", "drain2")
           \/ ObserveDrained("drain2", "pause") \/ PauseQueue \/ Quiesce
  BY <1>4, QuiescePc
<1>5. CASE cli' = Idle \/ cli' = Aborted
  BY <1>5, IdleOK, AbortedPc
<1>6. CASE ReleasePrepared
  <2>1. cli' = Idle \/ Goto("r_intent")
    BY <1>6 DEF ReleasePrepared, Goto
  <2> QED BY <1>1, <1>5, <2>1 DEF Pcs
<1>7. CASE RemoveIntent \/ SettleFailed \/ Raise \/ Exit
  <2>1. cli' = Idle \/ cli' = Aborted \/ Goto("unsettle")
    BY <1>7 DEF RemoveIntent, SettleFailed, Raise, Exit
  <2> QED BY <1>1, <1>5, <2>1 DEF Pcs
<1> QED BY <1>2, <1>3, <1>4, <1>6, <1>7 DEF Aside

\* Where a run goes from one phase of _continue to the next.
LEMMA RunPc ==
  ASSUME TypeInv,
         \/ StartRun \/ ExactBridge \/ Deployed \/ ContinueDeployed
         \/ RestoreQueue \/ RestoreCron \/ Finish
  PROVE  /\ Same /\ cli'.pc \in {"loop", "activate", "cron", "finish"}
         /\ cli'.pc = "activate" => ContinueDeployed
         /\ cli'.pc = "cron" => RestoreQueue
         /\ cli'.pc = "finish" => RestoreCron
<1>1. CASE ContinueDeployed
  <2>1. Goto("activate")
    BY <1>1 DEF ContinueDeployed
  <2> QED BY <1>1, <2>1, GotoPc DEF Pcs
<1>2. CASE RestoreQueue
  <2>1. Goto("cron")
    BY <1>2 DEF RestoreQueue
  <2> QED BY <1>2, <2>1, GotoPc DEF Pcs
<1>3. CASE RestoreCron
  <2>1. Goto("finish")
    BY <1>3 DEF RestoreCron
  <2> QED BY <1>3, <2>1, GotoPc DEF Pcs
<1>4. CASE StartRun \/ ExactBridge \/ Deployed \/ Finish
  <2>1. Goto("loop")
    BY <1>4 DEF StartRun, ExactBridge, Deployed, Finish
  <2> QED BY <2>1, GotoPc DEF Pcs
<1> QED BY <1>1, <1>2, <1>3, <1>4

LEMMA ActivateControlPc ==
  ASSUME TypeInv, ActivateControl
  PROVE  cli'.pc \in {"idle", "loop"}
<1>1. cli' = Idle \/ Goto("loop")
  BY DEF ActivateControl, Goto
<1> QED BY <1>1, IdleOK, GotoPc DEF Pcs

\* A run row keeps the receipt it belongs to.
LEMMA RowsKeepReceipt ==
  ASSUME TypeInv, SaveReceipt
  PROVE  \A r \in ReceiptId : receipt[r] # NoReceipt => receipt'[r] = receipt[r]
<1>1. PICK k \in 0..MaxReceipt : Filed = 1..k /\ NextReceipt = k + 1
  BY NextReceiptIs DEF TypeInv
<1>2. NextReceipt \notin Filed
  BY <1>1, Constants
<1>3. receipt \in [ReceiptId -> Receipt \cup {NoReceipt}]
  BY DEF TypeInv, LocalOK
<1> DEFINE n == NextReceipt
<1>4. \/ receipt' = receipt
      \/ \E v : receipt' = [receipt EXCEPT ![n] = v]
  BY DEF SaveReceipt
<1> HIDE DEF n
<1>5. \A r \in ReceiptId : r # n => receipt'[r] = receipt[r]
  BY <1>3, <1>4
<1> QED BY <1>2, <1>5 DEF n, Filed

\* The phases of a run row after its migrations.
Bridged(phase) == phase \notin {"none", "queue_paused"}

\* The inductive invariant of ActivationHolds: the first migration creates the
\* control row, and an activation is under way only where all are applied.
ControlInv ==
  /\ ActivationHolds
  /\ \A e \in Env : control[e] = "absent" => Pending(e)
  /\ \A r \in ReceiptId : Bridged(runPhase[r]) => ~Pending(receipt[r].env)
  /\ cli.pc \in {"activate", "cron", "finish"} => ~Pending(cli.env)

LEMMA ControlMoves ==
  ASSUME TypeInv, ControlInv, UNCHANGED <<applied, control>>,
         \A r \in ReceiptId : receipt[r] # NoReceipt => receipt'[r] = receipt[r],
         \A r \in ReceiptId : runPhase'[r] \in {"v3_active", "activated"} =>
            runPhase[r] \in {"v3_active", "activated"},
         \A r \in ReceiptId : Bridged(runPhase'[r]) =>
            Bridged(runPhase[r]) \/ (receipt[r] # NoReceipt /\ ~Pending(receipt[r].env)),
         cli'.pc \in {"activate", "cron", "finish"} => ~Pending(cli'.env)
  PROVE  ControlInv'
<1>1. \A r \in ReceiptId : runPhase[r] # "none" => receipt[r] # NoReceipt
  BY DEF TypeInv, RemoteOK
<1>2. ActivationHolds'
  BY <1>1 DEF ControlInv, ActivationHolds, Pending
<1>3. \A r \in ReceiptId : Bridged(runPhase'[r]) => ~Pending(receipt'[r].env)
  BY <1>1 DEF ControlInv, Bridged
<1> QED BY <1>2, <1>3 DEF ControlInv, Pending

LEMMA AsideControl ==
  ASSUME TypeInv, ControlInv, Aside
  PROVE  ControlInv'
<1>1. UNCHANGED <<applied, control, runPhase>>
  BY AsideRows
<1>2. \A r \in ReceiptId : receipt[r] # NoReceipt => receipt'[r] = receipt[r]
  BY AsideRows, RowsKeepReceipt
<1> QED BY <1>1, <1>2, AsidePc, ControlMoves

LEMMA LaunchControl ==
  ASSUME TypeInv, ControlInv,
         \/ \E e \in Env : Activate(e) \/ Prepare(e) \/ Repair(e)
         \/ \E r \in ReceiptId : Resume(r)
  PROVE  ControlInv'
<1>1. UNCHANGED <<applied, control, runPhase, receipt>>
  BY DEF Activate, Prepare, Repair, Launch, Resume, remote, files
<1>2. cli'.pc \in {"intent", "loop"}
  BY LaunchPc, ResumePc DEF Activate, Prepare, Repair
<1> QED BY <1>1, <1>2, ControlMoves

\* _start and the phases of _continue before and after the control row is activated.
LEMMA RunControl ==
  ASSUME TypeInv, ControlInv,
         \/ StartRun \/ ExactBridge \/ Deployed \/ ContinueDeployed
         \/ RestoreQueue \/ RestoreCron \/ Finish
  PROVE  ControlInv'
<1>1. /\ UNCHANGED <<applied, control, receipt>>
      /\ cli.pc \in {"start", "exact", "deployed", "loop", "cron", "finish"}
  BY DEF StartRun, ExactBridge, Deployed, ContinueDeployed, RestoreQueue, RestoreCron,
         Finish, At, LoopAt, files, remote
<1>2. /\ Same /\ cli'.pc \in {"loop", "activate", "cron", "finish"}
      /\ cli'.pc = "activate" => ContinueDeployed
      /\ cli'.pc = "cron" => RestoreQueue
      /\ cli'.pc = "finish" => RestoreCron
  BY RunPc
<1>3. \A r \in ReceiptId : runPhase'[r] \in {"v3_active", "activated"} =>
         runPhase[r] \in {"v3_active", "activated"}
  <2>1. runPhase \in [ReceiptId -> RunPhases]
    BY DEF TypeInv, RemoteOK
  <2> QED BY <2>1 DEF StartRun, ExactBridge, Deployed, ContinueDeployed, RestoreQueue,
       RestoreCron, Finish, Advance, MyPhase, remote
<1>4. cli'.pc \in {"activate", "cron", "finish"} => ~Pending(cli.env)
  <2>1. CASE ContinueDeployed
    BY <2>1 DEF ContinueDeployed, Drained, Here
  <2>2. CASE RestoreQueue
    <3>1. cli.pc = "loop" /\ runPhase[cli.rid] = "v3_active"
      BY <2>2 DEF RestoreQueue, LoopAt, At, MyPhase
    <3>2. cli.rid \in ReceiptId /\ receipt[cli.rid].env = cli.env
      BY <3>1, RunPcs, RunOfCli
    <3> QED BY <3>1, <3>2 DEF ControlInv, ActivationHolds
  <2>3. CASE RestoreCron
    BY <2>3 DEF RestoreCron, At, ControlInv
  <2> QED BY <1>2, <2>1, <2>2, <2>3
<1>5. \A r \in ReceiptId : Bridged(runPhase'[r]) =>
         Bridged(runPhase[r]) \/ (receipt[r] # NoReceipt /\ ~Pending(receipt[r].env))
  <2>0. runPhase \in [ReceiptId -> RunPhases]
    BY DEF TypeInv, RemoteOK
  <2>1. CASE ExactBridge
    <3>1. /\ runPhase' = [runPhase EXCEPT ![cli.rid] = "bridge_established"]
          /\ cli.op \notin Schema /\ cli.pc = "exact" /\ ~Pending(cli.env)
      BY <2>1 DEF ExactBridge, Advance, At, Drained, Here
    <3>2. cli.rid \in ReceiptId /\ receipt[cli.rid].env = cli.env /\ receipt[cli.rid] # NoReceipt
      BY <3>1, RunOfCli DEF LoopPcs, TypeInv, CliOK
    <3> QED BY <2>0, <3>1, <3>2
  <2>2. CASE ~ExactBridge
    <3>1. \A r \in ReceiptId : runPhase'[r] = runPhase[r] \/ Bridged(runPhase[r])
                                                  \/ ~Bridged(runPhase'[r])
      BY <2>0, <2>2 DEF StartRun, Deployed, ContinueDeployed, RestoreQueue, RestoreCron, Finish,
         Advance, MyPhase, remote, Bridged
    <3> QED BY <3>1
  <2> QED BY <2>1, <2>2
<1> QED BY <1>1, <1>2, <1>3, <1>4, <1>5, ControlMoves DEF Same

LEMMA ActivateControlControl ==
  ASSUME TypeInv, ControlInv, ActivateControl
  PROVE  ControlInv'
<1>1. /\ cli.pc = "activate" /\ UNCHANGED <<applied, receipt>>
      /\ control' = [control EXCEPT ![cli.env] = IF control[cli.env] = "bridge"
                                                 THEN cli.sha ELSE @]
      /\ runPhase' = [runPhase EXCEPT ![cli.rid] = "v3_active"]
  BY DEF ActivateControl, At, Here, Advance, files
<1>2. /\ cli.env \in Env /\ cli.sha \in Sha /\ cli.rid \in ReceiptId
      /\ receipt[cli.rid].env = cli.env /\ ~Pending(cli.env)
  BY <1>1, RunPcs, RunOfCli DEF ControlInv
<1>3. /\ control \in [Env -> {"absent", "bridge"} \cup Sha]
      /\ runPhase \in [ReceiptId -> RunPhases]
  BY DEF TypeInv, RemoteOK
<1>4. control'[cli.env] \in Sha
  BY <1>1, <1>2, <1>3 DEF ControlInv
<1>5. \A e \in Env : control'[e] = control[e] \/ (e = cli.env /\ control[e] = "bridge")
  BY <1>1, <1>2, <1>3
<1>6. \A r \in ReceiptId : runPhase'[r] = runPhase[r] \/ r = cli.rid
  BY <1>1, <1>3
<1>7. ActivationHolds'
  <2> SUFFICES ASSUME NEW r \in ReceiptId, runPhase'[r] \in {"v3_active", "activated"}
               PROVE  control'[receipt[r].env] \in Sha /\ ~Pending(receipt[r].env)
    BY <1>1 DEF ActivationHolds, Pending
  <2>1. CASE receipt[r].env = cli.env
    BY <1>2, <1>4, <2>1
  <2>2. CASE receipt[r].env # cli.env
    <3>1. runPhase[r] \in {"v3_active", "activated"}
      BY <1>2, <1>6, <2>2
    <3>2. receipt[r] # NoReceipt /\ receipt[r].env \in Env
      BY <3>1 DEF TypeInv, RemoteOK, LocalOK, Receipt
    <3> QED BY <1>5, <2>2, <3>1, <3>2 DEF ControlInv, ActivationHolds
  <2> QED BY <2>1, <2>2
<1>8. cli'.pc \notin {"activate", "cron", "finish"}
  BY ActivateControlPc
<1>9. \A e \in Env : control'[e] = "absent" => control[e] = "absent"
  BY <1>2, <1>4, <1>5, CutoverAssumption
<1>10. \A r \in ReceiptId : Bridged(runPhase'[r]) => ~Pending(receipt[r].env)
  BY <1>2, <1>6 DEF ControlInv
<1> QED BY <1>1, <1>7, <1>8, <1>9, <1>10 DEF ControlInv, Pending

LEMMA EnvironmentControl ==
  ASSUME TypeInv, ControlInv, NEW e \in Env,
         ApplyOne(e) \/ DetachedEnds(e) \/ Expire(e) \/ Worker(e)
  PROVE  ControlInv'
<1>1. cli' = cli /\ UNCHANGED <<runPhase, receipt>>
  BY DEF ApplyOne, DetachedEnds, Expire, Worker, files
<1>2. CASE UNCHANGED <<applied, control>>
  <2> QED BY <1>1, <1>2, ControlMoves DEF ControlInv
<1>3. CASE ApplyOne(e)
  <2>1. /\ applied \in [Env -> 0..Migrations] /\ applied[e] \in Int /\ Migrations \in Int
        /\ control \in [Env -> {"absent", "bridge"} \cup Sha]
    BY Constants DEF TypeInv, RemoteOK
  <2>2. \A x \in Env : Pending(x)' => Pending(x)
    BY <1>3, <2>1 DEF ApplyOne, Pending
  <2>3. \A x \in Env : control'[x] = control[x] \/ (x = e /\ control'[x] = "bridge")
    BY <1>3, <2>1 DEF ApplyOne
  <2>4. control'[e] # "absent"
    BY <1>3, <2>1 DEF ApplyOne
  <2>5. \A x \in Env : x # e => applied'[x] = applied[x]
    BY <1>3, <2>1 DEF ApplyOne
  <2>6. Pending(e)
    BY <1>3 DEF ApplyOne
  <2>7. ActivationHolds'
    <3> SUFFICES ASSUME NEW r \in ReceiptId, runPhase[r] \in {"v3_active", "activated"}
                 PROVE  control'[receipt[r].env] \in Sha /\ ~Pending(receipt[r].env)'
      BY <1>1 DEF ActivationHolds, Pending
    <3>1. receipt[r] # NoReceipt /\ receipt[r].env \in Env
      BY DEF TypeInv, RemoteOK, LocalOK, Receipt
    <3>2. control[receipt[r].env] \in Sha /\ ~Pending(receipt[r].env)
      BY DEF ControlInv, ActivationHolds
    <3>3. receipt[r].env # e
      BY <2>6, <3>2
    <3>4. ~Pending(receipt[r].env)'
      BY <1>1, <2>5, <3>1, <3>2, <3>3 DEF Pending
    <3> QED BY <2>3, <3>1, <3>2, <3>3, <3>4
  <2>8. \A x \in Env : control'[x] = "absent" => Pending(x)'
    BY <2>3, <2>4, <2>5 DEF ControlInv, Pending
  <2>9. cli.pc \in {"activate", "cron", "finish"} => cli.env \in Env
    BY RunningCli
  <2>10. \A r \in ReceiptId : Bridged(runPhase[r]) => receipt[r] # NoReceipt /\ receipt[r].env \in Env
    BY DEF TypeInv, RemoteOK, LocalOK, Receipt, Bridged
  <2>11. \A r \in ReceiptId : Bridged(runPhase[r])' => ~Pending(receipt[r].env)'
    <3> SUFFICES ASSUME NEW r \in ReceiptId, Bridged(runPhase[r])
                 PROVE  ~Pending(receipt[r].env)'
      BY <1>1 DEF Bridged
    <3>1. ~Pending(receipt[r].env) /\ receipt[r].env \in Env
      BY <2>10 DEF ControlInv
    <3>2. PICK x \in Env : x = receipt[r].env
      BY <3>1
    <3>3. ~Pending(x)' /\ receipt'[r].env = x
      BY <1>1, <2>2, <3>1, <3>2
    <3> QED BY <3>3 DEF Pending
  <2>12. cli'.pc \in {"activate", "cron", "finish"} => ~Pending(cli.env)'
    <3> SUFFICES ASSUME cli.pc \in {"activate", "cron", "finish"} PROVE ~Pending(cli.env)'
      BY <1>1
    <3>1. PICK x \in Env : x = cli.env
      BY <2>9
    <3>2. ~Pending(x)
      BY <3>1 DEF ControlInv
    <3>3. ~Pending(x)'
      BY <2>2, <3>2
    <3> QED BY <1>1, <3>1, <3>3 DEF Pending
  <2> QED BY <2>7, <2>8, <2>11, <2>12 DEF ControlInv
<1> QED BY <1>2, <1>3 DEF DetachedEnds, Expire, Worker

LEMMA ControlInit == Init => ControlInv
BY IdleOK, CutoverAssumption DEF Init, ControlInv, ActivationHolds, Pending, Bridged

LEMMA ControlNext == TypeInv /\ ControlInv /\ [Next]_vars => ControlInv'
<1> SUFFICES ASSUME TypeInv, ControlInv, [Next]_vars PROVE ControlInv'
  OBVIOUS
<1>1. CASE Step \/ Raise \/ Exit
  BY <1>1, AsideControl, RunControl, ActivateControlControl DEF Step, Aside
<1>2. CASE Merge \/ UNCHANGED vars
  BY <1>2 DEF Merge, vars, remote, files, ControlInv, ActivationHolds, Pending
<1> QED BY <1>1, <1>2, LaunchControl, EnvironmentControl DEF Next

LEMMA CutoverControl == Spec => [](TypeInv /\ ControlInv)
<1>1. Init => TypeInv /\ ControlInv
  BY TypeInit, ControlInit
<1>2. (TypeInv /\ ControlInv) /\ [Next]_vars => (TypeInv /\ ControlInv)'
  BY TypeNext, ControlNext
<1> QED BY <1>1, <1>2, PTL DEF Spec

\* ActivationHolds for any number of runs of any commits, started, killed and
\* resumed in any order: a run row that says v3_active or activated belongs to an
\* environment with every migration applied and an activated commit in its
\* control row (_activate_control).
THEOREM CutoverActivationHolds == Spec => []ActivationHolds
<1>1. TypeInv /\ ControlInv => ActivationHolds
  BY DEF ControlInv
<1> QED BY <1>1, CutoverControl, PTL

-----------------------------------------------------------------------------
(* No migration lands while the JSDA Worker may run.                       *)

Still(e) == surface[e] = [cron |-> "off", paused |-> TRUE] /\ work[e] # "running"

\* The program points between the quiescence check and the start of an apply.
StillPcs == {"bookmark", "bootstrap", "acquire", "fence0", "fence1", "refence", "spawn"}

\* The inductive invariant of MigratesQuiesced: whatever applies migrations, also
\* the child of an operator that is gone, does so on a still Worker.
StillInv ==
  /\ \A e \in Env : Quiet(e) \/ Still(e)
  /\ cli.pc \in StillPcs => Still(cli.env)

\* The steps that leave the surface and the job alone.
Calm ==
  \/ LoadIntent \/ RemoveIntent \/ SaveReceipt \/ PrepareLease \/ RepairLease \/ Own
  \/ ObserveDrained("drain1", "drain2") \/ ObserveDrained("drain2", "pause")
  \/ Quiesce \/ Bootstrap \/ Acquire \/ StartRun
  \/ FenceMigrating \/ FenceSpawned \/ FenceRecovery \/ ApplyReturns
  \/ SettleApplied \/ SettleFailed \/ ContinuePaused \/ ExactBridge \/ Deployed
  \/ ContinueDeployed \/ ActivateControl \/ Finish \/ ReleaseActivated
  \/ ExactPrepared \/ ReleasePrepared \/ Raise \/ Exit

LEMMA CalmRows ==
  ASSUME TypeInv, Calm
  PROVE  /\ UNCHANGED <<surface, work, applied>>
         /\ \A e \in Env : flight'[e] \in {flight[e], NoOwner}
<1>1. UNCHANGED <<surface, work, applied>> /\ (UNCHANGED flight \/ ApplyReturns)
  BY DEF Calm, LoadIntent, RemoveIntent, SaveReceipt, PrepareLease, RepairLease, Own,
       ObserveDrained, Quiesce, Bootstrap, Acquire, StartRun, FenceMigrating,
       FenceSpawned, FenceRecovery, Fence, ApplyReturns, SettleApplied,
       SettleFailed, ContinuePaused, ExactBridge, Deployed, ContinueDeployed,
       ActivateControl, Finish, ReleaseActivated, ExactPrepared, ReleasePrepared, Raise,
       Exit, remote
<1>2. flight \in [Env -> Owner \cup {NoOwner}]
  BY DEF TypeInv, RemoteOK
<1> QED BY <1>1, <1>2 DEF ApplyReturns

\* A command comes between quiescence and apply by a check of the surface alone.
LEMMA CalmPc ==
  ASSUME TypeInv, Calm, cli'.pc \in StillPcs
  PROVE  Same /\ (cli.pc \in StillPcs \/ Still(cli.env))
<1> USE DEF StillPcs
<1>1. CASE \E p \in Pcs \ StillPcs : Goto(p)
  BY <1>1, GotoPc
<1>2. CASE \/ ObserveDrained("drain1", "drain2") \/ ObserveDrained("drain2", "pause")
           \/ ApplyReturns \/ SettleApplied \/ StartRun \/ ExactBridge \/ Deployed
           \/ ContinueDeployed \/ Finish \/ ReleaseActivated \/ ExactPrepared
  <2>1. \E p \in {"drain2", "pause", "settle", "unsettle", "exact", "loop",
                  "activate", "unintent", "r_queue"} : Goto(p)
    BY <1>2 DEF ObserveDrained, ApplyReturns, SettleApplied, StartRun, ExactBridge,
         Deployed, ContinueDeployed, Finish, ReleaseActivated, ExactPrepared
  <2> QED BY <1>1, <2>1 DEF Pcs, TryPcs
<1>3. CASE LoadIntent \/ PrepareLease \/ RepairLease \/ Own
  BY <1>3, LoadIntentPc, LeasePc, OwnPc
<1>4. CASE SaveReceipt \/ Acquire
  BY <1>4, SaveReceiptPc, AcquirePc
<1>5. CASE cli' = Idle \/ cli' = Aborted
  BY <1>5, IdleOK, AbortedPc
<1>6. CASE RemoveIntent \/ SettleFailed \/ Raise \/ Exit \/ ActivateControl \/ ReleasePrepared
  <2>1. \/ cli' = Idle \/ cli' = Aborted
        \/ \E p \in {"unsettle", "loop", "r_intent"} : Goto(p)
    BY <1>6 DEF RemoveIntent, SettleFailed, Raise, Exit, ActivateControl, ReleasePrepared, Goto
  <2> QED BY <1>1, <1>5, <2>1 DEF Pcs, TryPcs
<1>7. CASE Bootstrap \/ FenceMigrating \/ FenceSpawned \/ FenceRecovery
  <2>1. PICK p \in {"acquire", "fence1", "spawn"} : Goto(p)
    BY <1>7 DEF Bootstrap, FenceMigrating, FenceSpawned, FenceRecovery, Fence
  <2>2. cli.pc \in StillPcs
    BY <1>7 DEF Bootstrap, FenceMigrating, FenceSpawned, FenceRecovery, Fence, At
  <2> QED BY <2>1, <2>2, GotoPc DEF Pcs, TryPcs
<1>8. CASE Quiesce \/ ContinuePaused
  <2>1. PICK p \in {"bookmark", "fence0", "exact"} : Goto(p)
    BY <1>8 DEF Quiesce, ContinuePaused
  <2>2. Still(cli.env)
    BY <1>8 DEF Quiesce, ContinuePaused, Drained, Here, Still
  <2> QED BY <2>1, <2>2, GotoPc DEF Pcs, TryPcs
<1> QED BY <1>2, <1>3, <1>4, <1>6, <1>7, <1>8 DEF Calm

LEMMA CalmStill ==
  ASSUME TypeInv, StillInv, Calm
  PROVE  StillInv'
<1>1. /\ UNCHANGED <<surface, work, applied>>
      /\ \A e \in Env : flight'[e] \in {flight[e], NoOwner}
  BY CalmRows
<1>2. \A e \in Env : (Quiet(e) \/ Still(e))'
  BY <1>1 DEF StillInv, Quiet, Still, Pending
<1>3. cli'.pc \in StillPcs => Still(cli.env)'
  BY <1>1, CalmPc DEF StillInv, Still, Same
<1> QED BY <1>2, <1>3 DEF StillInv

LEMMA LaunchStill ==
  ASSUME TypeInv, StillInv,
         \/ \E e \in Env : Activate(e) \/ Prepare(e) \/ Repair(e)
         \/ \E r \in ReceiptId : Resume(r)
  PROVE  StillInv'
<1>1. UNCHANGED <<surface, work, applied, flight>>
  BY DEF Activate, Prepare, Repair, Launch, Resume, remote
<1>2. cli'.pc \in {"intent", "loop"}
  BY LaunchPc, ResumePc DEF Activate, Prepare, Repair
<1> QED BY <1>1, <1>2 DEF StillInv, StillPcs, Quiet, Still, Pending

LEMMA SpawnStill ==
  ASSUME TypeInv, StillInv, SpawnApply
  PROVE  StillInv'
<1>1. /\ cli.pc = "spawn" /\ UNCHANGED <<surface, work, applied>>
      /\ flight' = [flight EXCEPT ![cli.env] = cli.owner]
  BY DEF SpawnApply, At, Here
<1>2. Still(cli.env) /\ flight \in [Env -> Owner \cup {NoOwner}]
  BY <1>1 DEF StillInv, StillPcs, TypeInv, RemoteOK
<1>3. \A e \in Env : flight'[e] = flight[e] \/ Still(e)
  BY <1>1, <1>2
<1>4. cli'.pc = "apply"
  BY GotoPc DEF SpawnApply, Pcs
<1> QED BY <1>1, <1>3, <1>4 DEF StillInv, StillPcs, Quiet, Still, Pending

LEMMA PausedStill ==
  ASSUME NEW s \in Surface, s = [cron |-> "off", paused |-> TRUE]
  PROVE  [s EXCEPT !.paused = TRUE] = [cron |-> "off", paused |-> TRUE]
<1>1. s.paused = TRUE
  OBVIOUS
<1>2. [s EXCEPT !.paused = s.paused] = s
  BY DEF Surface
<1>3. [s EXCEPT !.paused = TRUE] = s
  BY <1>1, <1>2, Zenon
<1> QED BY <1>3

\* Stopping the Cron and pausing the Queue keep a still Worker still.
LEMMA StopStill ==
  ASSUME TypeInv, StillInv, StopCron \/ PauseQueue
  PROVE  StillInv'
<1>1. UNCHANGED <<work, applied, flight>> /\ cli.pc \in {"stop", "pause"}
  BY DEF StopCron, PauseQueue, At
<1>2. cli.env \in Env /\ surface \in [Env -> Surface] /\ surface[cli.env] \in Surface
  BY <1>1, RunningCli DEF TypeInv, RemoteOK
<1>3. \A e \in Env : Still(e) => Still(e)'
  <2>1. CASE surface' = surface
    BY <1>1, <2>1 DEF Still
  <2>2. CASE SetPaused(TRUE)
    <3>1. /\ \A e \in Env : e # cli.env => surface'[e] = surface[e]
          /\ surface'[cli.env] = [surface[cli.env] EXCEPT !.paused = TRUE]
      BY <1>2, <2>2, SetSurface DEF SetPaused, Here
    <3>2. surface[cli.env] = [cron |-> "off", paused |-> TRUE] =>
            surface'[cli.env] = [cron |-> "off", paused |-> TRUE]
      BY <1>2, <3>1, PausedStill
    <3> QED BY <1>1, <3>1, <3>2 DEF Still
  <2>3. CASE SetCron("off")
    <3>1. /\ \A e \in Env : e # cli.env => surface'[e] = surface[e]
          /\ surface'[cli.env] = [surface[cli.env] EXCEPT !.cron = "off"]
      BY <1>2, <2>3, SetSurface DEF SetCron, Here
    <3>2. surface[cli.env] = [cron |-> "off", paused |-> TRUE] =>
            surface'[cli.env] = [cron |-> "off", paused |-> TRUE]
      BY <1>2, <3>1 DEF Surface
    <3> QED BY <1>1, <3>1, <3>2 DEF Still
  <2> QED BY <2>1, <2>2, <2>3 DEF StopCron, PauseQueue
<1>4. cli'.pc \notin StillPcs
  <2>1. CASE StopCron
    BY <2>1, GotoPc DEF StopCron, StillPcs, Pcs, TryPcs
  <2>2. CASE PauseQueue
    BY <2>2 DEF PauseQueue, StillPcs, TypeInv, Clis
  <2> QED BY <2>1, <2>2
<1> QED BY <1>1, <1>3, <1>4 DEF StillInv, Quiet, Pending

\* The surface is given back, and the Cron deployed, only where no migration is left to
\* apply or nothing applies one.
LEMMA RestoreStill ==
  ASSUME TypeInv, FenceInv, ControlInv, StillInv,
         Deploy \/ RestoreQueue \/ RestoreCron \/ RestoreSurface
  PROVE  StillInv'
<1>1. UNCHANGED <<work, applied, flight>>
  BY DEF Deploy, RestoreQueue, RestoreCron, RestoreSurface, RestorePart
<1>2. cli.env \in Env /\ surface \in [Env -> Surface]
  BY RunningCli DEF Deploy, RestoreQueue, RestoreCron, RestoreSurface, RestorePart, LoopAt, At,
                    TypeInv, RemoteOK
<1>3. Quiet(cli.env)
  <2>1. CASE RestoreSurface
    BY <2>1, RestoreSurfacePc DEF FenceInv
  <2>2. CASE RestoreCron
    BY <2>2 DEF RestoreCron, At, ControlInv, Quiet
  <2>3. CASE RestoreQueue
    <3>1. cli.pc = "loop" /\ runPhase[cli.rid] = "v3_active"
      BY <2>3 DEF RestoreQueue, LoopAt, At, MyPhase
    <3>2. cli.rid \in ReceiptId /\ receipt[cli.rid].env = cli.env
      BY <3>1, RunPcs, RunOfCli
    <3> QED BY <3>1, <3>2 DEF ControlInv, ActivationHolds, Quiet
  <2>4. CASE Deploy
    <3>1. cli.pc = "loop" /\ Bridged(runPhase[cli.rid])
      BY <2>4 DEF Deploy, LoopAt, At, MyPhase, Bridged
    <3>2. cli.rid \in ReceiptId /\ receipt[cli.rid].env = cli.env
      BY <3>1, RunPcs, RunOfCli
    <3> QED BY <3>1, <3>2 DEF ControlInv, Quiet
  <2> QED BY <2>1, <2>2, <2>3, <2>4
<1>4. \A e \in Env : e # cli.env => surface'[e] = surface[e]
  BY <1>2 DEF Deploy, RestoreQueue, RestoreCron, RestoreSurface, RestorePart, SetPaused, SetCron, Here
<1>5. cli'.pc \notin StillPcs
  <2>1. CASE RestoreSurface
    BY <2>1, RestoreSurfacePc DEF StillPcs
  <2>2. CASE Deploy \/ RestoreCron \/ RestoreQueue
    BY <2>2, GotoPc DEF Deploy, RestoreCron, RestoreQueue, StillPcs, Pcs
  <2> QED BY <2>1, <2>2
<1>6. \A e \in Env : (Quiet(e) \/ Still(e))'
  BY <1>1, <1>3, <1>4 DEF StillInv, Quiet, Still, Pending
<1> QED BY <1>5, <1>6 DEF StillInv

LEMMA EnvironmentStill ==
  ASSUME TypeInv, StillInv, NEW e \in Env,
         ApplyOne(e) \/ DetachedEnds(e) \/ Expire(e) \/ Worker(e)
  PROVE  StillInv'
<1>1. cli' = cli /\ surface' = surface
  BY DEF ApplyOne, DetachedEnds, Expire, Worker
<1>2. /\ applied \in [Env -> 0..Migrations] /\ applied[e] \in Int /\ Migrations \in Int
      /\ flight \in [Env -> Owner \cup {NoOwner}]
      /\ work \in [Env -> {"none", "queued", "running"}]
  BY Constants DEF TypeInv, RemoteOK
<1>3. \A x \in Env : Quiet(x) => Quiet(x)'
  BY <1>2 DEF ApplyOne, DetachedEnds, Expire, Worker, Quiet, Pending
<1>4. \A x \in Env : Still(x) => Still(x)'
  BY <1>1, <1>2 DEF ApplyOne, DetachedEnds, Expire, Worker, Enqueue, Deliver, JobEnds, Still
<1>5. cli.pc \in StillPcs => cli.env \in Env
  BY RunningCli DEF StillPcs
<1> QED BY <1>1, <1>3, <1>4, <1>5 DEF StillInv

LEMMA StillInit == Init => StillInv
BY IdleOK DEF Init, StillInv, Quiet, StillPcs

LEMMA StillNext ==
  TypeInv /\ FenceInv /\ ControlInv /\ StillInv /\ [Next]_vars => StillInv'
<1> SUFFICES ASSUME TypeInv, FenceInv, ControlInv, StillInv, [Next]_vars PROVE StillInv'
  OBVIOUS
<1>1. CASE Step \/ Raise \/ Exit
  BY <1>1, CalmStill, SpawnStill, StopStill, RestoreStill DEF Step, Calm
<1>2. CASE Merge \/ UNCHANGED vars
  BY <1>2 DEF Merge, vars, remote, StillInv, Quiet, Still, Pending
<1> QED BY <1>1, <1>2, LaunchStill, EnvironmentStill DEF Next

\* Only the Wrangler process of an environment applies a migration.
LEMMA AppliesWithProcess ==
  ASSUME TypeInv, [Next]_vars, NEW e \in Env, applied'[e] # applied[e]
  PROVE  ~Quiet(e)
<1>1. CASE Step \/ Raise \/ Exit \/ Merge \/ UNCHANGED vars
  <2>1. CASE \/ StopCron \/ PauseQueue \/ SpawnApply \/ Deploy
             \/ RestoreQueue \/ RestoreCron \/ RestoreSurface
    BY <2>1 DEF StopCron, PauseQueue, SpawnApply, Deploy, RestoreQueue, RestoreCron,
                RestoreSurface, RestorePart
  <2>2. CASE Merge \/ UNCHANGED vars
    BY <2>2 DEF Merge, vars, remote
  <2> QED BY <1>1, <2>1, <2>2, CalmRows DEF Step, Calm
<1>2. CASE \/ \E x \in Env : Activate(x) \/ Prepare(x) \/ Repair(x)
           \/ \E r \in ReceiptId : Resume(r)
  BY <1>2 DEF Activate, Prepare, Repair, Launch, Resume, remote
<1>3. ASSUME NEW x \in Env, ApplyOne(x) \/ DetachedEnds(x) \/ Expire(x) \/ Worker(x)
      PROVE  ~Quiet(e)
  <2>1. applied \in [Env -> 0..Migrations]
    BY DEF TypeInv, RemoteOK
  <2>2. ApplyOne(x) /\ x = e
    BY <1>3, <2>1 DEF ApplyOne, DetachedEnds, Expire, Worker
  <2> QED BY <2>2 DEF ApplyOne, Quiet
<1> QED BY <1>1, <1>2, <1>3 DEF Next

\* MigratesQuiesced for any chain of migrations and any restarts: no migration
\* lands while the JSDA Cron may fire, the Queue may deliver or a JSDA job runs.
THEOREM CutoverMigratesQuiesced == Spec => MigratesQuiesced
<1> DEFINE Inv == TypeInv /\ FenceInv /\ ControlInv /\ StillInv
<1>1. Init => Inv
  BY TypeInit, FenceInit, ControlInit, StillInit
<1>2. Inv /\ [Next]_vars => Inv'
  BY TypeNext, FenceNext, ControlNext, StillNext
<1>3. Inv /\ [Next]_vars =>
        [\A e \in Env : applied'[e] # applied[e] =>
            surface[e] = [cron |-> "off", paused |-> TRUE] /\ work[e] # "running"]_vars
  BY AppliesWithProcess DEF StillInv, Still
<1> QED BY <1>1, <1>2, <1>3, PTL DEF Spec, MigratesQuiesced

-----------------------------------------------------------------------------
(* The surface the operator found stays on file.                           *)

Recorded(e) ==
  \/ \E c \in Sha : intent[e][c] # NoIntent /\ intent[e][c].surface = found[e]
  \/ \E r \in ReceiptId : /\ receipt[r] # NoReceipt /\ receipt[r].env = e
                         /\ receipt[r].surface = found[e]

\* An owner token names one intent, and its receipts copy that intent's surface.
OwnersOK ==
  /\ \A e \in Env, c \in Sha : intent[e][c] # NoIntent => intent[e][c].owner <= minted
  /\ \A r \in ReceiptId : receipt[r] # NoReceipt => receipt[r].owner <= minted
  /\ \A e \in Env, c \in Sha, f \in Env, d \in Sha :
       intent[e][c] # NoIntent /\ intent[f][d] # NoIntent
         /\ intent[e][c].owner = intent[f][d].owner => e = f /\ c = d
  /\ \A r \in ReceiptId, e \in Env, c \in Sha :
       receipt[r] # NoReceipt /\ intent[e][c] # NoIntent
         /\ receipt[r].owner = intent[e][c].owner =>
              receipt[r].env = e /\ receipt[r].surface = intent[e][c].surface

\* The inductive invariant of PriorNotLost: once anything is on file for an
\* environment, what was found there is, and a command that is about to write the
\* first intent still has it as its baseline.
PriorInv ==
  /\ OwnersOK
  /\ \A e \in Env : surface[e] # found[e] => Recorded(e)
  /\ \A e \in Env, c \in Sha : intent[e][c] # NoIntent => Recorded(e)
  /\ \A r \in ReceiptId : receipt[r] # NoReceipt => Recorded(receipt[r].env)
  /\ cli.pc = "intent" => cli.base = found[cli.env] \/ Recorded(cli.env)

\* A command past its intent works in an environment that has something on file.
LEMMA RunningRecorded ==
  ASSUME TypeInv, PriorInv, cli.pc \notin {"idle", "intent"}
  PROVE  cli.env \in Env /\ Recorded(cli.env)
<1>1. /\ cli \in Clis /\ CliOK /\ cli.env \in Env /\ cli.sha \in Sha
      /\ cli.op \in {"activate", "resume"} \cup Schema
  BY DEF TypeInv, CliOK, Clis
<1>2. CASE cli.op = "resume"
  <2>1. cli.rid \in ReceiptId /\ receipt[cli.rid] # NoReceipt /\ receipt[cli.rid].env = cli.env
    BY <1>1, <1>2, Constants DEF CliOK, Clis
  <2> QED BY <1>1, <2>1 DEF PriorInv
<1>3. CASE cli.op # "resume"
  BY <1>1, <1>3 DEF CliOK, PriorInv
<1> QED BY <1>1, <1>2, <1>3

\* A step that leaves the files alone, and the surface where nothing is on file.
LEMMA PriorMoves ==
  ASSUME TypeInv, PriorInv, UNCHANGED <<found, files>>,
         \A e \in Env : surface'[e] = surface[e] \/ Recorded(e),
         cli'.pc # "intent" \/ cli' = cli
  PROVE  PriorInv'
<1>1. UNCHANGED <<found, intent, receipt, minted>>
  BY DEF files
<1>2. \A e : Recorded(e)' = Recorded(e)
  BY <1>1 DEF Recorded
<1>3. OwnersOK'
  BY <1>1 DEF OwnersOK, PriorInv
<1>4. \A r \in ReceiptId : receipt'[r] # NoReceipt => Recorded(receipt[r].env)'
  BY <1>1 DEF PriorInv, Recorded
<1>5. (cli.pc = "intent" => cli.base = found[cli.env] \/ Recorded(cli.env))'
  BY <1>1 DEF PriorInv, Recorded
<1>6. \A e \in Env : surface'[e] # found'[e] => Recorded(e)'
  BY <1>1, <1>2 DEF PriorInv
<1>7. \A e \in Env, c \in Sha : intent'[e][c] # NoIntent => Recorded(e)'
  BY <1>1, <1>2 DEF PriorInv
<1> QED BY <1>3, <1>4, <1>5, <1>6, <1>7 DEF PriorInv

\* The steps of a command that leave the files alone.
LEMMA StepPrior ==
  ASSUME TypeInv, PriorInv, Step \/ Raise \/ Exit,
         ~LoadIntent, ~SaveReceipt, ~RemoveIntent
  PROVE  PriorInv'
<1>1. UNCHANGED <<found, files>>
  BY DEF Step, PrepareLease, RepairLease, Own,
       StopCron, ObserveDrained, PauseQueue, Quiesce, Bootstrap, Acquire, FenceMigrating,
       FenceSpawned, FenceRecovery, Fence, SpawnApply, ApplyReturns, SettleApplied,
       SettleFailed, ContinuePaused, Deploy, ReleaseActivated, ExactPrepared, StartRun,
       ExactBridge, Deployed, ContinueDeployed, ActivateControl, RestoreQueue, RestoreCron,
       Finish, RestoreSurface, RestorePart, ReleasePrepared, Raise, Exit, world
<1>2. cli'.pc # "intent"
  BY AsidePc, RunPc, ActivateControlPc DEF Step, Aside
<1>3. surface' = surface \/ cli.pc \in {"stop", "pause", "loop", "cron", "r_queue", "r_cron"}
  <2>1. CASE Calm
    BY <2>1, CalmRows
  <2>2. CASE \/ StopCron \/ PauseQueue \/ SpawnApply \/ Deploy
             \/ RestoreQueue \/ RestoreCron \/ RestoreSurface
    BY <2>2 DEF StopCron, PauseQueue, SpawnApply, Deploy, RestoreQueue, RestoreCron,
                RestoreSurface, RestorePart, At, LoopAt
  <2> QED BY <2>1, <2>2 DEF Step, Calm
<1>4. \A e \in Env : e # cli.env => surface'[e] = surface[e]
  <2>1. surface \in [Env -> Surface]
    BY DEF TypeInv, RemoteOK
  <2>2. CASE Calm
    BY <2>2, CalmRows
  <2>3. CASE \/ StopCron \/ PauseQueue \/ SpawnApply \/ Deploy
             \/ RestoreQueue \/ RestoreCron \/ RestoreSurface
    BY <2>1, <2>3 DEF StopCron, PauseQueue, SpawnApply, Deploy, RestoreQueue, RestoreCron,
                RestoreSurface, RestorePart, SetCron, SetPaused, Here
  <2> QED BY <2>2, <2>3 DEF Step, Calm
<1>5. \A e \in Env : surface'[e] = surface[e] \/ Recorded(e)
  BY <1>3, <1>4, RunningRecorded
<1> QED BY <1>1, <1>2, <1>5, PriorMoves

LEMMA LaunchPrior ==
  ASSUME TypeInv, PriorInv,
         \/ \E e \in Env : Activate(e) \/ Prepare(e) \/ Repair(e)
         \/ \E r \in ReceiptId : Resume(r)
  PROVE  PriorInv'
<1>1. UNCHANGED <<found, files, surface>>
  BY DEF Activate, Prepare, Repair, Launch, Resume, remote, world
<1>2. CASE \E r \in ReceiptId : Resume(r)
  BY <1>1, <1>2, ResumePc, PriorMoves
<1>3. ASSUME NEW e \in Env, Activate(e) \/ Prepare(e) \/ Repair(e)
      PROVE  PriorInv'
  <2>1. cli'.env = e /\ cli'.base = surface[e]
    BY <1>3, LaunchPc DEF Activate, Prepare, Repair
  <2>2. cli'.base = found[e] \/ Recorded(e)
    BY <2>1 DEF PriorInv
  <2>3. UNCHANGED <<found, intent, receipt, minted, surface>>
    BY <1>1 DEF files
  <2>4. (cli.base = found[cli.env] \/ Recorded(cli.env))'
    BY <2>1, <2>2, <2>3 DEF Recorded
  <2>5. OwnersOK'
    BY <2>3 DEF OwnersOK, PriorInv
  <2>6. \A r \in ReceiptId : receipt'[r] # NoReceipt => Recorded(receipt[r].env)'
    BY <2>3 DEF PriorInv, Recorded
  <2>7. \A x : Recorded(x)' = Recorded(x)
    BY <2>3 DEF Recorded
  <2> QED BY <2>3, <2>4, <2>5, <2>6, <2>7 DEF PriorInv
<1> QED BY <1>2, <1>3

LEMMA LoadIntentPrior ==
  ASSUME TypeInv, PriorInv, LoadIntent
  PROVE  PriorInv'
<1>0. cli.env \in Env
  BY DEF LoadIntent, At, TypeInv, CliOK
<1>e. PICK e \in Env : e = cli.env
  BY <1>0
<1> DEFINE c == cli.sha
           new == [owner |-> minted + 1, surface |-> cli.base, version |-> version[e]]
<1>1. /\ cli.pc = "intent" /\ e \in Env /\ c \in Sha /\ UNCHANGED <<found, surface, receipt>>
      /\ intent \in [Env -> [Sha -> Intent \cup {NoIntent}]]
  BY <1>e DEF LoadIntent, At, TypeInv, CliOK, LocalOK, world, remote
<1>2. cli'.pc # "intent"
  BY LoadIntentPc
<1>3. CASE intent[e][c] # NoIntent
  <2>1. intent' = [intent EXCEPT ![e][c] = intent[e][c]] /\ minted' = minted
    BY <1>3, <1>e DEF LoadIntent, Here
  <2>2. intent' = intent
    BY <1>1, <2>1
  <2> QED BY <1>1, <1>2, <2>1, <2>2, PriorMoves DEF files
<1>4. CASE intent[e][c] = NoIntent
  <2>1. /\ intent' = [intent EXCEPT ![e][c] = new] /\ minted' = minted + 1
        /\ minted + 1 \in Owner
    BY <1>4, <1>e DEF LoadIntent, Here
  <2>2. new.owner = minted + 1 /\ new.surface = cli.base /\ new # NoIntent
    BY <2>1, Constants DEF NoIntent
  <2> HIDE DEF new
  <2>3. \A x \in Env, y \in Sha :
           intent'[x][y] = IF x = e /\ y = c THEN new ELSE intent[x][y]
    BY <1>1, <2>1
  <2>4. \A x \in Env : Recorded(x) => Recorded(x)'
    BY <1>1, <1>4, <2>3 DEF Recorded
  <2>5. Recorded(e)'
    <3>1. CASE cli.base = found[e]
      BY <1>1, <2>2, <2>3, <3>1 DEF Recorded
    <3>2. CASE Recorded(e)
      BY <1>1, <2>4, <3>2
    <3> QED BY <1>1, <1>e, <3>1, <3>2 DEF PriorInv
  <2>6. OwnersOK'
    <3>1. /\ minted \in Int
          /\ \A x \in Env, y \in Sha : intent[x][y] # NoIntent => intent[x][y].owner \in Int
          /\ \A r \in ReceiptId : receipt[r] # NoReceipt => receipt[r].owner \in Int
      BY <1>1, Constants DEF TypeInv, LocalOK, Intent, Receipt
    <3>2. /\ \A x \in Env, y \in Sha :
               intent[x][y] # NoIntent => intent[x][y].owner < minted + 1
          /\ \A r \in ReceiptId : receipt[r] # NoReceipt => receipt[r].owner < minted + 1
      BY <3>1 DEF PriorInv, OwnersOK
    <3>3. \A x \in Env, y \in Sha : intent'[x][y] # NoIntent => intent'[x][y].owner <= minted'
      BY <2>1, <2>2, <2>3, <3>1, <3>2
    <3>4. \A r \in ReceiptId : receipt'[r] # NoReceipt => receipt'[r].owner <= minted'
      BY <1>1, <2>1, <3>1, <3>2
    <3>5. \A x \in Env, y \in Sha :
            intent[x][y] # NoIntent => intent[x][y].owner # minted + 1
      BY <3>1, <3>2
    <3>6. \A r \in ReceiptId : receipt[r] # NoReceipt => receipt[r].owner # minted + 1
      BY <3>1, <3>2
    <3>7. \A x \in Env, y \in Sha, f \in Env, d \in Sha :
            intent'[x][y] # NoIntent /\ intent'[f][d] # NoIntent
              /\ intent'[x][y].owner = intent'[f][d].owner => x = f /\ y = d
      BY <2>2, <2>3, <3>5 DEF PriorInv, OwnersOK
    <3>8. \A r \in ReceiptId, x \in Env, y \in Sha :
            receipt'[r] # NoReceipt /\ intent'[x][y] # NoIntent
              /\ receipt'[r].owner = intent'[x][y].owner =>
                   receipt'[r].env = x /\ receipt'[r].surface = intent'[x][y].surface
      BY <1>1, <2>2, <2>3, <3>6 DEF PriorInv, OwnersOK
    <3> QED BY <3>3, <3>4, <3>7, <3>8 DEF OwnersOK
  <2>7. \A r \in ReceiptId : receipt'[r] # NoReceipt => Recorded(receipt[r].env)'
    <3>1. \A r \in ReceiptId : receipt[r] # NoReceipt => receipt[r].env \in Env
      BY DEF TypeInv, LocalOK, Receipt
    <3>2. \A r \in ReceiptId : receipt[r] # NoReceipt =>
             \E x \in Env : x = receipt[r].env /\ Recorded(x)'
      BY <2>4, <3>1 DEF PriorInv
    <3> QED BY <1>1, <3>2 DEF Recorded
  <2>8. \A x \in Env, y \in Sha : intent'[x][y] # NoIntent => Recorded(x)'
    BY <2>3, <2>4, <2>5 DEF PriorInv
  <2>9. \A x \in Env : surface'[x] # found'[x] => Recorded(x)'
    BY <1>1, <2>4 DEF PriorInv
  <2> QED BY <1>2, <2>6, <2>7, <2>8, <2>9 DEF PriorInv
<1> QED BY <1>3, <1>4

LEMMA SaveReceiptPrior ==
  ASSUME TypeInv, PriorInv, SaveReceipt
  PROVE  PriorInv'
<1>0. cli.env \in Env
  BY RunningCli DEF SaveReceipt, At
<1>e. PICK e \in Env : e = cli.env
  BY <1>0
<1> DEFINE c == cli.sha
           i == intent[e][c]
           n == NextReceipt
           new == [env |-> e, sha |-> c, owner |-> cli.owner, surface |-> i.surface]
<1>1. /\ cli.pc = "bookmark" /\ e \in Env /\ c \in Sha /\ cli.owner \in Owner
      /\ UNCHANGED <<found, surface, intent, minted>>
      /\ receipt \in [ReceiptId -> Receipt \cup {NoReceipt}]
      /\ i # NoIntent /\ i.owner = cli.owner
  <2>1. cli.pc = "bookmark" /\ UNCHANGED <<found, surface, intent, minted>>
    BY DEF SaveReceipt, At, world, remote
  <2>2. cli.op \in {"activate"} \cup Schema
    BY <2>1 DEF TypeInv, CliOK, Clis, LoopPcs
  <2> QED BY <1>e, <2>1, <2>2, RunningCli DEF TypeInv, CliOK, LocalOK
<1>2. cli'.pc # "intent"
  BY SaveReceiptPc
<1>3. CASE receipt' = receipt
  BY <1>1, <1>2, <1>3, PriorMoves DEF files
<1>4. CASE receipt' # receipt
  <2>1. n \in ReceiptId /\ receipt' = [receipt EXCEPT ![n] = new]
    BY <1>4, <1>e DEF SaveReceipt, Here
  <2>2. /\ new.env = e /\ new.owner = cli.owner /\ new.surface = i.surface
        /\ new # NoReceipt
    BY <1>1, Constants DEF NoReceipt
  <2>3. \A r \in ReceiptId : receipt[r] # NoReceipt => receipt'[r] = receipt[r]
    BY RowsKeepReceipt
  <2> HIDE DEF new, n
  <2>4. \A r \in ReceiptId : receipt'[r] = IF r = n THEN new ELSE receipt[r]
    BY <1>1, <2>1
  <2>5. \A x \in Env : Recorded(x) => Recorded(x)'
    BY <1>1, <2>3 DEF Recorded
  <2>6. Recorded(e)'
    BY <1>1, <2>5 DEF PriorInv
  <2>7. OwnersOK'
    <3>1. \A r \in ReceiptId : receipt'[r] # NoReceipt => receipt'[r].owner <= minted'
      BY <1>1, <2>2, <2>4 DEF PriorInv, OwnersOK
    <3>2. \A r \in ReceiptId, x \in Env, y \in Sha :
            receipt'[r] # NoReceipt /\ intent'[x][y] # NoIntent
              /\ receipt'[r].owner = intent'[x][y].owner =>
                   receipt'[r].env = x /\ receipt'[r].surface = intent'[x][y].surface
      <4> SUFFICES ASSUME NEW r \in ReceiptId, NEW x \in Env, NEW y \in Sha,
                          receipt'[r] # NoReceipt, intent[x][y] # NoIntent,
                          receipt'[r].owner = intent[x][y].owner
                   PROVE  receipt'[r].env = x /\ receipt'[r].surface = intent[x][y].surface
        BY <1>1
      <4>1. CASE r = n
        <5>1. receipt'[r] = new
          BY <2>4, <4>1
        <5>2. x = e /\ y = c
          BY <1>1, <2>2, <5>1 DEF PriorInv, OwnersOK
        <5> QED BY <2>2, <5>1, <5>2
      <4>2. CASE r # n
        BY <2>4, <4>2 DEF PriorInv, OwnersOK
      <4> QED BY <4>1, <4>2
    <3> QED BY <1>1, <3>1, <3>2 DEF PriorInv, OwnersOK
  <2>8. \A r \in ReceiptId : receipt'[r] # NoReceipt => Recorded(receipt[r].env)'
    <3>1. \A r \in ReceiptId : receipt[r] # NoReceipt => receipt[r].env \in Env
      BY DEF TypeInv, LocalOK, Receipt
    <3>2. \A r \in ReceiptId : receipt'[r] # NoReceipt =>
             \E x \in Env : x = receipt'[r].env /\ Recorded(x)'
      BY <1>1, <2>2, <2>4, <2>5, <2>6, <3>1 DEF PriorInv
    <3> QED BY <3>2 DEF Recorded
  <2>9. \A x \in Env, y \in Sha : intent'[x][y] # NoIntent => Recorded(x)'
    BY <1>1, <2>5 DEF PriorInv
  <2>10. \A x \in Env : surface'[x] # found'[x] => Recorded(x)'
    BY <1>1, <2>5 DEF PriorInv
  <2> QED BY <1>2, <2>7, <2>8, <2>9, <2>10 DEF PriorInv
<1> QED BY <1>3, <1>4

\* _remove_control_intent keeps a receipt of the same owner.
LEMMA RemoveIntentPrior ==
  ASSUME TypeInv, PriorInv, RemoveIntent
  PROVE  PriorInv'
<1> DEFINE e == cli.env
           c == cli.sha
           r0 == cli.rid
<1>1. /\ cli.pc \in {"unintent", "r_intent"} /\ UNCHANGED <<found, surface, receipt, minted>>
      /\ intent[e][c].owner \in {cli.owner, NoOwner}
      /\ intent' = [intent EXCEPT ![e][c] = NoIntent]
      /\ cli' = Idle
  BY DEF RemoveIntent, Here, world, remote
<1>2. /\ e \in Env /\ c \in Sha
      /\ intent \in [Env -> [Sha -> Intent \cup {NoIntent}]]
  BY <1>1, RunningCli DEF TypeInv, LocalOK
<1>3. /\ r0 \in ReceiptId /\ receipt[r0] # NoReceipt /\ receipt[r0].owner = cli.owner
  <2>1. r0 # 0 /\ cli \in Clis /\ CliOK
    BY <1>1, RunPcs, RunOfCli DEF TypeInv, CliOK
  <2> QED BY <2>1, Constants DEF Clis, CliOK
<1>4. \A x \in Env, y \in Sha :
         intent'[x][y] = IF x = e /\ y = c THEN NoIntent ELSE intent[x][y]
  BY <1>1, <1>2
<1>5. intent[e][c] # NoIntent =>
        receipt[r0].env = e /\ receipt[r0].surface = intent[e][c].surface
  <2>1. intent[e][c] # NoIntent => intent[e][c].owner = cli.owner
    BY <1>1, <1>2, Constants DEF Intent
  <2> QED BY <1>2, <1>3, <2>1 DEF PriorInv, OwnersOK
<1>6. \A x \in Env : Recorded(x) => Recorded(x)'
  <2> SUFFICES ASSUME NEW x \in Env, Recorded(x) PROVE Recorded(x)'
    OBVIOUS
  <2>1. CASE \E r \in ReceiptId : /\ receipt[r] # NoReceipt /\ receipt[r].env = x
                                  /\ receipt[r].surface = found[x]
    BY <1>1, <2>1 DEF Recorded
  <2>2. ASSUME NEW y \in Sha, intent[x][y] # NoIntent, intent[x][y].surface = found[x]
        PROVE  Recorded(x)'
    <3>1. CASE x = e /\ y = c
      BY <1>1, <1>3, <1>5, <2>2, <3>1 DEF Recorded
    <3>2. CASE ~(x = e /\ y = c)
      BY <1>1, <1>4, <2>2, <3>2 DEF Recorded
    <3> QED BY <3>1, <3>2
  <2> QED BY <2>1, <2>2 DEF Recorded
<1>7. OwnersOK'
  BY <1>1, <1>4 DEF PriorInv, OwnersOK
<1>8. \A r \in ReceiptId : receipt'[r] # NoReceipt => Recorded(receipt[r].env)'
  <2>1. \A r \in ReceiptId : receipt[r] # NoReceipt => receipt[r].env \in Env
    BY DEF TypeInv, LocalOK, Receipt
  <2>2. \A r \in ReceiptId : receipt[r] # NoReceipt =>
           \E x \in Env : x = receipt[r].env /\ Recorded(x)'
    BY <1>6, <2>1 DEF PriorInv
  <2> QED BY <1>1, <2>2 DEF Recorded
<1>9. \A x \in Env, y \in Sha : intent'[x][y] # NoIntent => Recorded(x)'
  BY <1>4, <1>6 DEF PriorInv
<1>10. \A x \in Env : surface'[x] # found'[x] => Recorded(x)'
  BY <1>1, <1>6 DEF PriorInv
<1> QED BY <1>1, <1>7, <1>8, <1>9, <1>10, IdleOK DEF PriorInv

LEMMA PriorInit == Init => PriorInv
BY IdleOK DEF Init, PriorInv, OwnersOK

LEMMA PriorNext == TypeInv /\ PriorInv /\ [Next]_vars => PriorInv'
<1> SUFFICES ASSUME TypeInv, PriorInv, [Next]_vars PROVE PriorInv'
  OBVIOUS
<1>1. CASE Step \/ Raise \/ Exit
  BY <1>1, StepPrior, LoadIntentPrior, SaveReceiptPrior, RemoveIntentPrior
<1>2. CASE \/ Merge \/ UNCHANGED vars
           \/ \E e \in Env : ApplyOne(e) \/ DetachedEnds(e) \/ Expire(e) \/ Worker(e)
  <2>1. UNCHANGED <<found, files, surface, cli>>
    BY <1>2 DEF Merge, vars, remote, files, world, ApplyOne, DetachedEnds, Expire, Worker
  <2> QED BY <2>1, PriorMoves
<1> QED BY <1>1, <1>2, LaunchPrior DEF Next

\* PriorNotLost for any number of commits, intents and receipts, whatever order
\* the commands are killed and started in: while the live Cron and Queue differ
\* from what the operator found, an intent or a receipt records what it found.
THEOREM CutoverPriorNotLost == Spec => []PriorNotLost
<1>1. Init => TypeInv /\ PriorInv
  BY TypeInit, PriorInit
<1>2. (TypeInv /\ PriorInv) /\ [Next]_vars => (TypeInv /\ PriorInv)'
  BY TypeNext, PriorNext
<1>3. PriorInv => PriorNotLost
  BY DEF PriorInv, Recorded, PriorNotLost
<1> QED BY <1>1, <1>2, <1>3, PTL DEF Spec

-----------------------------------------------------------------------------
(* The first activation restores what the operator found.                  *)

\* No run of e has been activated, and activation there is possible.
Fresh(e) ==
  /\ Attested(e)
  /\ \A r \in ReceiptId : receipt[r] # NoReceipt /\ receipt[r].env = e => runPhase[r] # "activated"

\* A surface recorded for commit c is the one found, or the attempt it belongs to began
\* after one of IncidentSha whose intent is still on file.
Faithful(e, c, s) == s = found[e] \/ (c # IncidentSha /\ intent[e][IncidentSha] # NoIntent)

\* The files of an environment that nobody has activated.
FilesFound ==
  \A e \in Env : Fresh(e) =>
    /\ \A c \in Sha : intent[e][c] # NoIntent => Faithful(e, c, intent[e][c].surface)
    /\ \A r \in ReceiptId : receipt[r] # NoReceipt /\ receipt[r].env = e =>
          Faithful(e, receipt[r].sha, receipt[r].surface)
    /\ (\A c \in Sha : intent[e][c] = NoIntent) => surface[e] = found[e]

\* head moves once, so what is on file is of the first commit or of the present one.
Commits ==
  /\ \A e \in Env, c \in Sha : intent[e][c] # NoIntent => c \in {IncidentSha, head}
  /\ \A r \in ReceiptId : receipt[r] # NoReceipt => receipt[r].sha \in {IncidentSha, head}
  /\ cli.pc # "idle" => cli.sha \in {IncidentSha, head}

\* What the running command has seen and written.
CliFound ==
  /\ cli.pc = "intent" => /\ cli.base = surface[cli.env]
                          /\ cli.op = "repair" => intent[cli.env][cli.sha] # NoIntent
  /\ cli.op \in {"activate", "prepare"} /\ cli.sha = IncidentSha =>
       /\ \A c \in Sha : intent[cli.env][c] # NoIntent => c = IncidentSha
       /\ \A r \in ReceiptId : receipt[r] # NoReceipt /\ receipt[r].env = cli.env =>
             receipt[r].sha = IncidentSha
  /\ cli.op = "repair" /\ cli.pc \notin {"intent", "lease"} => ~Attested(cli.env)
  /\ cli.pc = "r_cron" /\ ~cli.failed /\ cli.clean =>
       surface[cli.env].paused = intent[cli.env][cli.sha].surface.paused
  /\ (cli.pc = "r_release" /\ ~cli.failed /\ cli.clean) \/ cli.pc = "r_intent" =>
       surface[cli.env] = intent[cli.env][cli.sha].surface
  /\ cli.pc = "cron" => /\ Attested(cli.env)
                        /\ surface[cli.env].paused = receipt[cli.rid].surface.paused
  /\ cli.pc = "finish" => Attested(cli.env) /\ surface[cli.env] = receipt[cli.rid].surface
  /\ cli.pc = "unintent" => runPhase[cli.rid] = "activated"

\* Only a preparation, which is staging's, takes its intent away before an activation.
OnFile ==
  /\ cli.op \in Schema => cli.env = "staging"
  /\ \A e \in Env : e # "staging" /\ Fresh(e) =>
       \A r \in ReceiptId : receipt[r] # NoReceipt /\ receipt[r].env = e =>
         \E c \in Sha : intent[e][c] # NoIntent

\* The inductive invariant of RestoresFound.  The surface a receipt records is the one
\* found only as long as nothing was activated since, and depends on which intents were
\* on file when it was captured; so the invariant speaks of all files of an environment
\* that nobody has activated, and of what the running command has restored so far.
FoundInv == FilesFound /\ Commits /\ CliFound /\ OnFile

\* What each step may change of the files, the surface and the run rows.
LEMMA NextRows ==
  ASSUME [Next]_vars
  PROVE  /\ found' = found
         /\ head' = head \/ Merge
         /\ version' = version \/ Deploy
         /\ intent' = intent \/ LoadIntent \/ RemoveIntent
         /\ receipt' = receipt \/ SaveReceipt
         /\ \/ surface' = surface \/ StopCron \/ PauseQueue \/ Deploy
            \/ RestoreQueue \/ RestoreCron \/ RestoreSurface
         /\ \/ runPhase' = runPhase \/ StartRun \/ ExactBridge \/ Deployed
            \/ ActivateControl \/ Finish
<1>1. CASE Step \/ Raise \/ Exit
  <2>1. CASE \/ LoadIntent \/ RemoveIntent \/ SaveReceipt \/ PrepareLease \/ RepairLease
             \/ Raise \/ Exit \/ ExactPrepared \/ ContinuePaused \/ ContinueDeployed
             \/ ObserveDrained("drain1", "drain2") \/ ObserveDrained("drain2", "pause")
             \/ Quiesce
    BY <2>1 DEF LoadIntent, RemoveIntent, SaveReceipt, PrepareLease, RepairLease, Raise, Exit,
         ExactPrepared, ContinuePaused, ContinueDeployed, ObserveDrained, Quiesce, remote,
         files, world
  <2>2. CASE \/ Own \/ Bootstrap \/ Acquire \/ FenceMigrating \/ FenceSpawned \/ FenceRecovery
             \/ SpawnApply \/ ApplyReturns \/ SettleApplied \/ SettleFailed
             \/ ReleaseActivated \/ ReleasePrepared
    BY <2>2 DEF Own, Bootstrap, Acquire, FenceMigrating, FenceSpawned, FenceRecovery, Fence,
         SpawnApply, ApplyReturns, SettleApplied, SettleFailed, ReleaseActivated,
         ReleasePrepared, files, world
  <2>3. CASE \/ StopCron \/ PauseQueue \/ RestoreQueue \/ RestoreCron \/ RestoreSurface
             \/ Deploy
    BY <2>3 DEF StopCron, PauseQueue, RestoreQueue, RestoreCron, RestoreSurface, RestorePart,
         Deploy, files, world
  <2>4. CASE StartRun \/ ExactBridge \/ Deployed \/ ActivateControl \/ Finish
    BY <2>4 DEF StartRun, ExactBridge, Deployed, ActivateControl, Finish, files, world
  <2> QED BY <1>1, <2>1, <2>2, <2>3, <2>4 DEF Step
<1>2. CASE \/ \E e \in Env : Activate(e) \/ Prepare(e) \/ Repair(e)
           \/ \E r \in ReceiptId : Resume(r)
  BY <1>2 DEF Activate, Prepare, Repair, Launch, Resume, remote, files, world
<1>3. CASE \E e \in Env : ApplyOne(e) \/ DetachedEnds(e) \/ Expire(e) \/ Worker(e)
  BY <1>3 DEF ApplyOne, DetachedEnds, Expire, Worker, files, world
<1>4. CASE Merge \/ UNCHANGED vars
  BY <1>4 DEF Merge, vars, remote, files
<1> QED BY <1>1, <1>2, <1>3, <1>4 DEF Next

\* An activated run stays activated, and a deployed version keeps its tag.
LEMMA FreshBack ==
  ASSUME TypeInv, [Next]_vars
  PROVE  /\ \A e \in Env : Attested(e)' => Attested(e)
         /\ \A r \in ReceiptId : runPhase[r] = "activated" => runPhase'[r] = "activated"
         /\ \A r \in ReceiptId : receipt[r] # NoReceipt => receipt'[r] = receipt[r]
         /\ \A e \in Env : Fresh(e)' => Fresh(e)
<1>1. \A e \in Env : Attested(e)' => Attested(e)
  <2>1. CASE version' = version
    BY <2>1 DEF Attested
  <2>2. CASE Deploy
    <3>1. Attested(cli.env) /\ version' = [version EXCEPT ![cli.env] = cli.sha]
      BY <2>2 DEF Deploy, LoopAt, Here
    <3>2. version \in [Env -> Tags]
      BY DEF TypeInv, RemoteOK
    <3> QED BY <3>1, <3>2 DEF Attested
  <2> QED BY <2>1, <2>2, NextRows
<1>2. \A r \in ReceiptId : runPhase[r] = "activated" => runPhase'[r] = "activated"
  <2>1. CASE runPhase' = runPhase
    BY <2>1
  <2>2. CASE StartRun \/ ExactBridge \/ Deployed \/ ActivateControl \/ Finish
    <3>1. PICK n, v : /\ runPhase' = [runPhase EXCEPT ![n] = v]
                      /\ runPhase[n] = "activated" => v = "activated"
      BY <2>2 DEF StartRun, ExactBridge, Deployed, ActivateControl, Finish, Advance, MyPhase
    <3>2. runPhase \in [ReceiptId -> RunPhases]
      BY DEF TypeInv, RemoteOK
    <3> QED BY <3>1, <3>2
  <2> QED BY <2>1, <2>2, NextRows
<1>3. \A r \in ReceiptId : receipt[r] # NoReceipt => receipt'[r] = receipt[r]
  BY NextRows, RowsKeepReceipt
<1>4. \A e \in Env : Fresh(e)' => Fresh(e)
  BY <1>1, <1>2, <1>3 DEF Fresh
<1> QED BY <1>1, <1>2, <1>3, <1>4

\* Where a step takes the running command.
LEMMA StepCli ==
  ASSUME TypeInv, Step \/ Raise \/ Exit
  PROVE  \/ cli' = Idle
         \/ /\ Same /\ cli.pc # "idle" /\ cli'.pc # "intent"
            /\ cli'.pc = "cron" => RestoreQueue
            /\ cli'.pc = "finish" => RestoreCron
            /\ cli'.pc = "unintent" => ReleaseActivated
            /\ cli'.pc = "r_intent" => ReleasePrepared
            /\ cli'.pc = "r_cron" => RestoreSurface
            /\ cli'.pc = "r_release" => RestoreSurface \/ cli'.failed
            /\ cli.pc = "intent" => cli'.pc \in {"lease", "stop"} /\ LoadIntent
            /\ cli.pc = "lease" => PrepareLease \/ RepairLease
<1> DEFINE Mid == {"lease", "own", "stop", "drain1", "drain2", "pause", "quiesce", "bookmark",
                   "bootstrap", "acquire", "fence0", "fence1", "refence", "spawn", "apply",
                   "settle", "unsettle", "exact", "start", "loop", "deployed", "activate",
                   "r_queue"}
           Done == \/ cli' = Idle
                   \/ /\ Same /\ cli'.pc \in Mid /\ cli.pc \notin {"idle", "intent", "lease"}
<1>1. ASSUME NEW p \in Mid, Goto(p), cli.pc \notin {"idle", "intent", "lease"} PROVE Done
  BY <1>1, GotoPc DEF Pcs, TryPcs
<1>2. CASE LoadIntent
  BY <1>2, LoadIntentPc
<1>3. CASE PrepareLease \/ RepairLease
  BY <1>3, LeasePc
<1>4. CASE Own \/ Acquire \/ SaveReceipt
  BY <1>4, OwnPc, AcquirePc, SaveReceiptPc
<1>5. CASE \/ StopCron \/ ObserveDrained("drain1", "drain2") \/ ObserveDrained("drain2", "pause")
           \/ PauseQueue \/ Quiesce
  BY <1>5, QuiescePc DEF QuiescePcs
<1>6. CASE \/ Bootstrap \/ FenceMigrating \/ FenceSpawned \/ FenceRecovery \/ SpawnApply
           \/ ApplyReturns \/ SettleApplied \/ ContinuePaused \/ Deploy
           \/ ExactPrepared \/ StartRun \/ ExactBridge \/ Deployed \/ ContinueDeployed \/ Finish
  <2>1. \E p \in Mid : Goto(p)
    BY <1>6 DEF Bootstrap, FenceMigrating, FenceSpawned, FenceRecovery, Fence, SpawnApply,
         ApplyReturns, SettleApplied, ContinuePaused, Deploy, ExactPrepared, StartRun,
         ExactBridge, Deployed, ContinueDeployed, Finish
  <2>2. cli.pc \notin {"idle", "intent", "lease"}
    BY <1>6 DEF Bootstrap, FenceMigrating, FenceSpawned, FenceRecovery, Fence, SpawnApply,
         ApplyReturns, SettleApplied, ContinuePaused, Deploy, ExactPrepared, StartRun,
         ExactBridge, Deployed, ContinueDeployed, Finish, At, LoopAt
  <2> QED BY <1>1, <2>1, <2>2
<1>7. CASE RestoreQueue \/ RestoreCron
  <2>1. cli.pc \in {"loop", "cron"}
    BY <1>7 DEF RestoreQueue, RestoreCron, LoopAt, At
  <2> QED BY <1>7, <2>1, RunPc
<1>8. CASE RestoreSurface
  BY <1>8, RestoreSurfacePc
<1>9. CASE ReleaseActivated
  <2>1. Goto("unintent") /\ cli.pc = "loop"
    BY <1>9 DEF ReleaseActivated, LoopAt, At
  <2> QED BY <1>9, <2>1, GotoPc DEF Pcs
<1>10. CASE ReleasePrepared
  <2>1. cli.pc = "r_release" /\ (cli' = Idle \/ Goto("r_intent"))
    BY <1>10 DEF ReleasePrepared, At, Goto
  <2> QED BY <1>10, <2>1, GotoPc DEF Pcs
<1>11. CASE cli' = Aborted /\ cli.pc \notin {"idle", "intent", "lease"}
  <2>1. CASE cli.op \in Schema
    <3>1. PICK q \in {"r_release", "r_queue"} : cli' = [cli EXCEPT !.failed = TRUE, !.pc = q]
      BY <1>11, <2>1 DEF Aborted
    <3>2. Same /\ cli'.pc = q /\ cli'.failed = TRUE
      BY <3>1 DEF TypeInv, Clis, Same
    <3> QED BY <1>11, <3>2
  <2>2. CASE cli.op \notin Schema
    BY <1>11, <2>2 DEF Aborted
  <2> QED BY <2>1, <2>2
<1>12. CASE SettleFailed \/ Raise \/ Exit \/ RemoveIntent \/ ActivateControl
  <2>1. \/ cli' = Idle
        \/ cli' = Aborted /\ cli.pc \notin {"idle", "intent", "lease"}
        \/ /\ \E p \in {"unsettle", "loop"} : Goto(p)
           /\ cli.pc \notin {"idle", "intent", "lease"}
    BY <1>12 DEF SettleFailed, Raise, Exit, RemoveIntent, ActivateControl, At, Goto, TryPcs
  <2> QED BY <1>1, <1>11, <2>1
<1> QED BY <1>2, <1>3, <1>4, <1>5, <1>6, <1>7, <1>8, <1>9, <1>10, <1>12 DEF Step

\* What is recorded and the surface stay as they are.
LEMMA StillFound ==
  ASSUME TypeInv, FilesFound, [Next]_vars, UNCHANGED <<intent, receipt, surface>>
  PROVE  FilesFound'
<1>1. found' = found
  BY NextRows
<1>2. \A e \in Env : Fresh(e)' => Fresh(e)
  BY FreshBack
<1> QED BY <1>1, <1>2 DEF FilesFound, Faithful

LEMMA LoadIntentFound ==
  ASSUME TypeInv, FoundInv, [Next]_vars, LoadIntent
  PROVE  FilesFound'
<1>0. cli.env \in Env /\ cli.sha \in Sha
  BY DEF LoadIntent, At, TypeInv, CliOK
<1>e. PICK e \in Env, c \in Sha : e = cli.env /\ c = cli.sha
  BY <1>0
<1> DEFINE new == [owner |-> minted + 1, surface |-> cli.base, version |-> version[e]]
<1>1. /\ cli.pc = "intent" /\ c \in Sha /\ UNCHANGED <<found, surface, receipt>>
      /\ intent \in [Env -> [Sha -> Intent \cup {NoIntent}]]
  BY <1>e DEF LoadIntent, At, TypeInv, CliOK, LocalOK, world, remote
<1>2. CASE intent[e][c] # NoIntent
  <2>1. intent' = [intent EXCEPT ![e][c] = intent[e][c]]
    BY <1>2, <1>e DEF LoadIntent, Here
  <2>2. intent' = intent
    BY <1>1, <2>1
  <2> QED BY <1>1, <2>2, StillFound DEF FoundInv
<1>3. CASE intent[e][c] = NoIntent
  <2>1. intent' = [intent EXCEPT ![e][c] = new] /\ minted + 1 \in Owner
    BY <1>3, <1>e DEF LoadIntent, Here
  <2>2. new.surface = cli.base /\ new # NoIntent
    BY <2>1, Constants DEF NoIntent
  <2> HIDE DEF new
  <2>3. \A x \in Env, y \in Sha :
           intent'[x][y] = IF x = e /\ y = c THEN new ELSE intent[x][y]
    BY <1>1, <2>1
  <2>4. cli.base = surface[e] /\ cli.op \in {"activate", "prepare"} /\ c \in {IncidentSha, head}
    <3>1. cli.base = surface[e] /\ cli.op # "repair"
      BY <1>1, <1>3, <1>e DEF FoundInv, CliFound
    <3>2. cli.op \in {"activate", "prepare"}
      BY <1>1, <3>1 DEF TypeInv, CliOK, Clis, Schema, LoopPcs
    <3>3. c \in {IncidentSha, head}
      BY <1>1, <1>e DEF FoundInv, Commits
    <3> QED BY <3>1, <3>2, <3>3
  \* An environment with no intent of this commit and none of IncidentSha has none.
  <2>5. intent[e][IncidentSha] = NoIntent => \A y \in Sha : intent[e][y] = NoIntent
    <3>1. CASE c = IncidentSha
      BY <1>e, <2>4, <3>1 DEF FoundInv, CliFound
    <3>2. CASE c = head
      BY <1>3, <3>2 DEF FoundInv, Commits
    <3> QED BY <2>4, <3>1, <3>2
  <2>6. Fresh(e) => \/ cli.base = found[e]
                    \/ c # IncidentSha /\ intent'[e][IncidentSha] # NoIntent
    <3>1. CASE intent[e][IncidentSha] = NoIntent
      <4>1. Fresh(e) => surface[e] = found[e]
        BY <2>5, <3>1 DEF FoundInv, FilesFound
      <4> QED BY <2>4, <4>1
    <3>2. CASE intent[e][IncidentSha] # NoIntent
      <4>1. c # IncidentSha
        BY <1>3, <3>2
      <4>2. intent'[e][IncidentSha] # NoIntent
        BY <2>3, <3>2, <4>1, Constants
      <4> QED BY <4>1, <4>2
    <3> QED BY <3>1, <3>2
  <2>7. \A x \in Env : Fresh(x)' => Fresh(x)
    BY FreshBack
  <2>8. \A x \in Env, y \in Sha : Fresh(x)' /\ intent'[x][y] # NoIntent =>
             Faithful(x, y, intent[x][y].surface)'
    <3> SUFFICES ASSUME NEW x \in Env, NEW y \in Sha, Fresh(x)', intent'[x][y] # NoIntent
                 PROVE  Faithful(x, y, intent[x][y].surface)'
      OBVIOUS
    <3>1. CASE x = e /\ y = c
      <4>1. intent'[x][y].surface = cli.base /\ Fresh(e)
        BY <2>2, <2>3, <2>7, <3>1
      <4> QED BY <1>1, <2>6, <3>1, <4>1 DEF Faithful
    <3>2. CASE ~(x = e /\ y = c)
      <4>1. intent'[x][y] = intent[x][y]
        BY <2>3, <3>2
      <4>2. Faithful(x, y, intent[x][y].surface)
        BY <2>7, <4>1 DEF FoundInv, FilesFound
      <4> QED BY <1>1, <2>2, <2>3, <4>1, <4>2, Constants DEF Faithful
    <3> QED BY <3>1, <3>2
  <2>9. \A x \in Env, r \in ReceiptId :
            Fresh(x)' /\ receipt[r] # NoReceipt /\ receipt[r].env = x =>
              Faithful(x, receipt[r].sha, receipt[r].surface)'
    BY <1>1, <2>2, <2>3, <2>7, Constants DEF FoundInv, FilesFound, Faithful
  <2>10. \A x \in Env : Fresh(x)' /\ (\A y \in Sha : intent'[x][y] = NoIntent) =>
            surface'[x] = found'[x]
    BY <1>1, <2>2, <2>3, <2>7 DEF FoundInv, FilesFound
  <2> QED BY <1>1, <2>8, <2>9, <2>10 DEF FilesFound, Faithful
<1> QED BY <1>2, <1>3

LEMMA SaveReceiptFound ==
  ASSUME TypeInv, FoundInv, [Next]_vars, SaveReceipt
  PROVE  FilesFound'
<1>0. cli.env \in Env
  BY RunningCli DEF SaveReceipt, At
<1>e. PICK e \in Env : e = cli.env
  BY <1>0
<1> DEFINE c == cli.sha
           n == NextReceipt
           new == [env |-> e, sha |-> c, owner |-> cli.owner, surface |-> intent[e][c].surface]
<1>1. /\ c \in Sha /\ intent[e][c] # NoIntent
      /\ UNCHANGED <<found, surface, intent>>
      /\ receipt \in [ReceiptId -> Receipt \cup {NoReceipt}]
  <2>1. cli.pc = "bookmark" /\ UNCHANGED <<found, surface, intent>>
    BY DEF SaveReceipt, At, world, remote
  <2>2. cli.op \in {"activate"} \cup Schema
    BY <2>1 DEF TypeInv, CliOK, Clis, LoopPcs
  <2> QED BY <1>e, <2>1, <2>2, RunningCli DEF TypeInv, CliOK, LocalOK
<1>2. CASE receipt' = receipt
  BY <1>1, <1>2, StillFound DEF FoundInv
<1>3. CASE receipt' # receipt
  <2>1. n \in ReceiptId /\ receipt' = [receipt EXCEPT ![n] = new]
    BY <1>3, <1>e DEF SaveReceipt, Here
  <2>2. new.env = e /\ new.sha = c /\ new.surface = intent[e][c].surface
    OBVIOUS
  <2> HIDE DEF new, n
  <2>3. \A r \in ReceiptId : receipt'[r] = IF r = n THEN new ELSE receipt[r]
    BY <1>1, <2>1
  <2>4. \A x \in Env : Fresh(x)' => Fresh(x)
    BY FreshBack
  <2>5. \A x \in Env, y \in Sha : Fresh(x)' /\ intent[x][y] # NoIntent =>
             Faithful(x, y, intent[x][y].surface)
    BY <2>4 DEF FoundInv, FilesFound
  <2>6. \A x \in Env, r \in ReceiptId :
            Fresh(x)' /\ receipt'[r] # NoReceipt /\ receipt'[r].env = x =>
              Faithful(x, receipt'[r].sha, receipt'[r].surface)
    <3> SUFFICES ASSUME NEW x \in Env, NEW r \in ReceiptId, Fresh(x)',
                        receipt'[r] # NoReceipt, receipt'[r].env = x
                 PROVE  Faithful(x, receipt'[r].sha, receipt'[r].surface)
      OBVIOUS
    <3>1. CASE r = n
      <4>1. receipt'[r] = new /\ x = e
        BY <2>2, <2>3, <3>1
      <4> QED BY <1>1, <2>2, <2>5, <4>1
    <3>2. CASE r # n
      BY <2>3, <2>4, <3>2 DEF FoundInv, FilesFound
    <3> QED BY <3>1, <3>2
  <2>7. \A x \in Env : Fresh(x)' /\ (\A y \in Sha : intent[x][y] = NoIntent) =>
            surface[x] = found[x]
    BY <2>4 DEF FoundInv, FilesFound
  <2> QED BY <1>1, <2>5, <2>6, <2>7 DEF FilesFound, Faithful
<1> QED BY <1>2, <1>3

\* An intent goes when its run is activated, or when the surface it records is back.
LEMMA RemoveIntentFound ==
  ASSUME TypeInv, FoundInv, [Next]_vars, RemoveIntent
  PROVE  FilesFound'
<1>0. cli.env \in Env
  BY RunningCli DEF RemoveIntent
<1>e. PICK e \in Env : e = cli.env
  BY <1>0
<1> DEFINE c == cli.sha
<1>1. /\ cli.pc \in {"unintent", "r_intent"} /\ UNCHANGED <<found, surface, receipt, version, runPhase>>
      /\ intent' = [intent EXCEPT ![e][c] = NoIntent] /\ c \in Sha
      /\ intent \in [Env -> [Sha -> Intent \cup {NoIntent}]]
  BY <1>e, RunningCli DEF RemoveIntent, Here, world, remote, TypeInv, LocalOK
<1>2. \A x \in Env, y \in Sha :
         intent'[x][y] = IF x = e /\ y = c THEN NoIntent ELSE intent[x][y]
  BY <1>1
<1>3. \A x \in Env : Fresh(x)' => Fresh(x)
  BY FreshBack
\* Elsewhere nothing changes.
<1>4. ASSUME NEW x \in Env, x # e, Fresh(x)'
      PROVE  /\ \A y \in Sha : intent'[x][y] # NoIntent => Faithful(x, y, intent[x][y].surface)'
             /\ \A r \in ReceiptId : receipt'[r] # NoReceipt /\ receipt'[r].env = x =>
                   Faithful(x, receipt[r].sha, receipt[r].surface)'
             /\ (\A y \in Sha : intent'[x][y] = NoIntent) => surface'[x] = found'[x]
  <2>1. \A y \in Sha : intent'[x][y] = intent[x][y]
    BY <1>2, <1>4
  <2> QED BY <1>1, <1>3, <1>4, <2>1, Constants DEF FoundInv, FilesFound, Faithful
<1>5. ASSUME Fresh(e)'
      PROVE  /\ \A y \in Sha : intent'[e][y] # NoIntent => Faithful(e, y, intent[e][y].surface)'
             /\ \A r \in ReceiptId : receipt'[r] # NoReceipt /\ receipt'[r].env = e =>
                   Faithful(e, receipt[r].sha, receipt[r].surface)'
             /\ (\A y \in Sha : intent'[e][y] = NoIntent) => surface'[e] = found'[e]
  <2>1. cli.pc = "r_intent"
    <3>1. SUFFICES ASSUME cli.pc = "unintent" PROVE FALSE
      BY <1>1
    <3>2. cli.rid \in ReceiptId /\ receipt[cli.rid] \in Receipt /\ receipt[cli.rid].env = e
      BY <1>e, <3>1, RunPcs, RunOfCli
    <3>3. receipt[cli.rid] # NoReceipt
      BY <3>1, <3>2, RunPcs, RunOfCli DEF TypeInv, CliOK
    <3>4. runPhase[cli.rid] = "activated"
      BY <3>1 DEF FoundInv, CliFound
    <3> QED BY <1>1, <1>5, <3>2, <3>3, <3>4 DEF Fresh
  <2>2. cli.op = "prepare" /\ intent[e][c] # NoIntent
    <3>1. cli.op \in Schema /\ intent[e][c] # NoIntent
      BY <1>e, <2>1, RunningCli DEF TypeInv, CliOK, CleanupPcs
    <3>2. Attested(e)
      BY <1>1, <1>5 DEF Fresh, Attested
    <3>3. cli.op # "repair"
      BY <1>e, <2>1, <3>2 DEF FoundInv, CliFound
    <3> QED BY <3>1, <3>3 DEF Schema
  <2>3. surface[e] = intent[e][c].surface
    BY <1>e, <2>1 DEF FoundInv, CliFound
  <2>4. Faithful(e, c, intent[e][c].surface) /\ c \in {IncidentSha, head}
    BY <1>1, <1>3, <1>5, <2>1, <2>2 DEF FoundInv, FilesFound, Commits
  <2>5. CASE c = IncidentSha
    <3>1. surface[e] = found[e]
      BY <2>3, <2>4, <2>5 DEF Faithful
    <3>2. /\ \A y \in Sha : intent'[e][y] = NoIntent
          /\ \A r \in ReceiptId : receipt[r] # NoReceipt /\ receipt[r].env = e =>
                receipt[r].sha = IncidentSha
      BY <1>e, <1>2, <2>2, <2>5 DEF FoundInv, CliFound
    <3>3. \A r \in ReceiptId : receipt[r] # NoReceipt /\ receipt[r].env = e =>
                receipt[r].surface = found[e]
      BY <1>3, <1>5, <3>2 DEF FoundInv, FilesFound, Faithful
    <3> QED BY <1>1, <3>1, <3>2, <3>3 DEF Faithful
  <2>6. CASE c # IncidentSha
    <3>1. intent'[e][IncidentSha] = intent[e][IncidentSha]
      BY <1>2, <2>6, Constants
    <3>2. \A y \in Sha : intent'[e][y] # NoIntent =>
             /\ intent'[e][y] = intent[e][y] /\ Faithful(e, y, intent[e][y].surface)
      BY <1>2, <1>3, <1>5 DEF FoundInv, FilesFound
    <3>3. \A r \in ReceiptId : receipt[r] # NoReceipt /\ receipt[r].env = e =>
                Faithful(e, receipt[r].sha, receipt[r].surface)
      BY <1>3, <1>5 DEF FoundInv, FilesFound
    <3>4. (\A y \in Sha : intent'[e][y] = NoIntent) => surface[e] = found[e]
      BY <2>3, <2>4, <3>1, Constants DEF Faithful
    <3> QED BY <1>1, <3>1, <3>2, <3>3, <3>4 DEF Faithful
  <2> QED BY <2>5, <2>6
<1>6. \A x \in Env : Fresh(x)' =>
        /\ \A y \in Sha : intent'[x][y] # NoIntent => Faithful(x, y, intent[x][y].surface)'
        /\ \A r \in ReceiptId : receipt'[r] # NoReceipt /\ receipt'[r].env = x =>
              Faithful(x, receipt[r].sha, receipt[r].surface)'
        /\ (\A y \in Sha : intent'[x][y] = NoIntent) => surface'[x] = found'[x]
  BY <1>4, <1>5
<1> QED BY <1>6 DEF FilesFound


\* A surface with the Queue and the Cron of another one is that one.
LEMMA SameSurface ==
  ASSUME NEW s \in Surface, NEW t \in Surface, s.paused = t.paused, s.cron = t.cron
  PROVE  s = t
BY DEF Surface

\* The commands change the surface where an intent is on file, except for a resumed
\* run: it restores what its receipt records.
LEMMA SurfaceFound ==
  ASSUME TypeInv, FoundInv, [Next]_vars, surface' # surface,
         StopCron \/ PauseQueue \/ Deploy \/ RestoreQueue \/ RestoreCron \/ RestoreSurface
  PROVE  FilesFound'
<1>0. cli.pc \in {"stop", "pause", "loop", "cron", "r_queue", "r_cron"}
  BY DEF StopCron, PauseQueue, Deploy, RestoreQueue, RestoreCron, RestoreSurface, RestorePart, At, LoopAt
<1>1. cli.env \in Env /\ cli.sha \in Sha /\ surface \in [Env -> Surface]
  BY <1>0, RunningCli DEF TypeInv, RemoteOK
<1>e. PICK e \in Env : e = cli.env
  BY <1>1
<1>2. UNCHANGED <<found, intent, receipt>>
  BY DEF StopCron, PauseQueue, Deploy, RestoreQueue, RestoreCron, RestoreSurface, RestorePart,
         files, world
<1>3. \A x \in Env : x # e => surface'[x] = surface[x]
  BY <1>1, <1>e DEF StopCron, PauseQueue, Deploy, RestoreQueue, RestoreCron, RestoreSurface,
     RestorePart, SetPaused, SetCron, Here
<1>4. \A x \in Env : Fresh(x)' => Fresh(x)
  BY FreshBack
<1>5. ASSUME Fresh(e)', \A y \in Sha : intent[e][y] = NoIntent
      PROVE  surface'[e] = found[e]
  <2>1. cli.op = "resume"
    BY <1>0, <1>1, <1>5, <1>e DEF TypeInv, CliOK, Clis
  <2>0. cli.pc \in {"loop", "cron"} /\ (Deploy \/ RestoreQueue \/ RestoreCron)
    BY <1>0, <2>1, RunningCli DEF LoopPcs, StopCron, PauseQueue, RestoreSurface, RestorePart, At
  <2>3. /\ cli.rid \in ReceiptId /\ receipt[cli.rid].env = e
        /\ receipt[cli.rid] # NoReceipt /\ receipt[cli.rid].surface \in Surface
    BY <1>e, <2>0, RunPcs, RunOfCli DEF TypeInv, CliOK
  <2>2. RestoreQueue \/ RestoreCron
    <3>1. e = "staging"
      BY <1>4, <1>5, <2>3 DEF FoundInv, OnFile
    <3> QED BY <1>e, <2>0, <3>1 DEF Deploy, Here
  <2>4. receipt[cli.rid].surface = found[e] /\ surface[e] = found[e]
    BY <1>4, <1>5, <2>3, Constants DEF FoundInv, FilesFound, Faithful
  <2>5. \/ surface' = [surface EXCEPT ![e].paused = found[e].paused]
        \/ surface' = [surface EXCEPT ![e].cron = found[e].cron]
    BY <1>e, <2>2, <2>4 DEF RestoreQueue, RestoreCron, SetPaused, SetCron, Here, MyReceipt
  <2>6. surface'[e] \in Surface /\ surface'[e].paused = found[e].paused
        /\ surface'[e].cron = found[e].cron
    BY <1>1, <2>3, <2>4, <2>5 DEF Surface
  <2> QED BY <2>3, <2>4, <2>6, SameSurface
<1>6. \A x \in Env : Fresh(x)' /\ (\A y \in Sha : intent[x][y] = NoIntent) =>
         surface'[x] = found[x]
  BY <1>3, <1>4, <1>5 DEF FoundInv, FilesFound
<1>7. \A x \in Env : Fresh(x)' =>
        /\ \A y \in Sha : intent[x][y] # NoIntent => Faithful(x, y, intent[x][y].surface)
        /\ \A r \in ReceiptId : receipt[r] # NoReceipt /\ receipt[r].env = x =>
              Faithful(x, receipt[r].sha, receipt[r].surface)
  BY <1>4 DEF FoundInv, FilesFound
<1> QED BY <1>2, <1>6, <1>7 DEF FilesFound, Faithful

LEMMA FilesNext ==
  ASSUME TypeInv, FoundInv, [Next]_vars
  PROVE  FilesFound'
<1>1. CASE UNCHANGED <<intent, receipt, surface>>
  BY <1>1, StillFound DEF FoundInv
<1>2. CASE ~UNCHANGED <<intent, receipt, surface>>
  BY <1>2, NextRows, LoadIntentFound, RemoveIntentFound, SaveReceiptFound, SurfaceFound
<1> QED BY <1>1, <1>2

\* What is on file is the commit's that the command works on.
LEMMA FilesOfCommand ==
  ASSUME TypeInv, [Next]_vars
  PROVE  /\ \A e \in Env, c \in Sha : intent'[e][c] # NoIntent =>
               intent[e][c] # NoIntent \/ (LoadIntent /\ e = cli.env /\ c = cli.sha)
         /\ \A r \in ReceiptId : receipt'[r] # NoReceipt =>
               \/ receipt'[r] = receipt[r]
               \/ SaveReceipt /\ receipt'[r].env = cli.env /\ receipt'[r].sha = cli.sha
<1>0. /\ intent \in [Env -> [Sha -> Intent \cup {NoIntent}]]
      /\ receipt \in [ReceiptId -> Receipt \cup {NoReceipt}]
  BY DEF TypeInv, LocalOK
<1>1. \A e \in Env, c \in Sha : intent'[e][c] # NoIntent =>
         intent[e][c] # NoIntent \/ (LoadIntent /\ e = cli.env /\ c = cli.sha)
  <2>1. CASE LoadIntent
    <3>1. PICK i : intent' = [intent EXCEPT ![cli.env][cli.sha] = i]
      BY <2>1 DEF LoadIntent, Here
    <3> QED BY <1>0, <2>1, <3>1
  <2>2. CASE RemoveIntent
    <3>1. intent' = [intent EXCEPT ![cli.env][cli.sha] = NoIntent]
      BY <2>2 DEF RemoveIntent, Here
    <3> QED BY <1>0, <3>1
  <2> QED BY <2>1, <2>2, NextRows
<1>2. \A r \in ReceiptId : receipt'[r] # NoReceipt =>
         \/ receipt'[r] = receipt[r]
         \/ SaveReceipt /\ receipt'[r].env = cli.env /\ receipt'[r].sha = cli.sha
  <2>1. CASE SaveReceipt /\ receipt' # receipt
    <3> DEFINE n == NextReceipt
    <3>1. PICK o, s : receipt' = [receipt EXCEPT ![n] = [env |-> cli.env, sha |-> cli.sha,
                                                         owner |-> o, surface |-> s]]
      BY <2>1 DEF SaveReceipt, Here
    <3> HIDE DEF n
    <3> QED BY <1>0, <2>1, <3>1
  <2> QED BY <2>1, NextRows
<1> QED BY <1>1, <1>2

\* How the command changes in any step.
LEMMA NextCli ==
  ASSUME TypeInv, [Next]_vars
  PROVE  \/ cli' = cli \/ cli' = Idle
         \/ Step \/ Raise \/ Exit
         \/ \E e \in Env : Activate(e) \/ Prepare(e) \/ Repair(e)
         \/ \E r \in ReceiptId : Resume(r)
BY DEF Next, ApplyOne, DetachedEnds, Expire, Worker, Merge, vars

LEMMA OnFileNext ==
  ASSUME TypeInv, FoundInv, [Next]_vars
  PROVE  OnFile'
<1>1. cli'.op \in Schema => cli'.env = "staging"
  <2>0. OnFile
    BY DEF FoundInv
  <2>1. CASE cli' = cli \/ cli' = Idle
    BY <2>0, <2>1, IdleOK DEF OnFile, Schema
  <2>2. CASE Step \/ Raise \/ Exit
    BY <2>0, <2>1, <2>2, StepCli DEF OnFile, Same
  <2>3. CASE \E e \in Env : Activate(e) \/ Prepare(e) \/ Repair(e)
    BY <2>3, LaunchPc DEF Activate, Prepare, Repair, Schema
  <2>4. CASE \E r \in ReceiptId : Resume(r)
    BY <2>4, ResumePc DEF Schema
  <2> QED BY <2>1, <2>2, <2>3, <2>4, NextCli
<1>2. ASSUME NEW e \in Env, e # "staging", Fresh(e)',
             NEW r \in ReceiptId, receipt'[r] # NoReceipt, receipt'[r].env = e
      PROVE  \E c \in Sha : intent'[e][c] # NoIntent
  <2>0. Fresh(e) /\ OnFile
    BY <1>2, FreshBack DEF FoundInv
  <2>1. PICK c \in Sha : intent[e][c] # NoIntent
    <3>1. CASE receipt'[r] = receipt[r]
      BY <1>2, <2>0, <3>1 DEF OnFile
    <3>2. CASE SaveReceipt /\ e = cli.env
      <4>1. cli.pc = "bookmark"
        BY <3>2 DEF SaveReceipt, At
      <4>2. cli.op \in {"activate"} \cup Schema
        BY <4>1 DEF TypeInv, CliOK, Clis, LoopPcs
      <4> QED BY <3>2, <4>1, <4>2, RunningCli DEF TypeInv, CliOK
    <3> QED BY <1>2, <3>1, <3>2, FilesOfCommand
  <2>2. intent \in [Env -> [Sha -> Intent \cup {NoIntent}]]
    BY DEF TypeInv, LocalOK
  <2>3. CASE LoadIntent
    <3>1. PICK i : /\ intent' = [intent EXCEPT ![cli.env][cli.sha] = i]
                   /\ intent[cli.env][cli.sha] # NoIntent => i = intent[cli.env][cli.sha]
      BY <2>3 DEF LoadIntent, Here
    <3> QED BY <2>1, <2>2, <3>1
  <2>4. CASE RemoveIntent
    <3>1. cli.pc \in {"unintent", "r_intent"} /\ intent' = [intent EXCEPT ![cli.env][cli.sha] = NoIntent]
      BY <2>4 DEF RemoveIntent, Here
    <3>2. cli.env # e
      <4>1. CASE cli.pc = "r_intent"
        BY <1>2, <2>0, <4>1, RunningCli DEF TypeInv, CliOK, CleanupPcs, OnFile
      <4>2. CASE cli.pc = "unintent"
        <5>1. cli.rid \in ReceiptId /\ receipt[cli.rid].env = cli.env /\ receipt[cli.rid] # NoReceipt
          BY <4>2, RunPcs, RunOfCli DEF TypeInv, CliOK
        <5>2. runPhase[cli.rid] = "activated"
          BY <4>2 DEF FoundInv, CliFound
        <5> QED BY <2>0, <5>1, <5>2 DEF Fresh
      <4> QED BY <3>1, <4>1, <4>2
    <3> QED BY <2>1, <2>2, <3>1, <3>2
  <2> QED BY <2>1, <2>3, <2>4, NextRows
<1> QED BY <1>1, <1>2 DEF OnFile

LEMMA CommitsNext ==
  ASSUME TypeInv, FoundInv, [Next]_vars
  PROVE  Commits'
<1>0. head' = head \/ head = IncidentSha
  BY NextRows DEF Merge
<1>1. \A e \in Env, c \in Sha : intent'[e][c] # NoIntent => c \in {IncidentSha, head'}
  <2>1. LoadIntent => cli.sha \in {IncidentSha, head}
    BY DEF LoadIntent, At, FoundInv, Commits
  <2> QED BY <1>0, <2>1, FilesOfCommand DEF FoundInv, Commits
<1>2. \A r \in ReceiptId : receipt'[r] # NoReceipt => receipt'[r].sha \in {IncidentSha, head'}
  <2>1. SaveReceipt => cli.sha \in {IncidentSha, head}
    BY DEF SaveReceipt, At, FoundInv, Commits
  <2> QED BY <1>0, <2>1, FilesOfCommand DEF FoundInv, Commits
<1>3. cli'.pc # "idle" => cli'.sha \in {IncidentSha, head'}
  <2>1. CASE cli' = cli \/ cli' = Idle
    BY <1>0, <2>1, IdleOK DEF FoundInv, Commits
  <2>2. CASE Step \/ Raise \/ Exit
    BY <1>0, <2>1, <2>2, StepCli DEF FoundInv, Commits, Same
  <2>3. CASE \E e \in Env : Activate(e) \/ Prepare(e) \/ Repair(e)
    <3>1. PICK e \in Env : Activate(e) \/ Prepare(e) \/ Repair(e)
      BY <2>3
    <3>2. cli'.sha \in {IncidentSha, head}
      BY <3>1, LaunchPc DEF Activate, Prepare, Repair
    <3> QED BY <1>0, <3>2
  <2>4. ASSUME NEW r \in ReceiptId, Resume(r) PROVE cli'.sha \in {IncidentSha, head}
    <3>1. receipt[r] # NoReceipt /\ receipt[r] \in Receipt
      BY <2>4, ResumePc
    <3>2. cli'.sha = receipt[r].sha
      BY <2>4, <3>1, IdleOK DEF Resume, Clis, Receipt
    <3> QED BY <3>1, <3>2 DEF FoundInv, Commits
  <2> QED BY <1>0, <2>1, <2>2, <2>3, <2>4, NextCli
<1> QED BY <1>1, <1>2, <1>3 DEF Commits


\* The steps that give a surface back, half by half.
LEMMA RestoresPart ==
  ASSUME TypeInv, CliFound, RestoreSurface
  PROVE  /\ cli'.pc = "r_cron" /\ ~cli'.failed /\ cli'.clean =>
              surface'[cli.env].paused = intent[cli.env][cli.sha].surface.paused
         /\ cli'.pc = "r_release" /\ ~cli'.failed /\ cli'.clean =>
              surface'[cli.env] = intent[cli.env][cli.sha].surface
<1> DEFINE e == cli.env
           t == intent[e][cli.sha].surface
<1>1. /\ cli.pc \in {"r_queue", "r_cron"} /\ cli.op \in Schema /\ cli \in Clis
      /\ e \in Env /\ cli.sha \in Sha /\ surface \in [Env -> Surface]
  BY RestoreSurfacePc, RunningCli DEF TypeInv, RemoteOK
<1>2. t \in Surface
  BY <1>1 DEF TypeInv, CliOK, LocalOK, Intent
<1>3. ASSUME NEW q \in {"r_cron", "r_release"}, Goto(q)
      PROVE  cli'.pc = q /\ cli'.failed = cli.failed /\ cli'.clean = cli.clean
  BY <1>1, <1>3 DEF Goto, Clis
<1>4. ASSUME NEW q \in {"r_cron", "r_release"}, cli' = [cli EXCEPT !.clean = FALSE, !.pc = q]
      PROVE  cli'.clean = FALSE
  BY <1>1, <1>4 DEF Clis
<1>5. CASE RestorePart("r_queue", "r_cron", SetPaused(t.paused))
  <2>1. CASE SetPaused(t.paused) /\ Goto("r_cron")
    <3>1. surface'[e].paused = t.paused
      BY <1>1, <1>2, <2>1 DEF SetPaused, Here, Surface
    <3> QED BY <1>3, <2>1, <3>1
  <2> QED BY <1>4, <1>5, <2>1 DEF RestorePart
<1>6. CASE RestorePart("r_cron", "r_release", SetCron(t.cron))
  <2>1. CASE SetCron(t.cron) /\ Goto("r_release")
    <3>1. /\ surface'[e] \in Surface /\ surface'[e].cron = t.cron
          /\ surface'[e].paused = surface[e].paused
      BY <1>1, <1>2, <2>1 DEF SetCron, Here, Surface
    <3>2. ~cli.failed /\ cli.clean => surface[e].paused = t.paused
      BY <1>6 DEF CliFound, RestorePart, At
    <3>3. ~cli.failed /\ cli.clean => surface'[e] = t
      BY <1>2, <3>1, <3>2, SameSurface
    <3> QED BY <1>3, <2>1, <3>3
  <2> QED BY <1>4, <1>6, <2>1 DEF RestorePart
<1> QED BY <1>5, <1>6 DEF RestoreSurface, Here

\* The same for a run: the Queue of its receipt, then the Cron.
LEMMA RestoresRun ==
  ASSUME TypeInv, CliFound, RestoreQueue \/ RestoreCron
  PROVE  /\ Same /\ cli'.rid = cli.rid /\ Attested(cli.env) /\ UNCHANGED <<version, receipt>>
         /\ cli'.pc = "cron" =>
              surface'[cli.env].paused = receipt[cli.rid].surface.paused
         /\ cli'.pc = "finish" => surface'[cli.env] = receipt[cli.rid].surface
<1> DEFINE e == cli.env
           t == receipt[cli.rid].surface
<1>1. cli.pc \in {"loop", "cron"} /\ UNCHANGED <<version, receipt>>
  BY DEF RestoreQueue, RestoreCron, At, LoopAt, files
<1>2. e \in Env /\ surface \in [Env -> Surface] /\ t \in Surface
  BY <1>1, RunPcs, RunOfCli DEF TypeInv, RemoteOK
<1>3. CASE RestoreQueue
  <2>1. Goto("cron") /\ Attested(e) /\ SetPaused(t.paused)
    BY <1>3 DEF RestoreQueue, LoopAt, Here, MyReceipt
  <2>2. surface'[e].paused = t.paused
    BY <1>2, <2>1 DEF SetPaused, Here, Surface
  <2> QED BY <1>1, <2>1, <2>2, GotoPc DEF Pcs
<1>4. CASE RestoreCron
  <2>1. Goto("finish") /\ Attested(e) /\ SetCron(t.cron) /\ surface[e].paused = t.paused
    BY <1>4 DEF RestoreCron, At, MyReceipt, CliFound
  <2>2. /\ surface'[e] \in Surface /\ surface'[e].cron = t.cron
        /\ surface'[e].paused = surface[e].paused
    BY <1>2, <2>1 DEF SetCron, Here, Surface
  <2>3. surface'[e] = t
    BY <1>2, <2>1, <2>2, SameSurface
  <2> QED BY <1>1, <2>1, <2>3, GotoPc DEF Pcs
<1> QED BY <1>3, <1>4

LEMMA StepCliFound ==
  ASSUME TypeInv, FoundInv, Step \/ Raise \/ Exit, cli' # Idle
  PROVE  CliFound'
<1>0. [Next]_vars
  BY DEF Next
<1>1. /\ Same /\ cli.pc # "idle" /\ cli'.pc # "intent"
      /\ cli'.pc = "cron" => RestoreQueue
      /\ cli'.pc = "finish" => RestoreCron
      /\ cli'.pc = "unintent" => ReleaseActivated
      /\ cli'.pc = "r_intent" => ReleasePrepared
      /\ cli'.pc = "r_cron" => RestoreSurface
      /\ cli'.pc = "r_release" => RestoreSurface \/ cli'.failed
      /\ cli.pc = "intent" => cli'.pc \in {"lease", "stop"} /\ LoadIntent
      /\ cli.pc = "lease" => PrepareLease \/ RepairLease
  BY StepCli
<1>2. /\ cli.env \in Env /\ cli.sha \in Sha
      /\ cli.op \in {"activate", "resume"} \cup Schema
  BY <1>1 DEF TypeInv, CliOK, Clis
<1>e. PICK e \in Env : e = cli.env
  BY <1>2
<1>3. cli'.env = e /\ cli'.op = cli.op /\ cli'.sha = cli.sha
  BY <1>1, <1>e DEF Same
<1>4. cli'.op \in {"activate", "prepare"} /\ cli'.sha = IncidentSha =>
       /\ \A c \in Sha : intent'[e][c] # NoIntent => c = IncidentSha
       /\ \A r \in ReceiptId : receipt'[r] # NoReceipt /\ receipt'[r].env = e =>
             receipt'[r].sha = IncidentSha
  BY <1>0, <1>3, <1>e, FilesOfCommand DEF FoundInv, CliFound
<1>5. cli'.op = "repair" /\ cli'.pc \notin {"intent", "lease"} => ~Attested(e)'
  <2> SUFFICES ASSUME cli.op = "repair", cli'.pc \notin {"intent", "lease"}
               PROVE  ~Attested(e)
    BY <1>0, <1>3, FreshBack
  <2>1. CASE cli.pc = "intent"
    <3>1. LoadIntent
      BY <1>1, <2>1
    <3>2. cli'.pc = "lease"
      BY <3>1, LoadIntentPc DEF Schema
    <3> QED BY <3>2
  <2>2. CASE cli.pc = "lease"
    <3>1. RepairLease
      BY <1>1, <2>2 DEF PrepareLease
    <3> QED BY <1>e, <3>1 DEF RepairLease, FrozenJsda, Attested, Here
  <2>3. CASE cli.pc \notin {"intent", "lease"}
    BY <1>e, <2>3 DEF FoundInv, CliFound
  <2> QED BY <2>1, <2>2, <2>3
<1>6. /\ cli'.pc = "r_cron" /\ ~cli'.failed /\ cli'.clean =>
           surface'[e].paused = intent'[e][cli'.sha].surface.paused
      /\ cli'.pc = "r_release" /\ ~cli'.failed /\ cli'.clean =>
           surface'[e] = intent'[e][cli'.sha].surface
  <2>1. RestoreSurface => intent' = intent
    BY DEF RestoreSurface, RestorePart, files
  <2> QED BY <1>1, <1>3, <1>e, <2>1, RestoresPart DEF FoundInv
<1>7. cli'.pc = "r_intent" => surface'[e] = intent'[e][cli'.sha].surface
  <2> SUFFICES ASSUME cli'.pc = "r_intent"
               PROVE  surface'[e] = intent'[e][cli'.sha].surface
    OBVIOUS
  <2>1. ReleasePrepared /\ cli.pc = "r_release" /\ UNCHANGED <<intent, surface>>
    BY <1>1 DEF ReleasePrepared, At, files
  <2>2. ~cli.failed /\ cli.clean
    BY <2>1, IdleOK DEF ReleasePrepared
  <2> QED BY <1>3, <1>e, <2>1, <2>2 DEF FoundInv, CliFound
<1>8. /\ cli'.pc = "cron" => /\ Attested(e)'
                             /\ surface'[e].paused = receipt'[cli'.rid].surface.paused
      /\ cli'.pc = "finish" => Attested(e)' /\ surface'[e] = receipt'[cli'.rid].surface
  <2> SUFFICES ASSUME cli'.pc \in {"cron", "finish"}
               PROVE  /\ Attested(e)'
                      /\ cli'.pc = "cron" =>
                           surface'[e].paused = receipt'[cli'.rid].surface.paused
                      /\ cli'.pc = "finish" => surface'[e] = receipt'[cli'.rid].surface
    OBVIOUS
  <2>1. RestoreQueue \/ RestoreCron
    BY <1>1
  <2> QED BY <1>e, <2>1, RestoresRun DEF FoundInv, Attested
<1>9. cli'.pc = "unintent" => runPhase'[cli'.rid] = "activated"
  <2> SUFFICES ASSUME cli'.pc = "unintent" PROVE runPhase'[cli'.rid] = "activated"
    OBVIOUS
  <2>1. Goto("unintent") /\ runPhase' = runPhase /\ runPhase[cli.rid] = "activated"
    BY <1>1 DEF ReleaseActivated, LoopAt, MyPhase
  <2> QED BY <2>1, GotoPc DEF Pcs
<1> QED BY <1>1, <1>3, <1>4, <1>5, <1>6, <1>7, <1>8, <1>9 DEF CliFound

LEMMA LaunchFound ==
  ASSUME TypeInv, FoundInv,
         \/ \E e \in Env : Activate(e) \/ Prepare(e) \/ Repair(e)
         \/ \E r \in ReceiptId : Resume(r)
  PROVE  CliFound'
<1>1. CASE \E r \in ReceiptId : Resume(r)
  BY <1>1, ResumePc DEF CliFound
<1>2. ASSUME NEW e \in Env, Activate(e) \/ Prepare(e) \/ Repair(e)
      PROVE  CliFound'
  <2>1. /\ cli'.pc = "intent" /\ cli'.env = e /\ cli'.base = surface[e]
        /\ \/ cli'.op \in {"activate", "prepare"} /\ cli'.sha = head
           \/ cli'.op = "repair" /\ intent[e][cli'.sha] # NoIntent
    BY <1>2, LaunchPc DEF Activate, Prepare, Repair
  <2>2. UNCHANGED <<surface, intent, receipt>>
    BY <1>2 DEF Activate, Prepare, Repair, Launch, files, remote
  <2>3. head = IncidentSha =>
          /\ \A c \in Sha : intent[e][c] # NoIntent => c = IncidentSha
          /\ \A r \in ReceiptId : receipt[r] # NoReceipt => receipt[r].sha = IncidentSha
    BY DEF FoundInv, Commits
  <2> QED BY <2>1, <2>2, <2>3 DEF CliFound
<1> QED BY <1>1, <1>2

LEMMA FoundInit == Init => FoundInv
<1> SUFFICES ASSUME Init PROVE FoundInv
  OBVIOUS
<1>1. /\ \A e \in Env, c \in Sha : intent[e][c] = NoIntent
      /\ \A r \in ReceiptId : receipt[r] = NoReceipt
      /\ cli = Idle /\ surface = found
  BY DEF Init
<1> QED BY <1>1, IdleOK DEF FoundInv, FilesFound, Commits, CliFound, OnFile, Schema

LEMMA FoundNext == TypeInv /\ FoundInv /\ [Next]_vars => FoundInv'
<1> SUFFICES ASSUME TypeInv, FoundInv, [Next]_vars PROVE FoundInv'
  OBVIOUS
<1>1. FilesFound' /\ Commits' /\ OnFile'
  BY FilesNext, CommitsNext, OnFileNext
<1>2. CliFound'
  <2>1. CASE cli' = Idle
    BY <2>1, IdleOK DEF CliFound
  <2>2. CASE (Step \/ Raise \/ Exit) /\ cli' # Idle
    BY <2>2, StepCliFound
  <2>3. CASE \/ Merge \/ UNCHANGED vars
             \/ \E e \in Env : ApplyOne(e) \/ DetachedEnds(e) \/ Expire(e) \/ Worker(e)
    <3>1. UNCHANGED <<intent, receipt, surface, version, runPhase, cli>>
      BY <2>3 DEF Merge, vars, remote, files, ApplyOne, DetachedEnds, Expire, Worker
    <3> QED BY <3>1 DEF FoundInv, CliFound, Attested
  <2> QED BY <2>1, <2>2, <2>3, LaunchFound DEF Next
<1> QED BY <1>1, <1>2 DEF FoundInv

\* A run is activated by Finish alone.
LEMMA ActivatedByFinish ==
  ASSUME TypeInv, [Next]_vars, NEW r \in ReceiptId, Activates(r)
  PROVE  Finish /\ r = cli.rid
<1>1. runPhase \in [ReceiptId -> RunPhases] /\ runPhase' # runPhase
  BY DEF TypeInv, RemoteOK, Activates
<1>2. CASE StartRun \/ ExactBridge \/ Deployed \/ ActivateControl
  <2>1. PICK v : runPhase' = [runPhase EXCEPT ![cli.rid] = v]
                 /\ (v = "activated" => runPhase[cli.rid] = "activated")
    BY <1>2 DEF StartRun, ExactBridge, Deployed, ActivateControl, Advance, MyPhase
  <2> QED BY <1>1, <2>1 DEF Activates
<1>3. CASE Finish
  <2>1. runPhase' = [runPhase EXCEPT ![cli.rid] = "activated"]
    BY <1>3 DEF Finish, Advance
  <2> QED BY <1>1, <1>3, <2>1 DEF Activates
<1> QED BY <1>1, <1>2, <1>3, NextRows

\* RestoresFound for any commits, receipts and environments: the first run of an
\* environment to be activated leaves its Cron and Queue as the operator found them,
\* however often commands were killed, restarted and resumed before, unless the intent
\* of an attempt of another commit was left behind.
THEOREM CutoverRestoresFound == Spec => RestoresFound
<1> DEFINE Inv == TypeInv /\ FoundInv
<1>1. Init => Inv
  BY TypeInit, FoundInit
<1>2. Inv /\ [Next]_vars => Inv'
  BY TypeNext, FoundNext
<1>3. Inv /\ [Next]_vars =>
        [\A r \in ReceiptId : FirstActivation(r) =>
            \/ surface[receipt[r].env] = found[receipt[r].env]
            \/ Abandoned(receipt[r].env, receipt[r].sha)]_vars
  <2> SUFFICES ASSUME TypeInv, FoundInv, [Next]_vars, NEW r \in ReceiptId, FirstActivation(r)
               PROVE  \/ surface[receipt[r].env] = found[receipt[r].env]
                      \/ Abandoned(receipt[r].env, receipt[r].sha)
    OBVIOUS
  <2>1. Finish /\ r = cli.rid
    BY ActivatedByFinish DEF FirstActivation
  <2>2. cli.pc = "finish"
    BY <2>1 DEF Finish, At
  <2>3. /\ receipt[r].env = cli.env /\ cli.env \in Env /\ receipt[r] # NoReceipt
        /\ receipt[r].sha \in Sha
    BY <2>1, <2>2, RunPcs, RunOfCli DEF TypeInv, CliOK, Receipt
  <2>4. Attested(cli.env) /\ surface[cli.env] = receipt[r].surface
    BY <2>1, <2>2 DEF FoundInv, CliFound
  <2>5. Fresh(cli.env)
    BY <2>3, <2>4 DEF Fresh, FirstActivation
  <2>6. Faithful(cli.env, receipt[r].sha, receipt[r].surface)
    BY <2>3, <2>5 DEF FoundInv, FilesFound
  <2> QED BY <2>3, <2>4, <2>6, Constants DEF Faithful, Abandoned
<1> QED BY <1>1, <1>2, <1>3, PTL DEF Spec, RestoresFound

============================================================================
