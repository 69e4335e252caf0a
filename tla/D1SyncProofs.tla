---------------------------- MODULE D1SyncProofs ----------------------------
(***************************************************************************)
(* The local mirror of D1 for any number of sync processes, exports,       *)
(* changes, audits and signing keys.                                       *)
(***************************************************************************)
EXTENDS D1Sync, FiniteSumsProofs

-----------------------------------------------------------------------------
(* The scan of the audits by issue order.                                  *)

\* The loop body of the scan, and the table of its states.
ScanStep(rows, before, n) ==
  LET row == {e \in Exports :
                /\ rows[e].issued = n
                /\ rows[e].key = key
                /\ e.seq >= before.cursor
                /\ \/ rows[e].kind = "FULL"
                   \/ rows[e].prior \in before.seen}
  IN  IF row = {} THEN before
      ELSE LET e == CHOOSE x \in row : TRUE
           IN [cursor |-> e.seq, seen |-> before.seen \cup {n}, last |-> e]

ScanStart == [cursor |-> -1, seen |-> {}, last |-> None]

IsScan(rows, m, f) ==
  f = [n \in 0 .. m |-> IF n = 0 THEN ScanStart ELSE ScanStep(rows, f[n - 1], n)]

\* The table exists, up to any row: there is no first row without one.
LEMMA ScanExists ==
  ASSUME NEW rows, NEW m \in Nat
  PROVE  \E f : IsScan(rows, m, f)
<1> DEFINE Bad == {k \in Nat : ~\E f : IsScan(rows, k, f)}
<1> SUFFICES ASSUME Bad # {} PROVE FALSE
  OBVIOUS
<1>1. PICK k \in Bad : \A n \in Bad : k <= n
  <2>1. Bad \in SUBSET Nat
    OBVIOUS
  <2> HIDE DEF Bad
  <2> QED BY <2>1, LeastNatural
<1>2. k \in Nat /\ ~\E f : IsScan(rows, k, f)
  BY <1>1
<1>3. k # 0
  <2> DEFINE f == [n \in 0 .. 0 |-> ScanStart]
  <2>1. f = [n \in 0 .. 0 |-> IF n = 0 THEN ScanStart ELSE ScanStep(rows, f[n - 1], n)]
    <3>1. \A n \in 0 .. 0 : n = 0
      OBVIOUS
    <3> QED BY <3>1
  <2>2. IsScan(rows, 0, f)
    BY <2>1 DEF IsScan
  <2> QED BY <1>2, <2>2
<1>4. k - 1 \in Nat /\ k - 1 \notin Bad
  BY <1>1, <1>2, <1>3
<1>5. PICK f : IsScan(rows, k - 1, f)
  BY <1>4
<1> DEFINE g == [n \in 0 .. k |-> IF n = k THEN ScanStep(rows, f[k - 1], k) ELSE f[n]]
<1>6. ASSUME NEW n \in 0 .. k
      PROVE  g[n] = IF n = 0 THEN ScanStart ELSE ScanStep(rows, g[n - 1], n)
  <2>1. CASE n = k
    <3>1. g[k] = ScanStep(rows, f[k - 1], k) /\ g[k - 1] = f[k - 1]
      BY <1>2, <1>3, <1>4
    <3> QED BY <1>3, <2>1, <3>1
  <2>2. CASE n # k
    <3>1. n \in 0 .. (k - 1) /\ g[n] = f[n]
      BY <1>2, <2>2
    <3>2. f[n] = IF n = 0 THEN ScanStart ELSE ScanStep(rows, f[n - 1], n)
      BY <1>5, <3>1 DEF IsScan
    <3>3. n # 0 => g[n - 1] = f[n - 1]
      BY <1>2, <3>1
    <3> QED BY <3>1, <3>2, <3>3
  <2> QED BY <2>1, <2>2
<1>7. g = [n \in 0 .. k |-> IF n = 0 THEN ScanStart ELSE ScanStep(rows, g[n - 1], n)]
  <2> DEFINE h == [n \in 0 .. k |-> IF n = 0 THEN ScanStart ELSE ScanStep(rows, g[n - 1], n)]
  <2>1. \A n \in 0 .. k : g[n] = h[n]
    BY <1>6
  <2>2. DOMAIN g = 0 .. k /\ DOMAIN h = 0 .. k
    OBVIOUS
  <2> QED BY <2>1, <2>2
<1>8. IsScan(rows, k, g)
  BY <1>7 DEF IsScan
<1> QED BY <1>2, <1>8

\* What the latest audit of a table is: the last entry of the scan.
LEMMA EligibleIs ==
  ASSUME NEW rows
  PROVE  \E f : IsScan(rows, MaxIssued, f) /\ Eligible(rows) = f[MaxIssued].last
<1> DEFINE F == CHOOSE Scan : Scan = [n \in 0 .. MaxIssued |->
                  IF n = 0 THEN ScanStart ELSE ScanStep(rows, Scan[n - 1], n)]
<1>1. Eligible(rows) = F[MaxIssued].last
  BY Zenon DEF Eligible, ScanStart, ScanStep
<1>2. \E f : IsScan(rows, MaxIssued, f)
  BY ScanExists, SyncAssumption
<1>3. IsScan(rows, MaxIssued, F)
  BY <1>2, Zenon DEF IsScan
<1> QED BY <1>1, <1>3

Pcs == {"idle", "check", "mark", "fail", "reset", "side", "feed", "change", "advance", "cursor",
        "parity", "complete", "persist", "untrusted", "final", "freeze"}

Run == [pc : Pcs, remote : BOOLEAN, incremental : BOOLEAN, tables : SUBSET {"side", "feed"},
        src : Exports, prior : 0 .. MaxIssued, failed : BOOLEAN, at : 0 .. MaxSeq,
        old : BOOLEAN, spared : BOOLEAN, seal : 0 .. MaxIssued]

\* A run applies no change beyond its export.
WithinExport ==
  \A p \in Procs : run[p].pc \in {"change", "advance"} => run[p].at <= run[p].src.seq

\* Audits are signed as FULL ones, one at each issue time.
AuditsOrdered ==
  /\ \A e \in Exports : audits[e].issued <= issued
  /\ \A e \in Exports : Signed(e) => audits[e].kind = "FULL" /\ audits[e].issued > 0
  /\ \A e, f \in Exports : Signed(e) /\ audits[e].issued = audits[f].issued => e = f

\* The issue time of an audit that is signed and not yet stored is its own.
SealsOwn ==
  \A p \in Procs : run[p].pc = "persist" =>
    /\ run[p].seal \in 1 .. issued
    /\ \A e \in Exports : audits[e].issued # run[p].seal
    /\ \A q \in Procs : q # p /\ run[q].pc = "persist" => run[q].seal # run[p].seal

TypeInv == TypeOK /\ run \in [Procs -> Run] /\ WithinExport /\ AuditsOrdered /\ SealsOwn

\* The inductive invariant of CursorCovers: while no two runs have overlapped and no
\* reset has broken off there is one run, and what it has passed is in the mirror.
CursorInv ==
  ~disturbed =>
    /\ \A p, q \in Procs : run[p].pc # "idle" /\ run[q].pc # "idle" => p = q
    /\ Facts(mirror.cursor) \subseteq mirror.feed
    /\ \A p \in Procs :
         /\ run[p].pc \in {"check", "mark", "reset", "side"} => run[p].at = 0
         /\ run[p].pc = "feed" => Facts(run[p].at) \cap Facts(run[p].src.seq) \subseteq mirror.feed
         /\ run[p].pc \in {"change", "advance"} => Facts(run[p].at) \subseteq mirror.feed
         /\ run[p].pc = "cursor" => Facts(run[p].src.seq) \subseteq mirror.feed

Audit == [kind : {"none", "FULL", "INCREMENTAL"}, prior : 0 .. MaxIssued,
          issued : 0 .. MaxIssued, key : 0 .. MaxKey]

LEMMA Constants ==
  /\ MaxSeq \in Nat /\ MaxRuns \in Nat /\ MaxIssued \in Nat /\ MaxKey \in Nat /\ MaxKey > 0
  /\ \A e \in Exports : e.seq \in 0 .. MaxSeq /\ e.seq \in Nat /\ e.side \subseteq SideRows
  /\ None \notin Exports /\ None.seq = -1
  /\ Empty \in Exports /\ Empty.seq = 0
<1>1. /\ MaxSeq \in Nat /\ MaxRuns \in Nat /\ MaxIssued \in Nat /\ MaxKey \in Nat \ {0}
  BY SyncAssumption
<1>2. \A e \in Exports : e.seq \in 0 .. MaxSeq /\ e.side \subseteq SideRows
  BY DEF Exports
<1>3. None.seq = -1 /\ -1 \notin 0 .. MaxSeq
  BY <1>1 DEF None
<1>4. Empty \in Exports /\ Empty.seq = 0
  BY <1>1 DEF Exports, Empty
<1> QED BY <1>1, <1>2, <1>3, <1>4

LEMMA NoAuditIs ==
  NoAudit \in Audit /\ NoAudit.issued = 0 /\ NoAudit.key = 0 /\ NoAudit.kind = "none"
BY Constants DEF NoAudit, Audit

\* The audits of the active key, up to an issue time.
ActiveUpto(n, e) == audits[e].issued \in 1 .. n /\ audits[e].key = key

\* What the scan knows after n rows: the newest of them, if there is one.
Knows(n, v) ==
  \/ v.last = None /\ v.cursor = -1 /\ \A e \in Exports : ~ActiveUpto(n, e)
  \/ /\ v.last \in Exports /\ v.cursor = v.last.seq
     /\ ActiveUpto(n, v.last)
     /\ \A e \in Exports : ActiveUpto(n, e) => e.seq <= v.cursor

LEMMA ScanStepKnows ==
  ASSUME audits \in [Exports -> Audit], AuditsOrdered, NEW n \in Nat, n > 0, NEW v,
         Knows(n - 1, v)
  PROVE  Knows(n, ScanStep(audits, v, n))
<1> DEFINE row == {e \in Exports :
                     /\ audits[e].issued = n
                     /\ audits[e].key = key
                     /\ e.seq >= v.cursor
                     /\ \/ audits[e].kind = "FULL"
                        \/ audits[e].prior \in v.seen}
           w == [cursor |-> (CHOOSE x \in row : TRUE).seq, seen |-> v.seen \cup {n},
                 last |-> CHOOSE x \in row : TRUE]
<1>1. ScanStep(audits, v, n) = IF row = {} THEN v ELSE w
  BY Zenon DEF ScanStep
<1>2. \A e \in Exports : audits[e].issued \in 0 .. MaxIssued
  BY DEF Audit
<1>3. \A e \in Exports : ActiveUpto(n, e) <=>
        ActiveUpto(n - 1, e) \/ (audits[e].issued = n /\ audits[e].key = key)
  BY <1>2, Constants DEF ActiveUpto
<1>4. \A e \in Exports : audits[e].issued = n => audits[e].kind = "FULL"
  BY NoAuditIs DEF AuditsOrdered, Signed
<1>5. \A e, f \in Exports : audits[e].issued = n /\ audits[f].issued = n => e = f
  BY NoAuditIs DEF AuditsOrdered, Signed
<1>6. v.cursor \in Int
  BY Constants DEF Knows
<1>7. \A e \in Exports : e \in row <=> /\ audits[e].issued = n /\ audits[e].key = key
                                       /\ e.seq >= v.cursor
  BY <1>4
<1>8. row \subseteq Exports
  OBVIOUS
<1> HIDE DEF row
<1>9. CASE row = {}
  <2>1. \A e \in Exports : audits[e].issued = n /\ audits[e].key = key => e.seq < v.cursor
    BY <1>6, <1>7, <1>9, Constants
  <2>2. \A e \in Exports : ActiveUpto(n - 1, e) => ActiveUpto(n, e)
    BY <1>3
  <2>3. v.cursor = -1 => \A e \in Exports : ~(audits[e].issued = n /\ audits[e].key = key)
    BY <2>1, Constants
  <2>4. Knows(n, v)
    <3>1. CASE v.last = None /\ v.cursor = -1 /\ \A e \in Exports : ~ActiveUpto(n - 1, e)
      BY <1>3, <2>3, <3>1 DEF Knows
    <3>2. CASE /\ v.last \in Exports /\ v.cursor = v.last.seq
               /\ ActiveUpto(n - 1, v.last)
               /\ \A e \in Exports : ActiveUpto(n - 1, e) => e.seq <= v.cursor
      <4>1. \A e \in Exports : ActiveUpto(n, e) => e.seq <= v.cursor
        BY <1>3, <1>6, <2>1, <3>2, Constants
      <4> QED BY <2>2, <3>2, <4>1 DEF Knows
    <3> QED BY <3>1, <3>2 DEF Knows
  <2> QED BY <1>1, <1>9, <2>4
<1>10. CASE row # {}
  <2>1. PICK e \in row : e = CHOOSE x \in row : TRUE
    BY <1>10
  <2>2. /\ e \in Exports /\ audits[e].issued = n /\ audits[e].key = key /\ e.seq >= v.cursor
        /\ e.seq \in Nat
    BY <1>7, <1>8, <2>1, Constants
  <2>3. ActiveUpto(n, e)
    BY <1>3, <2>2
  <2>4. \A f \in Exports : ActiveUpto(n - 1, f) => f.seq <= v.cursor
    BY DEF Knows
  <2>5. \A f \in Exports : ActiveUpto(n, f) => f.seq <= e.seq
    <3> SUFFICES ASSUME NEW f \in Exports, ActiveUpto(n, f) PROVE f.seq <= e.seq
      OBVIOUS
    <3>1. CASE ActiveUpto(n - 1, f)
      BY <1>6, <2>2, <2>4, <3>1, Constants
    <3>2. CASE audits[f].issued = n
      BY <1>5, <2>2, <3>2
    <3> QED BY <1>3, <3>1, <3>2
  <2>6. w.last = e /\ w.cursor = e.seq
    BY <2>1
  <2> HIDE DEF w
  <2>7. Knows(n, w)
    BY <2>2, <2>3, <2>5, <2>6 DEF Knows
  <2> QED BY <1>1, <1>10, <2>7
<1> QED BY <1>9, <1>10

\* The latest audit is the newest export that the active key has signed.
LEMMA LatestIs ==
  ASSUME audits \in [Exports -> Audit], AuditsOrdered
  PROVE  \/ Latest = None /\ \A e \in Exports : ~ActiveUpto(MaxIssued, e)
         \/ /\ Latest \in Exports /\ ActiveUpto(MaxIssued, Latest)
            /\ \A e \in Exports : ActiveUpto(MaxIssued, e) => e.seq <= Latest.seq
<1>1. PICK f : IsScan(audits, MaxIssued, f) /\ Latest = f[MaxIssued].last
  BY EligibleIs DEF Latest
<1>2. ASSUME NEW n \in 0 .. MaxIssued PROVE Knows(n, f[n])
  <2> DEFINE Bad == {k \in 0 .. MaxIssued : ~Knows(k, f[k])}
  <2> SUFFICES ASSUME Bad # {} PROVE FALSE
    OBVIOUS
  <2>1. PICK k \in Bad : \A m \in Bad : k <= m
    <3>1. Bad \in SUBSET Nat
      BY Constants
    <3> HIDE DEF Bad
    <3> QED BY <3>1, LeastNatural
  <2>2. k \in 0 .. MaxIssued /\ k \in Nat /\ ~Knows(k, f[k])
    BY <2>1, Constants
  <2>3. k # 0
    <3>1. f[0] = ScanStart
      BY <1>1, Constants DEF IsScan
    <3>2. ScanStart.last = None /\ ScanStart.cursor = -1
      BY DEF ScanStart
    <3>3. \A e \in Exports : ~ActiveUpto(0, e)
      BY DEF ActiveUpto
    <3>4. Knows(0, f[0])
      BY <3>1, <3>2, <3>3 DEF Knows
    <3> QED BY <2>2, <3>4
  <2>4. k - 1 \in 0 .. MaxIssued /\ k - 1 \notin Bad /\ k > 0
    BY <2>1, <2>2, <2>3, Constants
  <2>5. Knows(k - 1, f[k - 1])
    BY <2>4
  <2>6. f[k] = ScanStep(audits, f[k - 1], k)
    BY <1>1, <2>2, <2>3 DEF IsScan
  <2> QED BY <2>2, <2>4, <2>5, <2>6, ScanStepKnows
<1>3. MaxIssued \in 0 .. MaxIssued
  BY Constants
<1> QED BY <1>1, <1>2, <1>3 DEF Knows

-----------------------------------------------------------------------------
(* A handle sees one export.                                               *)

\* No process writes the mirror while a consumer holds the lock.
LEMMA LockedMirror ==
  ASSUME NEW p \in Procs, Step(p)
  PROVE  handle' = handle /\ (handle = None \/ mirror' = mirror)
<1>1. CASE Start(p) \/ Check(p) \/ Mark(p) \/ MarkFailed(p) \/ CopySide(p)
  BY <1>1 DEF Start, Check, Mark, MarkFailed, CopySide, Unlocked
<1>5. CASE Reset(p) \/ ResetFails(p) \/ Seal(p)
  BY <1>5 DEF Reset, ResetFails, Seal, Unlocked
<1>2. CASE CopyFeed(p) \/ OpenChanges(p) \/ ChangePage(p) \/ Advance(p) \/ BootstrapCursor(p)
  BY <1>2 DEF CopyFeed, OpenChanges, ChangePage, Advance, BootstrapCursor, Unlocked
<1>3. CASE TableFails(p) \/ Parity(p) \/ Complete(p) \/ SealFails(p) \/ MarkUntrusted(p)
  BY <1>3 DEF TableFails, Parity, Complete, SealFails, MarkUntrusted
<1>4. CASE Finalize(p) \/ Freeze(p) \/ FreezeFails(p) \/ Crash(p)
  BY <1>4 DEF Finalize, Freeze, FreezeFails, Crash
<1> QED BY <1>1, <1>2, <1>3, <1>4, <1>5 DEF Step

LEMMA TrustedReconciles == Trusted # None => Reconciles(Trusted)
<1>1. CASE Latest # None /\ audits[Latest].issued > aged /\ Reconciles(Latest)
  <2>1. Trusted = Latest
    BY <1>1 DEF Trusted
  <2> QED BY <1>1, <2>1
<1>2. CASE ~(Latest # None /\ audits[Latest].issued > aged /\ Reconciles(Latest))
  BY <1>2 DEF Trusted
<1> QED BY <1>1, <1>2

\* HandleExact for any number of processes and exports: while a consumer holds an
\* authenticated handle the mirror is exactly the export of the handle's audit,
\* because the audit is compared under the lock that every writer needs.
THEOREM SyncHandleExact == Spec => []HandleExact
<1>1. Init => HandleExact
  BY DEF Init, HandleExact
<1>2. HandleExact /\ [Next]_vars => HandleExact'
  <2> SUFFICES ASSUME HandleExact, [Next]_vars PROVE HandleExact'
    OBVIOUS
  <2>1. ASSUME NEW p \in Procs, Step(p) PROVE HandleExact'
    BY <2>1, LockedMirror DEF HandleExact, Reconciles
  <2>2. CASE OpenHandle
    <3>1. PICK e : e = Trusted
      OBVIOUS
    <3>2. e # None /\ handle' = e /\ mirror' = mirror
      BY <2>2, <3>1 DEF OpenHandle
    <3>3. Reconciles(e)
      BY <3>1, <3>2, TrustedReconciles
    <3> QED BY <3>2, <3>3 DEF HandleExact, Reconciles
  <2>3. CASE ConsumeHandle
    BY <2>3 DEF ConsumeHandle, HandleExact
  <2>4. CASE Age \/ Rotate \/ UNCHANGED vars
    BY <2>4 DEF Age, Rotate, vars, HandleExact, Reconciles
  <2> QED BY <2>1, <2>2, <2>3, <2>4 DEF Next
<1> QED BY <1>1, <1>2, PTL DEF Spec

-----------------------------------------------------------------------------
(* Types.                                                                  *)

Others(p) == \A q \in Procs : q # p => run'[q] = run[q]

\* The steps that only move the program counter, and perhaps fail the run.
Turns(p, pc) ==
  /\ run' \in [Procs -> Run] /\ Others(p)
  /\ run'[p].pc = pc
  /\ run'[p].src = run[p].src /\ run'[p].at = run[p].at
  /\ run'[p].incremental = run[p].incremental /\ run'[p].tables = run[p].tables
  /\ run'[p].remote = run[p].remote /\ run'[p].prior = run[p].prior

LEMMA GoTurns ==
  ASSUME run \in [Procs -> Run], NEW p \in Procs, NEW c \in Pcs, Go(p, c)
  PROVE  Turns(p, c)
BY DEF Go, Turns, Run, Others

LEMMA FailTurns ==
  ASSUME run \in [Procs -> Run], NEW p \in Procs, NEW c \in Pcs,
         run' = [run EXCEPT ![p].pc = c, ![p].failed = TRUE]
  PROVE  Turns(p, c)
BY DEF Turns, Run, Others

\* Those that also move the position in the log.
LEMMA AtTurns ==
  ASSUME run \in [Procs -> Run], NEW p \in Procs, NEW c \in Pcs, NEW n \in 0 .. MaxSeq,
         run' = [run EXCEPT ![p].pc = c, ![p].at = n]
  PROVE  /\ run' \in [Procs -> Run] /\ Others(p)
         /\ run'[p].pc = c /\ run'[p].at = n
         /\ run'[p].src = run[p].src /\ run'[p].incremental = run[p].incremental
         /\ run'[p].tables = run[p].tables /\ run'[p].remote = run[p].remote
BY DEF Run, Others

LEMMA IdleTurns ==
  ASSUME run \in [Procs -> Run], NEW p \in Procs, run' = [run EXCEPT ![p] = Idle]
  PROVE  run' \in [Procs -> Run] /\ Others(p) /\ run'[p] = Idle
<1>1. Idle \in Run
  BY Constants DEF Idle, Run, Pcs
<1> QED BY <1>1 DEF Others

LEMMA IdleIs == Idle \in Run /\ Idle.pc = "idle" /\ Idle.at = 0
BY Constants DEF Idle, Run, Pcs

\* The steps at which a run neither holds a position in the log nor goes on from one.
Inert == {"idle", "fail", "parity", "complete", "untrusted", "final", "freeze"}

\* What a step does to the run's position, the facts and the applied cursor.
Moves(p) ==
  LET r == run[p]
      s == run'[p]
      Same == mirror'.feed = mirror.feed /\ mirror'.cursor = mirror.cursor
  IN \/ s.pc \in Inert /\ Same
     \/ s.pc \in {"check", "mark", "reset", "side", "feed"} /\ s.at = 0 /\ Same
     \/ /\ r.pc \in {"check", "mark"} /\ s.pc \in {"mark", "reset", "side", "feed"}
        /\ s.at = r.at /\ Same
     \/ /\ r.pc = "reset" /\ s.pc = "side" /\ s.at = r.at
        /\ mirror'.feed = {} /\ mirror'.cursor = 0
     \/ /\ r.pc = "reset" /\ s.pc = "fail"
        /\ disturbed' \/ (mirror'.feed = {} /\ mirror'.cursor = 0)
     \/ s.pc = "persist" /\ Same /\ Seal(p)
     \/ /\ r.pc = "feed" /\ s.pc = "feed" /\ s.src = r.src
        /\ s.at \in Facts(r.src.seq)
        /\ \A n \in Facts(r.src.seq) : n > r.at => s.at <= n
        /\ mirror'.feed = mirror.feed \cup {s.at} /\ mirror'.cursor = mirror.cursor
     \/ /\ r.pc = "feed" /\ s.pc = "cursor" /\ s.src = r.src
        /\ \A n \in Facts(r.src.seq) : ~(n > r.at)
        /\ Same
     \/ /\ r.pc = "feed" /\ s.pc = "change" /\ s.src = r.src
        /\ s.at = mirror.cursor /\ s.at <= s.src.seq /\ Same
     \/ /\ r.pc = "change" /\ s.pc = "advance" /\ s.src = r.src
        /\ s.at = r.at + 1 /\ s.at <= s.src.seq
        /\ mirror'.feed = mirror.feed \cup ({s.at} \ Markers)
        /\ mirror'.cursor = mirror.cursor
     \/ /\ r.pc = "change" /\ s.pc = "cursor" /\ s.src = r.src /\ r.at = r.src.seq /\ Same
     \/ /\ r.pc = "advance" /\ s.pc = "change" /\ s.src = r.src /\ s.at = r.at
        /\ mirror'.feed = mirror.feed /\ mirror'.cursor = r.at
     \/ /\ r.pc = "cursor" /\ s.pc \in Inert
        /\ mirror'.feed = mirror.feed /\ mirror'.cursor = r.src.seq

Mirror == [feed : SUBSET Facts(MaxSeq), side : SUBSET SideRows, cursor : 0 .. MaxSeq]

LEMMA FactsIn ==
  ASSUME NEW s \in 0 .. MaxSeq
  PROVE  Facts(s) \subseteq Facts(MaxSeq) /\ \A n \in Facts(s) : n \in Nat /\ n \in 0 .. MaxSeq
BY Constants DEF Facts

LEMMA MinIs ==
  ASSUME NEW T \in SUBSET Nat, T # {}
  PROVE  Min(T) \in T /\ \A n \in T : Min(T) <= n
<1>1. \E m \in T : \A n \in T : m <= n
  BY LeastNatural
<1> QED BY <1>1 DEF Min

LEMMA PositionOf ==
  ASSUME TypeInv, NEW p \in Procs
  PROVE  /\ run[p] \in Run /\ run[p].src \in Exports /\ run[p].src.seq \in 0 .. MaxSeq
         /\ run[p].at \in 0 .. MaxSeq /\ mirror \in Mirror
         /\ mirror.cursor \in 0 .. MaxSeq
BY Constants DEF TypeInv, TypeOK, Run, Mirror

\* The steps that leave the mirror alone and end at an inert step.
LEMMA InertMoves ==
  ASSUME NEW p \in Procs, NEW c \in Inert, Turns(p, c), mirror' = mirror
  PROVE  run' \in [Procs -> Run] /\ Others(p) /\ mirror' = mirror /\ Moves(p)
BY DEF Turns, Moves

LEMMA StartMoves ==
  ASSUME TypeInv, NEW p \in Procs, Start(p)
  PROVE  /\ run' \in [Procs -> Run] /\ Others(p) /\ mirror' = mirror /\ Moves(p)
         /\ run'[p].pc = "check"
<1>1. PICK remote \in BOOLEAN, incremental \in BOOLEAN,
           tables \in {{"side"}, {"feed"}, {"side", "feed"}}, e \in Exports :
         run' = [run EXCEPT ![p] =
            [Idle EXCEPT !.pc = "check", !.remote = remote,
                         !.incremental = incremental, !.tables = tables, !.src = e]]
  BY DEF Start
<1> DEFINE s == [Idle EXCEPT !.pc = "check", !.remote = remote,
                         !.incremental = incremental, !.tables = tables, !.src = e]
<1>2. s \in Run /\ s.pc = "check" /\ s.at = 0
  <2>1. tables \in SUBSET {"side", "feed"} /\ "check" \in Pcs
    BY DEF Pcs
  <2> QED BY <2>1, IdleIs DEF Run
<1> HIDE DEF s
<1>3. run \in [Procs -> Run] /\ run' = [run EXCEPT ![p] = s]
  BY <1>1 DEF s, TypeInv
<1>4. run' \in [Procs -> Run] /\ Others(p) /\ run'[p] = s
  BY <1>2, <1>3 DEF Others
<1>5. mirror' = mirror
  BY DEF Start
<1> QED BY <1>2, <1>4, <1>5 DEF Moves

LEMMA TrustedType ==
  ASSUME TypeInv
  PROVE  /\ Trusted \in Exports \cup {None}
         /\ Trusted # None => audits[Trusted].issued \in 0 .. MaxIssued
<1>1. audits \in [Exports -> Audit] /\ AuditsOrdered
  BY DEF TypeInv, TypeOK, Audit
<1>2. Latest \in Exports \cup {None}
  BY <1>1, LatestIs
<1>3. Trusted \in {Latest, None}
  BY DEF Trusted
<1> QED BY <1>1, <1>2, <1>3 DEF Audit

LEMMA CheckTurns ==
  ASSUME run \in [Procs -> Run], NEW p \in Procs, NEW c \in Pcs, NEW b \in BOOLEAN,
         NEW k \in 0 .. MaxIssued,
         run' = [run EXCEPT ![p].pc = c, ![p].failed = b, ![p].prior = k]
  PROVE  /\ run' \in [Procs -> Run] /\ Others(p)
         /\ run'[p].pc = c /\ run'[p].at = run[p].at
<1> DEFINE s == [run[p] EXCEPT !.pc = c, !.failed = b, !.prior = k]
<1>1. run[p] \in Run
  OBVIOUS
<1>2. s \in Run
  BY <1>1 DEF Run
<1>3. s.pc = c /\ s.at = run[p].at
  BY <1>1 DEF Run
<1>4. run' = [run EXCEPT ![p] = s]
  OBVIOUS
<1> HIDE DEF s
<1> QED BY <1>2, <1>3, <1>4 DEF Others

LEMMA MarkTurns ==
  ASSUME run \in [Procs -> Run], NEW p \in Procs, NEW c \in Pcs, NEW b \in BOOLEAN,
         run' = [run EXCEPT ![p].pc = c, ![p].spared = b]
  PROVE  /\ run' \in [Procs -> Run] /\ Others(p)
         /\ run'[p].pc = c /\ run'[p].at = run[p].at
<1> DEFINE s == [run[p] EXCEPT !.pc = c, !.spared = b]
<1>1. run[p] \in Run
  OBVIOUS
<1>2. s \in Run /\ s.pc = c /\ s.at = run[p].at
  BY <1>1 DEF Run
<1>3. run' = [run EXCEPT ![p] = s]
  OBVIOUS
<1> HIDE DEF s
<1> QED BY <1>2, <1>3 DEF Others

LEMMA CheckMoves ==
  ASSUME TypeInv, NEW p \in Procs, Check(p)
  PROVE  run' \in [Procs -> Run] /\ Others(p) /\ mirror' = mirror /\ Moves(p)
<1> DEFINE based == Full(run[p]) /\ run[p].incremental
           prior == IF based /\ Trusted # None THEN Trusted.seq ELSE mirror.cursor
           current == Full(run[p]) /\ Trusted # None /\ run[p].src.seq = Trusted.seq
           b == /\ NeedsCursor(run[p])
                /\ \/ based /\ Trusted = None
                   \/ run[p].src.seq < prior
                   \/ current /\ run[p].src # Trusted
           c == IF current /\ ~b THEN "final" ELSE "mark"
           k == IF based /\ Trusted # None THEN audits[Trusted].issued ELSE 0
<1>1. /\ run' = [run EXCEPT ![p].pc = c, ![p].failed = b, ![p].prior = k]
      /\ c \in {"final", "mark"} /\ b \in BOOLEAN /\ k \in 0 .. MaxIssued
  <2>1. run' = [run EXCEPT ![p].pc = c, ![p].failed = b, ![p].prior = k]
    BY Zenon DEF Check
  <2>2. c \in {"final", "mark"} /\ b \in BOOLEAN
    OBVIOUS
  <2>3. k \in 0 .. MaxIssued
    BY TrustedType, Constants
  <2> QED BY <2>1, <2>2, <2>3
<1> HIDE DEF b, c, k
<1>2. run \in [Procs -> Run] /\ run[p].pc = "check" /\ mirror' = mirror
  BY DEF Check, TypeInv
<1>3. /\ run' \in [Procs -> Run] /\ Others(p)
      /\ run'[p].pc = c /\ run'[p].at = run[p].at
  BY <1>1, <1>2, CheckTurns DEF Pcs
<1> QED BY <1>1, <1>2, <1>3 DEF Moves, Inert

LEMMA MarkMoves ==
  ASSUME TypeInv, NEW p \in Procs, Mark(p)
  PROVE  run' \in [Procs -> Run] /\ Others(p) /\ mirror' = mirror /\ Moves(p)
<1> DEFINE c == IF run[p].failed THEN "fail"
                ELSE IF Kind(run[p]) = "FULL" THEN "reset"
                ELSE IF "side" \in run[p].tables THEN "side" ELSE "feed"
           b == Signed(run[p].src)
<1>1. /\ run' = [run EXCEPT ![p].pc = c, ![p].spared = b]
      /\ c \in {"fail", "reset", "side", "feed"} /\ b \in BOOLEAN
  <2>1. run' = [run EXCEPT ![p].pc = c, ![p].spared = b]
    BY Zenon DEF Mark
  <2>2. c \in {"fail", "reset", "side", "feed"}
    OBVIOUS
  <2>3. b \in BOOLEAN
    BY DEF Signed
  <2> QED BY <2>1, <2>2, <2>3
<1> HIDE DEF b, c
<1>2. run \in [Procs -> Run] /\ run[p].pc = "mark" /\ mirror' = mirror
  BY DEF Mark, TypeInv
<1>3. /\ run' \in [Procs -> Run] /\ Others(p)
      /\ run'[p].pc = c /\ run'[p].at = run[p].at
  BY <1>1, <1>2, MarkTurns DEF Pcs
<1> QED BY <1>1, <1>2, <1>3 DEF Moves, Inert

LEMMA ResetMoves ==
  ASSUME TypeInv, NEW p \in Procs, Reset(p)
  PROVE  run' \in [Procs -> Run] /\ Others(p) /\ mirror' \in Mirror /\ Moves(p)
<1>1. Turns(p, "side")
  BY GoTurns DEF Reset, TypeInv, Pcs
<1>2. run[p].pc = "reset" /\ mirror' = [feed |-> {}, side |-> {}, cursor |-> 0]
  BY DEF Reset, Emptied
<1>3. mirror' \in Mirror /\ mirror'.feed = {} /\ mirror'.cursor = 0
  BY <1>2, Constants DEF Mirror
<1> QED BY <1>1, <1>2, <1>3 DEF Turns, Moves

LEMMA ResetFailsMoves ==
  ASSUME TypeInv, NEW p \in Procs, ResetFails(p)
  PROVE  run' \in [Procs -> Run] /\ Others(p) /\ mirror' \in Mirror /\ Moves(p)
<1>0. run \in [Procs -> Run] /\ mirror \in Mirror /\ run[p].pc = "reset"
  BY PositionOf DEF TypeInv, ResetFails
<1>1. run' = [run EXCEPT ![p].pc = "fail", ![p].failed = TRUE]
  BY DEF ResetFails
<1>2. Turns(p, "fail")
  BY <1>0, <1>1, FailTurns DEF Pcs
<1>3. Emptied \in Mirror /\ Emptied.feed = {} /\ Emptied.cursor = 0
  BY Constants DEF Mirror, Emptied
<1>4. CASE mirror' = Emptied
  BY <1>0, <1>2, <1>3, <1>4 DEF Turns, Moves
<1>5. CASE mirror' # Emptied
  <2>1. PICK f \in {mirror.feed, {}}, d \in {mirror.side, {}} :
          mirror' = [mirror EXCEPT !.feed = f, !.side = d]
    BY <1>5 DEF ResetFails
  <2>2. mirror' \in Mirror
    BY <1>0, <2>1 DEF Mirror
  <2>3. CASE mirror' = mirror
    BY <1>2, <2>2, <2>3 DEF Turns, Moves, Inert
  <2>4. CASE mirror' # mirror
    <3>1. disturbed'
      BY <1>5, <2>4 DEF ResetFails
    <3> QED BY <1>0, <1>2, <2>2, <3>1 DEF Turns, Moves
  <2> QED BY <2>3, <2>4
<1> QED BY <1>4, <1>5

LEMMA SealTurns ==
  ASSUME TypeInv, NEW p \in Procs, Seal(p)
  PROVE  /\ run' \in [Procs -> Run] /\ Others(p) /\ Moves(p) /\ mirror' = mirror
         /\ run'[p].pc = "persist" /\ run'[p].seal = issued + 1
         /\ issued \in Nat /\ issued' = issued + 1 /\ issued' <= MaxIssued /\ audits' = audits
<1>1. /\ run \in [Procs -> Run] /\ issued \in Nat /\ issued < MaxIssued
      /\ issued' = issued + 1 /\ mirror' = mirror /\ audits' = audits
  BY Constants DEF Seal, TypeInv, TypeOK
<1>2. PICK n \in 0 .. MaxIssued : n = issued + 1
  BY <1>1, Constants
<1>3. run' = [run EXCEPT ![p].pc = "persist", ![p].seal = n]
  BY <1>2 DEF Seal
<1>4. /\ run' \in [Procs -> Run] /\ Others(p)
      /\ run'[p].pc = "persist" /\ run'[p].seal = n
  <2> DEFINE s == [run[p] EXCEPT !.pc = "persist", !.seal = n]
  <2>1. run[p] \in Run
    BY <1>1
  <2>2. s \in Run /\ s.pc = "persist" /\ s.seal = n
    BY <2>1 DEF Run, Pcs
  <2>3. run' = [run EXCEPT ![p] = s]
    BY <1>3
  <2> HIDE DEF s
  <2> QED BY <1>1, <2>2, <2>3 DEF Others
<1> QED BY <1>1, <1>2, <1>4, Constants DEF Moves

LEMMA CopySideMoves ==
  ASSUME TypeInv, NEW p \in Procs, CopySide(p)
  PROVE  run' \in [Procs -> Run] /\ Others(p) /\ mirror' \in Mirror /\ Moves(p)
<1>0. run \in [Procs -> Run] /\ mirror \in Mirror /\ run[p].src.side \subseteq SideRows
  BY PositionOf, Constants DEF TypeInv
<1> DEFINE c == AfterSide(run[p])
           new == {x \in run[p].src.side :
                     x > IF run[p].incremental THEN Max(mirror.side \cup {0}) ELSE 0}
<1>1. c \in {"feed", "untrusted", "parity"}
  BY DEF AfterSide
<1>2. new \subseteq SideRows
  BY <1>0
<1>3. /\ mirror' = [mirror EXCEPT !.side = @ \cup new]
      /\ run' = [run EXCEPT ![p].pc = c, ![p].at = 0]
  BY Zenon DEF CopySide
<1> HIDE DEF c, new
<1>4. /\ mirror' \in Mirror /\ mirror'.feed = mirror.feed /\ mirror'.cursor = mirror.cursor
  BY <1>0, <1>2, <1>3 DEF Mirror
<1>5. 0 \in 0 .. MaxSeq /\ c \in Pcs
  BY <1>1, Constants DEF Pcs
<1>6. run' \in [Procs -> Run] /\ Others(p) /\ run'[p].pc = c /\ run'[p].at = 0
  <2>1. PICK n \in 0 .. MaxSeq, d \in Pcs : n = 0 /\ d = c
    BY <1>5
  <2>2. run' = [run EXCEPT ![p].pc = d, ![p].at = n]
    BY <1>3, <2>1
  <2>3. run' \in [Procs -> Run] /\ Others(p) /\ run'[p].pc = d /\ run'[p].at = n
    BY <1>0, <2>2 DEF Run, Others
  <2> QED BY <2>1, <2>3
<1> QED BY <1>1, <1>4, <1>6 DEF Moves, Inert

LEMMA AfterFeedIs ==
  ASSUME NEW r
  PROVE  AfterFeed(r) \in Inert \cup {"cursor"} /\ AfterFeed(r) \in Pcs
BY DEF AfterFeed, Inert, Pcs

LEMMA CopyFeedMoves ==
  ASSUME TypeInv, NEW p \in Procs, CopyFeed(p)
  PROVE  run' \in [Procs -> Run] /\ Others(p) /\ mirror' \in Mirror /\ Moves(p)
<1>0. /\ run \in [Procs -> Run] /\ mirror \in Mirror /\ run[p].src.seq \in 0 .. MaxSeq
      /\ run[p].at \in 0 .. MaxSeq /\ run[p].pc = "feed"
  <2>1. run \in [Procs -> Run] /\ run[p].pc = "feed"
    BY DEF TypeInv, CopyFeed
  <2> QED BY <2>1, PositionOf
<1> DEFINE rest == {n \in Facts(run[p].src.seq) : n > run[p].at}
<1>1. CASE rest = {}
  <2>1. mirror' = mirror /\ Go(p, AfterFeed(run[p]))
    BY <1>1 DEF CopyFeed
  <2>2. Turns(p, AfterFeed(run[p]))
    BY <1>0, <2>1, GoTurns, AfterFeedIs
  <2>3. \A n \in Facts(run[p].src.seq) : ~(n > run[p].at)
    BY <1>1
  <2>4. Moves(p)
    BY <1>0, <2>1, <2>2, <2>3, AfterFeedIs DEF Turns, Moves
  <2> QED BY <1>0, <2>1, <2>2, <2>4 DEF Turns
<1>2. CASE rest # {}
  <2>1. PICK m \in rest : m = Min(rest) /\ \A n \in rest : m <= n
    <3>1. rest \in SUBSET Nat
      BY <1>0, FactsIn
    <3> HIDE DEF rest
    <3> QED BY <1>2, <3>1, MinIs
  <2>2. /\ mirror' = [mirror EXCEPT !.feed = @ \cup {m}]
        /\ run' = [run EXCEPT ![p].at = m]
    BY <1>2, <2>1 DEF CopyFeed
  <2>3. m \in Facts(run[p].src.seq) /\ m \in Facts(MaxSeq) /\ m \in 0 .. MaxSeq
    BY <1>0, <2>1, FactsIn
  <2>4. mirror' \in Mirror /\ mirror'.feed = mirror.feed \cup {m} /\ mirror'.cursor = mirror.cursor
    BY <1>0, <2>2, <2>3 DEF Mirror
  <2>5. /\ run' \in [Procs -> Run] /\ Others(p) /\ run'[p].pc = "feed" /\ run'[p].at = m
        /\ run'[p].src = run[p].src
    BY <1>0, <2>2, <2>3 DEF Run, Others
  <2>6. \A n \in Facts(run[p].src.seq) : n > run[p].at => m <= n
    BY <2>1
  <2>7. Moves(p)
    BY <1>0, <2>3, <2>4, <2>5, <2>6 DEF Moves
  <2> QED BY <2>4, <2>5, <2>7
<1> QED BY <1>1, <1>2

LEMMA OpenChangesMoves ==
  ASSUME TypeInv, NEW p \in Procs, OpenChanges(p)
  PROVE  run' \in [Procs -> Run] /\ Others(p) /\ mirror' = mirror /\ Moves(p)
<1>0. /\ run \in [Procs -> Run] /\ run[p].src.seq \in 0 .. MaxSeq
      /\ mirror.cursor \in 0 .. MaxSeq /\ run[p].pc = "feed" /\ mirror' = mirror
  BY PositionOf DEF TypeInv, OpenChanges
<1>1. CASE run[p].src.seq < mirror.cursor
  <2>1. run' = [run EXCEPT ![p].pc = "untrusted", ![p].failed = TRUE]
    BY <1>1 DEF OpenChanges
  <2>2. Turns(p, "untrusted")
    BY <1>0, <2>1, FailTurns DEF Pcs
  <2> QED BY <1>0, <2>2, InertMoves DEF Inert
<1>2. CASE ~(run[p].src.seq < mirror.cursor)
  <2>1. run' = [run EXCEPT ![p].pc = "change", ![p].at = mirror.cursor]
    BY <1>2 DEF OpenChanges
  <2>2. /\ run' \in [Procs -> Run] /\ Others(p)
        /\ run'[p].pc = "change" /\ run'[p].at = mirror.cursor /\ run'[p].src = run[p].src
    BY <1>0, <2>1, AtTurns DEF Pcs
  <2>3. mirror.cursor <= run[p].src.seq
    BY <1>0, <1>2
  <2> QED BY <1>0, <2>2, <2>3 DEF Moves
<1> QED BY <1>1, <1>2

LEMMA ChangePageMoves ==
  ASSUME TypeInv, NEW p \in Procs, ChangePage(p)
  PROVE  run' \in [Procs -> Run] /\ Others(p) /\ mirror' \in Mirror /\ Moves(p)
<1>0. /\ run \in [Procs -> Run] /\ mirror \in Mirror /\ run[p].src.seq \in 0 .. MaxSeq
      /\ run[p].at \in 0 .. MaxSeq /\ run[p].pc = "change"
  BY PositionOf DEF TypeInv, ChangePage
<1>1. CASE run[p].at = run[p].src.seq
  <2>1. mirror' = mirror /\ Go(p, AfterFeed(run[p]))
    BY <1>1 DEF ChangePage
  <2>2. Turns(p, AfterFeed(run[p]))
    BY <1>0, <2>1, GoTurns, AfterFeedIs
  <2>3. Moves(p)
    BY <1>0, <1>1, <2>1, <2>2, AfterFeedIs DEF Turns, Moves
  <2> QED BY <1>0, <2>1, <2>2, <2>3 DEF Turns
<1>2. CASE run[p].at # run[p].src.seq
  <2>1. /\ mirror' = [mirror EXCEPT !.feed = @ \cup ({run[p].at + 1} \ Markers)]
        /\ run' = [run EXCEPT ![p].pc = "advance", ![p].at = run[p].at + 1]
    BY <1>2 DEF ChangePage
  <2>2. PICK m \in 1 .. MaxSeq : m = run[p].at + 1 /\ m <= run[p].src.seq
    <3>1. run[p].at <= run[p].src.seq
      BY <1>0 DEF TypeInv, WithinExport
    <3> QED BY <1>0, <1>2, <3>1, Constants
  <2>3. {m} \ Markers \subseteq Facts(MaxSeq) /\ m \in 0 .. MaxSeq
    BY <2>2, Constants DEF Facts
  <2>4. /\ mirror' \in Mirror /\ mirror'.feed = mirror.feed \cup ({m} \ Markers)
        /\ mirror'.cursor = mirror.cursor
    BY <1>0, <2>1, <2>2, <2>3 DEF Mirror
  <2>5. /\ run' \in [Procs -> Run] /\ Others(p)
        /\ run'[p].pc = "advance" /\ run'[p].at = m /\ run'[p].src = run[p].src
    <3>1. run' = [run EXCEPT ![p].pc = "advance", ![p].at = m]
      BY <2>1, <2>2
    <3> QED BY <1>0, <2>3, <3>1, AtTurns DEF Pcs
  <2>6. Moves(p)
    BY <1>0, <2>2, <2>4, <2>5 DEF Moves
  <2> QED BY <2>4, <2>5, <2>6
<1> QED BY <1>1, <1>2

\* _record_change_seq writes the cursor or fails the run.
LEMMA RecordMoves ==
  ASSUME TypeInv, NEW p \in Procs, NEW v \in 0 .. MaxSeq, NEW c \in Pcs, RecordCursor(p, v, c)
  PROVE  \/ Turns(p, "untrusted") /\ mirror' = mirror
         \/ /\ Turns(p, c) /\ mirror' \in Mirror
            /\ mirror'.feed = mirror.feed /\ mirror'.cursor = v
<1>0. run \in [Procs -> Run] /\ mirror \in Mirror
  BY PositionOf DEF TypeInv
<1>1. CASE v < mirror.cursor
  <2>1. run' = [run EXCEPT ![p].pc = "untrusted", ![p].failed = TRUE] /\ mirror' = mirror
    BY <1>1 DEF RecordCursor
  <2> QED BY <1>0, <2>1, FailTurns DEF Pcs
<1>2. CASE ~(v < mirror.cursor)
  <2>1. run' = [run EXCEPT ![p].pc = c] /\ mirror' = [mirror EXCEPT !.cursor = v]
    BY <1>2 DEF RecordCursor
  <2>2. mirror' \in Mirror /\ mirror'.feed = mirror.feed /\ mirror'.cursor = v
    BY <1>0, <2>1 DEF Mirror
  <2> QED BY <1>0, <2>1, <2>2, GoTurns DEF Go
<1> QED BY <1>1, <1>2

LEMMA AdvanceMoves ==
  ASSUME TypeInv, NEW p \in Procs, Advance(p)
  PROVE  run' \in [Procs -> Run] /\ Others(p) /\ mirror' \in Mirror /\ Moves(p)
<1>0. run[p].at \in 0 .. MaxSeq /\ run[p].pc = "advance" /\ mirror \in Mirror
  BY PositionOf DEF Advance
<1>1. \/ Turns(p, "untrusted") /\ mirror' = mirror
      \/ /\ Turns(p, "change") /\ mirror' \in Mirror
         /\ mirror'.feed = mirror.feed /\ mirror'.cursor = run[p].at
  BY <1>0, RecordMoves DEF Advance, Pcs
<1> QED BY <1>0, <1>1 DEF Turns, Moves, Inert

LEMMA BootstrapMoves ==
  ASSUME TypeInv, NEW p \in Procs, BootstrapCursor(p)
  PROVE  run' \in [Procs -> Run] /\ Others(p) /\ mirror' \in Mirror /\ Moves(p)
<1>0. run[p].src.seq \in 0 .. MaxSeq /\ run[p].pc = "cursor" /\ mirror \in Mirror
  BY PositionOf DEF BootstrapCursor
<1>1. PICK c \in {"parity", "untrusted"} : RecordCursor(p, run[p].src.seq, c)
  BY DEF BootstrapCursor
<1>2. \/ Turns(p, "untrusted") /\ mirror' = mirror
      \/ /\ Turns(p, c) /\ mirror' \in Mirror
         /\ mirror'.feed = mirror.feed /\ mirror'.cursor = run[p].src.seq
  BY <1>0, <1>1, RecordMoves DEF Pcs
<1> QED BY <1>0, <1>2 DEF Turns, Moves, Inert

LEMMA TableFailsMoves ==
  ASSUME TypeInv, NEW p \in Procs, TableFails(p)
  PROVE  run' \in [Procs -> Run] /\ Others(p) /\ mirror' = mirror /\ Moves(p)
<1>0. run \in [Procs -> Run] /\ mirror' = mirror
  BY DEF TypeInv, TableFails
<1> DEFINE r == [run[p] EXCEPT !.failed = TRUE]
           c == IF r.pc = "side" THEN AfterSide(r) ELSE "untrusted"
<1>1. c \in {"feed", "untrusted", "parity"}
  BY DEF AfterSide
<1>2. run' = [run EXCEPT ![p] = [r EXCEPT !.pc = c, !.at = 0]]
  BY Zenon DEF TableFails
<1>3. r \in Run
  BY <1>0 DEF Run
<1> HIDE DEF c, r
<1> DEFINE s == [r EXCEPT !.pc = c, !.at = 0]
<1>4. s \in Run /\ s.pc = c /\ s.at = 0
  BY <1>1, <1>3, Constants DEF Run, Pcs
<1> HIDE DEF s
<1>5. run' \in [Procs -> Run] /\ Others(p) /\ run'[p] = s
  <2>1. run' = [run EXCEPT ![p] = s]
    BY <1>2 DEF s
  <2> QED BY <1>0, <1>4, <2>1 DEF Others
<1> QED BY <1>0, <1>1, <1>4, <1>5 DEF Moves, Inert

\* Every step of a process: the others do not move, the mirror stays one, and the
\* position moves as above.
LEMMA StepMoves ==
  ASSUME TypeInv, NEW p \in Procs, Step(p)
  PROVE  run' \in [Procs -> Run] /\ Others(p) /\ mirror' \in Mirror /\ Moves(p)
<1>0. mirror \in Mirror /\ run \in [Procs -> Run]
  BY DEF TypeInv, TypeOK, Mirror
<1>1. CASE Start(p) \/ Check(p) \/ Mark(p) \/ OpenChanges(p) \/ TableFails(p)
  BY <1>0, <1>1, StartMoves, CheckMoves, MarkMoves, OpenChangesMoves, TableFailsMoves
<1>2. CASE \/ Reset(p) \/ ResetFails(p) \/ CopySide(p) \/ CopyFeed(p) \/ ChangePage(p)
           \/ Advance(p) \/ BootstrapCursor(p) \/ Seal(p)
  BY <1>0, <1>2, ResetMoves, ResetFailsMoves, CopySideMoves, CopyFeedMoves, ChangePageMoves,
     AdvanceMoves, BootstrapMoves, SealTurns
<1>3. CASE Parity(p) \/ Complete(p) \/ SealFails(p) \/ MarkFailed(p) \/ MarkUntrusted(p)
  <2>1. mirror' = mirror
    BY <1>3 DEF Parity, Complete, SealFails, MarkFailed, MarkUntrusted
  <2>2. \/ Go(p, "final")
        \/ Go(p, "complete")
        \/ run' = [run EXCEPT ![p].pc = "untrusted", ![p].failed = TRUE]
    BY <1>3 DEF Parity, Complete, SealFails, MarkFailed, MarkUntrusted, Go
  <2>3. PICK c \in {"final", "complete", "untrusted"} : Turns(p, c)
    BY <1>0, <2>2, GoTurns, FailTurns DEF Pcs
  <2> QED BY <1>0, <2>1, <2>3, InertMoves DEF Inert
<1>4. CASE Freeze(p) \/ FreezeFails(p) \/ Crash(p) \/ Finalize(p)
  <2>1. mirror' = mirror
    BY <1>4 DEF Freeze, FreezeFails, Crash, Finalize
  <2>2. run' = [run EXCEPT ![p] = Idle] \/ Go(p, "freeze")
    <3>1. CASE Finalize(p)
      <4>1. CASE run[p].remote /\ ~run[p].failed
        BY <3>1, <4>1 DEF Finalize, Go
      <4>2. CASE ~(run[p].remote /\ ~run[p].failed)
        BY <3>1, <4>2 DEF Finalize
      <4> QED BY <4>1, <4>2
    <3> QED BY <1>4, <3>1 DEF Freeze, FreezeFails, Crash
  <2>3. CASE run' = [run EXCEPT ![p] = Idle]
    <3>1. run' \in [Procs -> Run] /\ Others(p) /\ run'[p] = Idle
      BY <1>0, <2>3, IdleTurns
    <3> QED BY <1>0, <2>1, <3>1, IdleIs DEF Moves, Inert
  <2>4. CASE Go(p, "freeze")
    BY <1>0, <2>1, <2>4, GoTurns, InertMoves DEF Pcs, Inert
  <2> QED BY <2>2, <2>3, <2>4
<1> QED BY <1>1, <1>2, <1>3, <1>4 DEF Step

\* How a step of p changes the audits: one is dated, one is stored, of the export the
\* mirror holds and at the time it was dated, or one is lost, or none.
AuditsMoveBy(p) ==
  \/ UNCHANGED <<audits, issued>>
  \/ Seal(p)
  \/ /\ issued' = issued
     /\ \E e \in Exports : audits' = [audits EXCEPT ![e] = NoAudit]
  \/ /\ issued' = issued /\ run[p].pc = "persist"
     /\ \E e \in Exports, k \in 0 .. MaxIssued :
          /\ Reconciles(e)
          /\ audits' = [audits EXCEPT ![e] = [kind |-> "FULL", prior |-> k,
                                              issued |-> run[p].seal, key |-> key]]

LEMMA StepAudits ==
  ASSUME TypeInv, NEW p \in Procs, Step(p)
  PROVE  AuditsMoveBy(p)
<1>0. run[p].src \in Exports /\ run[p].prior \in 0 .. MaxIssued
  BY DEF TypeInv, Run
<1>1. CASE MarkFailed(p) \/ MarkUntrusted(p)
  BY <1>0, <1>1 DEF MarkFailed, MarkUntrusted, AuditsMoveBy
<1>2. CASE Complete(p)
  <2>1. CASE Persists(run[p])
    <3>1. Kind(run[p]) = "FULL" /\ Reconciles(run[p].src)
      BY <2>1 DEF Persists
    <3>2. /\ issued' = issued /\ run[p].pc = "persist"
          /\ audits' = [audits EXCEPT ![run[p].src] =
               [kind |-> "FULL", prior |-> run[p].prior, issued |-> run[p].seal, key |-> key]]
      BY <1>2, <2>1, <3>1 DEF Complete
    <3> QED BY <1>0, <3>1, <3>2 DEF AuditsMoveBy
  <2>2. CASE ~Persists(run[p])
    BY <1>2, <2>2 DEF Complete, AuditsMoveBy
  <2> QED BY <2>1, <2>2
<1>3. CASE Seal(p)
  BY <1>3 DEF AuditsMoveBy
<1>4. CASE ~MarkFailed(p) /\ ~MarkUntrusted(p) /\ ~Complete(p) /\ ~Seal(p)
  <2>1. UNCHANGED <<audits, issued>>
    <3>1. CASE Start(p) \/ Check(p) \/ Mark(p)
      BY <3>1 DEF Start, Check, Mark
    <3>4. CASE Reset(p) \/ CopySide(p)
      BY <3>4 DEF Reset, CopySide
    <3>5. CASE ResetFails(p)
      BY <3>5 DEF ResetFails
    <3>2. CASE CopyFeed(p) \/ OpenChanges(p) \/ ChangePage(p) \/ Advance(p) \/ BootstrapCursor(p)
      BY <3>2 DEF CopyFeed, OpenChanges, ChangePage, Advance, BootstrapCursor
    <3>3. CASE TableFails(p) \/ Parity(p) \/ SealFails(p) \/ Finalize(p) \/ Freeze(p)
               \/ FreezeFails(p) \/ Crash(p)
      BY <3>3 DEF TableFails, Parity, SealFails, Finalize, Freeze, FreezeFails, Crash
    <3> QED BY <1>4, <3>1, <3>2, <3>3, <3>4, <3>5 DEF Step
  <2> QED BY <2>1 DEF AuditsMoveBy
<1> QED BY <1>1, <1>2, <1>3, <1>4

LEMMA AuditsKept ==
  ASSUME TypeInv, NEW p \in Procs, AuditsMoveBy(p)
  PROVE  audits' \in [Exports -> Audit] /\ AuditsOrdered' /\ issued' \in 0 .. MaxIssued
         /\ issued \in Nat /\ issued <= issued'
<1>0. /\ audits \in [Exports -> Audit] /\ issued \in 0 .. MaxIssued /\ issued \in Nat
      /\ key \in 0 .. MaxKey /\ MaxIssued \in Nat
      /\ \A e \in Exports : audits[e].issued \in 0 .. MaxIssued
  BY Constants DEF TypeInv, TypeOK, Audit
<1>1. AuditsOrdered
  BY DEF TypeInv
<1>2. CASE UNCHANGED <<audits, issued>>
  <2>1. AuditsOrdered'
    BY <1>1, <1>2 DEF AuditsOrdered, Signed
  <2> QED BY <1>0, <1>2, <2>1
<1>3. CASE issued' = issued /\ \E e \in Exports : audits' = [audits EXCEPT ![e] = NoAudit]
  <2>1. PICK e \in Exports : audits' = [audits EXCEPT ![e] = NoAudit]
    BY <1>3
  <2>2. /\ audits' \in [Exports -> Audit] /\ audits'[e] = NoAudit
        /\ \A f \in Exports : f # e => audits'[f] = audits[f]
    BY <1>0, <2>1, NoAuditIs
  <2>3. AuditsOrdered'
    BY <1>0, <1>1, <1>3, <2>2, NoAuditIs DEF AuditsOrdered, Signed
  <2> QED BY <1>0, <1>3, <2>2, <2>3
<1>4. CASE /\ issued' = issued /\ run[p].pc = "persist"
           /\ \E e \in Exports, k \in 0 .. MaxIssued :
                /\ Reconciles(e)
                /\ audits' = [audits EXCEPT ![e] = [kind |-> "FULL", prior |-> k,
                                                    issued |-> run[p].seal, key |-> key]]
  <2>1. PICK e \in Exports, k \in 0 .. MaxIssued :
           audits' = [audits EXCEPT ![e] = [kind |-> "FULL", prior |-> k,
                                            issued |-> run[p].seal, key |-> key]]
    BY <1>4
  <2>2. PICK n \in 1 .. issued : n = run[p].seal /\ \A f \in Exports : audits[f].issued # n
    BY <1>4 DEF TypeInv, SealsOwn
  <2> DEFINE a == [kind |-> "FULL", prior |-> k, issued |-> n, key |-> key]
  <2>3. a \in Audit /\ a.kind = "FULL" /\ a.issued = n /\ n \in Nat /\ n > 0 /\ n <= issued
    <3>1. n \in 0 .. MaxIssued /\ n \in Nat /\ n > 0 /\ n <= issued
      BY <1>0
    <3> QED BY <1>0, <3>1 DEF Audit
  <2> HIDE DEF a
  <2>4. /\ audits' \in [Exports -> Audit] /\ audits'[e] = a
        /\ \A f \in Exports : f # e => audits'[f] = audits[f]
    <3>1. audits' = [audits EXCEPT ![e] = a]
      BY <2>1, <2>2 DEF a
    <3> QED BY <1>0, <2>3, <3>1
  <2>5. AuditsOrdered'
    <3>1. \A f \in Exports : audits'[f].issued <= issued'
      BY <1>0, <1>1, <1>4, <2>3, <2>4 DEF AuditsOrdered
    <3>2. \A f \in Exports : audits'[f] # NoAudit =>
             audits'[f].kind = "FULL" /\ audits'[f].issued > 0
      BY <1>0, <1>1, <2>3, <2>4 DEF AuditsOrdered, Signed
    <3>3. \A f, g \in Exports :
             audits'[f] # NoAudit /\ audits'[f].issued = audits'[g].issued => f = g
      BY <1>0, <1>1, <2>2, <2>3, <2>4 DEF AuditsOrdered, Signed
    <3> QED BY <3>1, <3>2, <3>3 DEF AuditsOrdered, Signed
  <2> QED BY <1>0, <1>4, <2>4, <2>5
<1>5. CASE Seal(p)
  <2>1. audits' = audits /\ issued' = issued + 1 /\ issued' <= MaxIssued
    BY <1>5, SealTurns
  <2>2. AuditsOrdered'
    BY <1>0, <1>1, <2>1 DEF AuditsOrdered, Signed
  <2> QED BY <1>0, <2>1, <2>2
<1> QED BY <1>2, <1>3, <1>4, <1>5 DEF AuditsMoveBy

\* No two pending audits, and no pending and no stored one, have the same issue time.
LEMMA StepSeals ==
  ASSUME TypeInv, NEW p \in Procs, Step(p)
  PROVE  SealsOwn'
<1>1. run' \in [Procs -> Run] /\ Others(p) /\ Moves(p)
  BY StepMoves
<1>2. /\ issued \in Nat /\ issued' \in Nat /\ issued <= issued'
      /\ audits \in [Exports -> Audit] /\ AuditsOrdered
      /\ \A e \in Exports : audits[e].issued \in Nat /\ audits[e].issued <= issued
  BY StepAudits, AuditsKept, Constants DEF TypeInv, TypeOK, Audit, AuditsOrdered
<1>3. run'[p].pc = "persist" => Seal(p)
  BY <1>1 DEF Moves, Inert
<1>4. ASSUME NEW q \in Procs, q # p, run[q].pc = "persist"
      PROVE  /\ run[q].seal \in 1 .. issued' /\ run[q].seal <= issued
             /\ \A e \in Exports : audits'[e].issued # run[q].seal
  <2>1. PICK n \in 1 .. issued : n = run[q].seal /\ \A e \in Exports : audits[e].issued # n
    BY <1>4 DEF TypeInv, SealsOwn
  <2>2. n # 0 /\ n \in 1 .. issued' /\ n <= issued
    BY <1>2
  <2>3. \A e \in Exports : audits'[e].issued # n
    <3>1. AuditsMoveBy(p)
      BY StepAudits
    <3>2. CASE audits' = audits
      BY <2>1, <3>2
    <3>3. CASE \E e \in Exports : audits' = [audits EXCEPT ![e] = NoAudit]
      BY <1>2, <2>1, <2>2, <3>3, NoAuditIs
    <3>4. CASE /\ run[p].pc = "persist"
               /\ \E e \in Exports, k \in 0 .. MaxIssued :
                    audits' = [audits EXCEPT ![e] = [kind |-> "FULL", prior |-> k,
                                                    issued |-> run[p].seal, key |-> key]]
      <4>1. run[p].seal # n
        BY <1>4, <2>1, <3>4 DEF TypeInv, SealsOwn
      <4> QED BY <1>2, <2>1, <3>4, <4>1
    <3>5. CASE Seal(p)
      BY <2>1, <3>5, SealTurns
    <3> QED BY <3>1, <3>2, <3>3, <3>4, <3>5 DEF AuditsMoveBy
  <2> QED BY <2>1, <2>2, <2>3
<1>5. CASE run'[p].pc # "persist"
  <2>1. \A q \in Procs : run'[q].pc = "persist" => q # p /\ run'[q] = run[q]
    BY <1>1, <1>5 DEF Others
  <2>2. \A q, s \in Procs : q # s /\ run[q].pc = "persist" /\ run[s].pc = "persist" =>
          run[s].seal # run[q].seal
    BY DEF TypeInv, SealsOwn
  <2> QED BY <1>4, <2>1, <2>2 DEF SealsOwn
<1>6. CASE run'[p].pc = "persist"
  <2>1. run'[p].seal = issued + 1 /\ issued' = issued + 1 /\ audits' = audits
    BY <1>3, <1>6, SealTurns
  <2>2. run'[p].seal \in 1 .. issued' /\ \A e \in Exports : audits'[e].issued # run'[p].seal
    BY <1>2, <2>1
  <2>3. \A q \in Procs : q # p => run'[q] = run[q]
    BY <1>1 DEF Others
  <2>4. \A q \in Procs : q # p /\ run[q].pc = "persist" => run[q].seal # run'[p].seal
    BY <1>2, <1>4, <2>1
  <2>5. \A q, s \in Procs : q # s /\ run[q].pc = "persist" /\ run[s].pc = "persist" =>
          run[s].seal # run[q].seal
    BY DEF TypeInv, SealsOwn
  <2> QED BY <1>4, <2>2, <2>3, <2>4, <2>5 DEF SealsOwn
<1> QED BY <1>5, <1>6

LEMMA StepRest ==
  ASSUME TypeInv, NEW p \in Procs, Step(p)
  PROVE  /\ d1' \in 0 .. MaxSeq /\ runs' \in 0 .. MaxRuns
         /\ aged' = aged /\ key' = key
         /\ policy' \in {"BUILDING", "REJECTED"} /\ wal' \in BOOLEAN /\ disturbed' \in BOOLEAN
         /\ handle' = handle
<1>0. /\ d1 \in 0 .. MaxSeq /\ runs \in 0 .. MaxRuns /\ policy \in {"BUILDING", "REJECTED"}
      /\ wal \in BOOLEAN /\ disturbed \in BOOLEAN
  BY DEF TypeInv, TypeOK
<1>1. CASE Start(p)
  <2>1. runs' = runs + 1 /\ runs < MaxRuns /\ policy' = "BUILDING"
        /\ aged' = aged /\ key' = key /\ handle' = handle
    BY <1>1 DEF Start
  <2>2. wal' \in BOOLEAN /\ disturbed' \in BOOLEAN
    BY <1>1, Zenon DEF Start
  <2>3. d1' \in 0 .. MaxSeq
    BY <1>0, <1>1, Constants DEF Start
  <2> QED BY <1>0, <2>1, <2>2, <2>3, Constants
<1>2. CASE Finalize(p) \/ Freeze(p) \/ FreezeFails(p)
  <2>1. wal' \in BOOLEAN
    BY <1>0, <1>2, Zenon DEF Finalize, Freeze, FreezeFails
  <2>2. UNCHANGED <<d1, runs, aged, key, disturbed, handle>> /\ policy' \in {policy, "REJECTED"}
    BY <1>2 DEF Finalize, Freeze, FreezeFails
  <2> QED BY <1>0, <2>1, <2>2
<1>3. CASE ResetFails(p)
  <2>1. UNCHANGED <<d1, runs, aged, key, policy, wal, handle>>
    BY <1>3 DEF ResetFails
  <2>2. disturbed' \in BOOLEAN
    BY <1>3, Zenon DEF ResetFails
  <2> QED BY <1>0, <2>1, <2>2
<1>4. CASE ~Start(p) /\ ~Finalize(p) /\ ~Freeze(p) /\ ~FreezeFails(p) /\ ~ResetFails(p)
  <2>1. UNCHANGED <<d1, runs, aged, key, policy, wal, disturbed, handle>>
    BY <1>4 DEF Step, Check, Mark, MarkFailed, Reset, CopySide, CopyFeed, OpenChanges, ChangePage,
       Advance, BootstrapCursor, TableFails, Parity, Seal, Complete, SealFails, MarkUntrusted, Crash
  <2> QED BY <1>0, <2>1
<1> QED BY <1>1, <1>2, <1>3, <1>4

LEMMA StepTypeInv ==
  ASSUME TypeInv, NEW p \in Procs, Step(p)
  PROVE  TypeInv'
<1>1. run' \in [Procs -> Run] /\ Others(p) /\ mirror' \in Mirror /\ Moves(p)
  BY StepMoves
<1>2. /\ audits' \in [Exports -> Audit] /\ AuditsOrdered' /\ issued' \in 0 .. MaxIssued
      /\ issued \in Nat /\ issued <= issued'
  BY StepAudits, AuditsKept
<1>3. aged \in 0 .. issued /\ key \in 1 .. MaxKey /\ handle \in Exports \cup {None}
  BY DEF TypeInv, TypeOK
<1>4. aged' \in 0 .. issued'
  BY <1>2, <1>3, StepRest, Constants
<1>5. TypeOK'
  <2>1. \A q \in Procs : /\ run'[q].pc \in Pcs /\ run'[q].src \in Exports
                         /\ run'[q].at \in 0 .. MaxSeq /\ run'[q].prior \in 0 .. MaxIssued
                         /\ run'[q].seal \in 0 .. MaxIssued
    BY <1>1 DEF Run
  <2> QED BY <1>1, <1>2, <1>3, <1>4, <2>1, StepRest DEF TypeOK, Mirror, Audit, Pcs
<1>6. WithinExport'
  <2>1. ASSUME NEW q \in Procs, run'[q].pc \in {"change", "advance"}
        PROVE  run'[q].at <= run'[q].src.seq
    <3>1. CASE q # p
      BY <1>1, <2>1, <3>1 DEF Others, TypeInv, WithinExport
    <3>2. CASE q = p
      <4>1. WithinExport
        BY DEF TypeInv
      <4>2. \/ run'[p].at <= run'[p].src.seq
            \/ run[p].pc = "advance" /\ run'[p].src = run[p].src /\ run'[p].at = run[p].at
        BY <1>1, <2>1, <3>2 DEF Moves, Inert
      <4> QED BY <3>2, <4>1, <4>2 DEF WithinExport
    <3> QED BY <3>1, <3>2
  <2> QED BY <2>1 DEF WithinExport
<1> QED BY <1>1, <1>2, <1>5, <1>6, StepSeals DEF TypeInv

LEMMA TypeNext == TypeInv /\ [Next]_vars => TypeInv'
<1> SUFFICES ASSUME TypeInv, [Next]_vars PROVE TypeInv'
  OBVIOUS
<1>1. CASE OpenHandle
  <2>1. handle' \in Exports \cup {None}
    BY <1>1, TrustedType DEF OpenHandle
  <2>2. UNCHANGED <<d1, mirror, audits, issued, aged, key, policy, wal, run, disturbed, runs>>
    BY <1>1 DEF OpenHandle
  <2>3. TypeOK'
    BY <2>1, <2>2 DEF TypeInv, TypeOK
  <2> QED BY <2>2, <2>3 DEF TypeInv, WithinExport, AuditsOrdered, Signed, SealsOwn
<1>2. CASE ConsumeHandle
  <2>1. UNCHANGED <<d1, mirror, audits, issued, aged, key, policy, wal, run, disturbed, runs>>
        /\ handle' = None
    BY <1>2 DEF ConsumeHandle
  <2>2. TypeOK'
    BY <2>1 DEF TypeInv, TypeOK
  <2> QED BY <2>1, <2>2 DEF TypeInv, WithinExport, AuditsOrdered, Signed, SealsOwn
<1>3. CASE Age
  <2>1. UNCHANGED <<d1, mirror, audits, issued, key, policy, wal, handle, disturbed, runs>>
        /\ aged' = issued
    BY <1>3 DEF Age
  <2>2. ASSUME NEW q \in Procs
        PROVE  /\ run'[q] \in Run /\ run'[q].pc = run[q].pc /\ run'[q].src = run[q].src
               /\ run'[q].at = run[q].at /\ run'[q].prior = run[q].prior
               /\ run'[q].seal = run[q].seal
    <3>1. run'[q] \in {run[q], [run[q] EXCEPT !.old = TRUE]} /\ run[q] \in Run
      BY <1>3 DEF Age, TypeInv
    <3> QED BY <3>1 DEF Run
  <2>3. run' \in [Procs -> Run]
    <3>1. DOMAIN run' = Procs /\ run' = [q \in Procs |-> run'[q]]
      BY <1>3 DEF Age
    <3> QED BY <2>2, <3>1
  <2>4. aged' \in 0 .. issued'
    BY <2>1, Constants DEF TypeInv, TypeOK
  <2>5. TypeOK'
    BY <2>1, <2>2, <2>4 DEF TypeInv, TypeOK
  <2>6. AuditsOrdered'
    BY <2>1 DEF TypeInv, AuditsOrdered, Signed
  <2>7. SealsOwn'
    BY <2>1, <2>2 DEF TypeInv, SealsOwn
  <2> QED BY <2>2, <2>3, <2>5, <2>6, <2>7 DEF TypeInv, WithinExport
<1>4. CASE Rotate
  <2>1. UNCHANGED <<d1, mirror, audits, issued, aged, policy, wal, run, handle, disturbed, runs>>
        /\ key' \in 1 .. MaxKey
    BY <1>4, Constants DEF Rotate, TypeInv, TypeOK
  <2>2. TypeOK'
    BY <2>1 DEF TypeInv, TypeOK
  <2> QED BY <2>1, <2>2 DEF TypeInv, WithinExport, AuditsOrdered, Signed, SealsOwn
<1>5. CASE UNCHANGED vars
  BY <1>5 DEF vars, TypeInv, TypeOK, WithinExport, AuditsOrdered, Signed, SealsOwn
<1> QED BY <1>1, <1>2, <1>3, <1>4, <1>5, StepTypeInv DEF Next

LEMMA TypeInit == Init => TypeInv
<1> SUFFICES ASSUME Init PROVE TypeInv
  OBVIOUS
<1>1. /\ audits = [e \in Exports |-> NoAudit] /\ run = [p \in Procs |-> Idle]
      /\ mirror = Emptied
      /\ d1 = 0 /\ issued = 0 /\ aged = 0 /\ key = 1 /\ runs = 0 /\ handle = None
      /\ policy = "REJECTED" /\ wal = FALSE /\ disturbed = FALSE
  BY DEF Init
<1>2. run \in [Procs -> Run] /\ \A p \in Procs : run[p] = Idle
  BY <1>1, IdleIs
<1>3. audits \in [Exports -> Audit] /\ \A e \in Exports : audits[e] = NoAudit
  BY <1>1, NoAuditIs
<1>4. mirror \in Mirror
  BY <1>1, Constants DEF Mirror, Emptied
<1>5. \A p \in Procs : /\ run[p].pc \in Pcs /\ run[p].src \in Exports
                       /\ run[p].at \in 0 .. MaxSeq /\ run[p].prior \in 0 .. MaxIssued
                       /\ run[p].seal \in 0 .. MaxIssued
  BY <1>2, IdleIs DEF Run
<1>6. TypeOK
  <2>1. /\ d1 \in 0 .. MaxSeq /\ runs \in 0 .. MaxRuns /\ issued \in 0 .. MaxIssued
        /\ aged \in 0 .. issued /\ key \in 1 .. MaxKey
    BY <1>1, Constants
  <2>2. /\ policy \in {"BUILDING", "REJECTED"} /\ wal \in BOOLEAN /\ disturbed \in BOOLEAN
        /\ handle \in Exports \cup {None}
    BY <1>1
  <2> QED BY <1>3, <1>4, <1>5, <2>1, <2>2 DEF TypeOK, Mirror, Audit, Pcs
<1>7. AuditsOrdered
  BY <1>1, <1>3, NoAuditIs DEF AuditsOrdered, Signed
<1>8. WithinExport
  BY <1>2, IdleIs DEF WithinExport
<1>9. SealsOwn
  BY <1>2, IdleIs DEF SealsOwn
<1> QED BY <1>2, <1>6, <1>7, <1>8, <1>9 DEF TypeInv

\* TypeOK for any number of processes, exports, changes, audits and keys: in
\* particular no run reads the log beyond its export and every audit that a run or a
\* consumer bases itself on exists.
THEOREM SyncTypeOK == Spec => []TypeOK
<1>1. TypeInv => TypeOK
  BY DEF TypeInv
<1> QED BY <1>1, TypeInit, TypeNext, PTL DEF Spec

-----------------------------------------------------------------------------
(* What is signed.                                                         *)

LEMMA NextAudits ==
  ASSUME TypeInv, [Next]_vars
  PROVE  UNCHANGED audits \/ \E p \in Procs : AuditsMoveBy(p)
<1>1. CASE OpenHandle \/ ConsumeHandle \/ Age \/ Rotate \/ UNCHANGED vars
  BY <1>1 DEF OpenHandle, ConsumeHandle, Age, Rotate, vars
<1> QED BY <1>1, StepAudits DEF Next

\* A row that appears or changes, and stays signed.
LEMMA NewRow ==
  ASSUME TypeInv, [Next]_vars, NEW e \in Exports, audits'[e] \notin {audits[e], NoAudit}
  PROVE  /\ Reconciles(e)
         /\ \E n \in 1 .. issued, k \in 0 .. MaxIssued :
              audits'[e] = [kind |-> "FULL", prior |-> k, issued |-> n, key |-> key]
<1>1. audits \in [Exports -> Audit]
  BY DEF TypeInv, TypeOK, Audit
<1>2. PICK p \in Procs : AuditsMoveBy(p)
  BY NextAudits
<1>3. ~Seal(p)
  BY SealTurns
<1>4. run[p].pc = "persist"
  BY <1>1, <1>2, <1>3 DEF AuditsMoveBy
<1>5. PICK f \in Exports, k \in 0 .. MaxIssued :
        /\ Reconciles(f)
        /\ audits' = [audits EXCEPT ![f] = [kind |-> "FULL", prior |-> k,
                                            issued |-> run[p].seal, key |-> key]]
  BY <1>1, <1>2, <1>3 DEF AuditsMoveBy
<1>6. e = f
  BY <1>1, <1>5
<1>7. run[p].seal \in 1 .. issued
  BY <1>4 DEF TypeInv, SealsOwn
<1> QED BY <1>1, <1>5, <1>6, <1>7

\* SignedMatchesMirror for any number of processes and exports: a new signed audit row
\* names exactly what the mirror holds in that step, whatever other processes wrote
\* between the comparison, the signature and the commit.
THEOREM SyncSignedMatchesMirror == Spec => SignedMatchesMirror
<1>1. TypeInv /\ [Next]_vars =>
        [\A e \in Exports : audits'[e] \notin {audits[e], NoAudit} => Reconciles(e)]_vars
  BY NewRow
<1> QED BY <1>1, TypeInit, TypeNext, PTL DEF Spec, SignedMatchesMirror

-----------------------------------------------------------------------------
(* The trusted generation.                                                 *)

\* Nothing signed under the active key is lost: the newest audit of that key can only
\* be replaced by a newer one.
LEMMA LatestGrows ==
  ASSUME audits \in [Exports -> Audit], AuditsOrdered, (audits \in [Exports -> Audit])',
         AuditsOrdered', key' = key,
         \A e \in Exports : ActiveUpto(MaxIssued, e) => ActiveUpto(MaxIssued, e)'
  PROVE  Latest'.seq >= Latest.seq
<1>1. \/ Latest = None
      \/ Latest \in Exports /\ ActiveUpto(MaxIssued, Latest)
  BY LatestIs
<1>2. (\/ Latest = None /\ \A e \in Exports : ~ActiveUpto(MaxIssued, e)
       \/ /\ Latest \in Exports /\ ActiveUpto(MaxIssued, Latest)
          /\ \A e \in Exports : ActiveUpto(MaxIssued, e) => e.seq <= Latest.seq)'
  BY LatestIs, PTL
<1>3. CASE Latest = None
  BY <1>2, <1>3, Constants
<1>4. CASE Latest \in Exports /\ ActiveUpto(MaxIssued, Latest)
  <2>1. PICK e \in Exports : e = Latest /\ ActiveUpto(MaxIssued, e)
    BY <1>4
  <2>2. ActiveUpto(MaxIssued, e)'
    BY <2>1
  <2> QED BY <1>2, <2>1, <2>2, Constants
<1> QED BY <1>1, <1>3, <1>4

\* SigningNeverRollsBack for any number of processes, audits and keys: a step that
\* neither loses a signed row nor rotates the key never takes the generation that
\* consumers trust back to an older source cursor, also when it replaces the row of an
\* export that was signed before.
THEOREM SyncSigningNeverRollsBack == Spec => SigningNeverRollsBack
<1>1. TypeInv /\ TypeInv' /\ [Next]_vars =>
        [key' = key /\ (\A e \in Exports : Signed(e) => Signed(e)')
           => Latest'.seq >= Latest.seq]_vars
  <2> SUFFICES ASSUME TypeInv, TypeInv', [Next]_vars, key' = key,
                      \A e \in Exports : Signed(e) => Signed(e)'
               PROVE  Latest'.seq >= Latest.seq
    OBVIOUS
  <2>1. /\ audits \in [Exports -> Audit] /\ AuditsOrdered
        /\ issued \in Nat /\ issued <= MaxIssued
        /\ \A e \in Exports : audits[e].issued \in 0 .. MaxIssued
    BY Constants DEF TypeInv, TypeOK, Audit
  <2>2. (audits \in [Exports -> Audit])' /\ AuditsOrdered'
    BY DEF TypeInv, TypeOK, Audit
  <2>3. ASSUME NEW e \in Exports, ActiveUpto(MaxIssued, e) PROVE ActiveUpto(MaxIssued, e)'
    <3>1. audits[e].issued \in 1 .. MaxIssued /\ audits[e].key = key /\ Signed(e)
      BY <2>3, NoAuditIs DEF ActiveUpto, Signed
    <3>2. audits'[e] # NoAudit
      BY <3>1 DEF Signed
    <3>4. CASE audits'[e] = audits[e]
      BY <3>1, <3>4 DEF ActiveUpto
    <3>5. CASE audits'[e] # audits[e]
      <4>1. PICK n \in 1 .. issued, k \in 0 .. MaxIssued :
              audits'[e] = [kind |-> "FULL", prior |-> k, issued |-> n, key |-> key]
        BY <3>2, <3>5, NewRow
      <4>2. audits'[e].issued = n /\ audits'[e].key = key /\ n \in 1 .. MaxIssued
        BY <2>1, <4>1, Constants
      <4> QED BY <4>2 DEF ActiveUpto
    <3> QED BY <3>4, <3>5
  <2> QED BY <2>1, <2>2, <2>3, LatestGrows
<1> QED BY <1>1, TypeInit, TypeNext, PTL DEF Spec, SigningNeverRollsBack

-----------------------------------------------------------------------------
(* The applied cursor.                                                     *)

\* The steps of one process, alone on the mirror.
LEMMA StepCursor ==
  ASSUME TypeInv, CursorInv, NEW p \in Procs, Step(p), ~disturbed'
  PROVE  CursorInv'
<1>1. run' \in [Procs -> Run] /\ Others(p) /\ Moves(p)
  BY StepMoves
<1>2. ~disturbed /\ \A q \in Procs : q # p => run[q].pc = "idle"
  <2>1. disturbed \in BOOLEAN
    BY DEF TypeInv, TypeOK
  <2>2. CASE Start(p)
    BY <2>1, <2>2 DEF Start
  <2>3. CASE ~Start(p)
    <3>1. ~disturbed /\ run[p].pc # "idle"
      <4>1. CASE ResetFails(p)
        BY <2>1, <4>1 DEF ResetFails
      <4>2. CASE ~ResetFails(p)
        BY <2>3, <4>2 DEF Step, Check, Mark, MarkFailed, Reset, CopySide, CopyFeed, OpenChanges,
           ChangePage, Advance, BootstrapCursor, TableFails, Parity, Seal, Complete, SealFails,
           MarkUntrusted, Finalize, Freeze, FreezeFails, Crash
      <4> QED BY <4>1, <4>2
    <3> QED BY <3>1 DEF CursorInv
  <2> QED BY <2>2, <2>3
<1>3. \A q \in Procs : q # p => run'[q].pc = "idle"
  BY <1>1, <1>2 DEF Others
<1>4. /\ Facts(mirror.cursor) \subseteq mirror.feed
      /\ run[p].pc \in {"check", "mark", "reset", "side"} => run[p].at = 0
      /\ run[p].pc = "feed" => Facts(run[p].at) \cap Facts(run[p].src.seq) \subseteq mirror.feed
      /\ run[p].pc \in {"change", "advance"} => Facts(run[p].at) \subseteq mirror.feed
      /\ run[p].pc = "cursor" => Facts(run[p].src.seq) \subseteq mirror.feed
  BY <1>2 DEF CursorInv
<1>5. /\ run[p].at \in 0 .. MaxSeq /\ run[p].src.seq \in 0 .. MaxSeq
      /\ mirror.cursor \in 0 .. MaxSeq /\ run'[p].at \in 0 .. MaxSeq
  <2>1. run'[p].at \in 0 .. MaxSeq
    BY <1>1 DEF Run
  <2> QED BY <2>1, PositionOf
<1> DEFINE Good ==
      /\ Facts(mirror'.cursor) \subseteq mirror'.feed
      /\ run'[p].pc \in {"check", "mark", "reset", "side"} => run'[p].at = 0
      /\ run'[p].pc = "feed" => Facts(run'[p].at) \cap Facts(run'[p].src.seq) \subseteq mirror'.feed
      /\ run'[p].pc \in {"change", "advance"} => Facts(run'[p].at) \subseteq mirror'.feed
      /\ run'[p].pc = "cursor" => Facts(run'[p].src.seq) \subseteq mirror'.feed
<1>6. Facts(0) = {}
  BY DEF Facts
<1>7. Good
  <2> DEFINE r == run[p]
             s == run'[p]
             Same == mirror'.feed = mirror.feed /\ mirror'.cursor = mirror.cursor
  <2>1. CASE s.pc \in Inert /\ Same
    BY <1>4, <2>1 DEF Inert
  <2>2. CASE s.pc \in {"check", "mark", "reset", "side", "feed"} /\ s.at = 0 /\ Same
    BY <1>4, <1>6, <2>2
  <2>3. CASE /\ r.pc \in {"check", "mark"} /\ s.pc \in {"mark", "reset", "side", "feed"}
             /\ s.at = r.at /\ Same
    BY <1>4, <1>6, <2>3
  <2>4. CASE /\ r.pc = "reset" /\ s.pc = "side" /\ s.at = r.at
             /\ mirror'.feed = {} /\ mirror'.cursor = 0
    BY <1>4, <1>6, <2>4
  <2>5. CASE /\ r.pc = "feed" /\ s.pc = "feed" /\ s.src = r.src
             /\ s.at \in Facts(r.src.seq)
             /\ \A n \in Facts(r.src.seq) : n > r.at => s.at <= n
             /\ mirror'.feed = mirror.feed \cup {s.at} /\ mirror'.cursor = mirror.cursor
    <3>1. \A n \in Facts(s.at) \cap Facts(r.src.seq) : n = s.at \/ n \in Facts(r.at)
      BY <1>5, <2>5 DEF Facts
    <3>2. Facts(s.at) \cap Facts(s.src.seq) \subseteq mirror'.feed
      BY <1>4, <2>5, <3>1
    <3> QED BY <1>4, <2>5, <3>2
  <2>6. CASE /\ r.pc = "feed" /\ s.pc = "cursor" /\ s.src = r.src
             /\ \A n \in Facts(r.src.seq) : ~(n > r.at)
             /\ Same
    <3>1. \A n \in Facts(r.src.seq) : n \in Facts(r.at)
      BY <1>5, <2>6 DEF Facts
    <3> QED BY <1>4, <2>6, <3>1
  <2>7. CASE /\ r.pc = "feed" /\ s.pc = "change" /\ s.src = r.src
             /\ s.at = mirror.cursor /\ s.at <= s.src.seq /\ Same
    BY <1>4, <2>7
  <2>8. CASE /\ r.pc = "change" /\ s.pc = "advance" /\ s.src = r.src
             /\ s.at = r.at + 1 /\ s.at <= s.src.seq
             /\ mirror'.feed = mirror.feed \cup ({s.at} \ Markers)
             /\ mirror'.cursor = mirror.cursor
    <3>1. \A n \in Facts(s.at) : n \in Facts(r.at) \/ n \in {s.at} \ Markers
      BY <1>5, <2>8 DEF Facts
    <3> QED BY <1>4, <2>8, <3>1
  <2>9. CASE /\ r.pc = "change" /\ s.pc = "cursor" /\ s.src = r.src /\ r.at = r.src.seq /\ Same
    BY <1>4, <2>9
  <2>10. CASE /\ r.pc = "advance" /\ s.pc = "change" /\ s.src = r.src /\ s.at = r.at
              /\ mirror'.feed = mirror.feed /\ mirror'.cursor = r.at
    BY <1>4, <2>10
  <2>11. CASE /\ r.pc = "cursor" /\ s.pc \in Inert
              /\ mirror'.feed = mirror.feed /\ mirror'.cursor = r.src.seq
    BY <1>4, <2>11 DEF Inert
  <2>12. CASE /\ r.pc = "reset" /\ s.pc = "fail"
              /\ disturbed' \/ (mirror'.feed = {} /\ mirror'.cursor = 0)
    BY <1>6, <2>12
  <2>13. CASE s.pc = "persist" /\ Same
    BY <1>4, <2>13
  <2> QED BY <1>1, <2>1, <2>2, <2>3, <2>4, <2>5, <2>6, <2>7, <2>8, <2>9, <2>10, <2>11, <2>12,
             <2>13 DEF Moves
<1>8. \A q \in Procs :
         /\ run'[q].pc \in {"check", "mark", "reset", "side"} => run'[q].at = 0
         /\ run'[q].pc = "feed" =>
              Facts(run'[q].at) \cap Facts(run'[q].src.seq) \subseteq mirror'.feed
         /\ run'[q].pc \in {"change", "advance"} => Facts(run'[q].at) \subseteq mirror'.feed
         /\ run'[q].pc = "cursor" => Facts(run'[q].src.seq) \subseteq mirror'.feed
  BY <1>3, <1>7
<1>9. \A q, s \in Procs : run'[q].pc # "idle" /\ run'[s].pc # "idle" => q = s
  BY <1>3
<1> QED BY <1>7, <1>8, <1>9 DEF CursorInv

LEMMA CursorNext == TypeInv /\ CursorInv /\ [Next]_vars => CursorInv'
<1> SUFFICES ASSUME TypeInv, CursorInv, [Next]_vars PROVE CursorInv'
  OBVIOUS
<1>1. ASSUME NEW p \in Procs, Step(p) PROVE CursorInv'
  <2>1. CASE disturbed'
    BY <2>1 DEF CursorInv
  <2> QED BY <1>1, <2>1, StepCursor
<1>2. CASE OpenHandle \/ ConsumeHandle \/ Rotate \/ UNCHANGED vars
  <2>1. UNCHANGED <<mirror, run, disturbed>>
    BY <1>2 DEF OpenHandle, ConsumeHandle, Rotate, vars
  <2> QED BY <2>1 DEF CursorInv
<1>3. CASE Age
  <2>1. UNCHANGED <<mirror, disturbed>>
    BY <1>3 DEF Age
  <2>2. ASSUME NEW q \in Procs
        PROVE  run'[q].pc = run[q].pc /\ run'[q].src = run[q].src /\ run'[q].at = run[q].at
    <3>1. run'[q] \in {run[q], [run[q] EXCEPT !.old = TRUE]} /\ run[q] \in Run
      BY <1>3 DEF Age, TypeInv
    <3> DEFINE s == [run[q] EXCEPT !.old = TRUE]
    <3>2. s.pc = run[q].pc /\ s.src = run[q].src /\ s.at = run[q].at
      BY <3>1 DEF Run
    <3> QED BY <3>1, <3>2
  <2> QED BY <2>1, <2>2 DEF CursorInv
<1> QED BY <1>1, <1>2, <1>3 DEF Next

\* CursorCovers for any number of processes, one at a time, any markers and exports,
\* and a crash after any commit: every change up to the applied cursor is in the mirror.
THEOREM SyncCursorCovers == Spec => []CursorCovers
<1>1. Init => CursorInv
  <2>1. Init => Facts(0) = {} /\ mirror.cursor = 0 /\ \A p \in Procs : run[p].pc = "idle"
    BY IdleIs DEF Init, Facts, Emptied
  <2> QED BY <2>1 DEF CursorInv
<1>2. CursorInv => CursorCovers
  BY DEF CursorInv, CursorCovers
<1> QED BY <1>1, <1>2, TypeInit, TypeNext, CursorNext, PTL DEF Spec

=============================================================================
