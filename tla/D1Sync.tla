------------------------------- MODULE D1Sync -------------------------------
(***************************************************************************)
(* The local SQLite mirror of the production ingestion D1                  *)
(* (scripts/sync_d1_to_sqlite.py, scripts/_private_d1_export.py and        *)
(* packages/data_plane/ops/d1_sync_signing.py).                            *)
(*                                                                         *)
(* A sync process takes one export of D1, applies it to the mirror in many *)
(* small commits and, when the export came from the pinned Wrangler path   *)
(* and covered the whole inventory, signs an audit row that says "the      *)
(* mirror equals that export".  Processes may crash between any two        *)
(* commits, and nothing stops two of them from running on one mirror.  A   *)
(* consumer (Ops projection, READY publication) opens the mirror under a   *)
(* write lock and trusts it only if the latest signed audit still holds.   *)
(*                                                                         *)
(* D1 itself is seen only through exports: its log grows, its other rows   *)
(* come and go between two of them.                                        *)
(*                                                                         *)
(* Data.  Change n of the log stores fact n in a change-feed table, unless *)
(* n is one of the Markers that have no local table; every other governed  *)
(* table is one table `side' whose rows are their own ingested_at.  An     *)
(* export is the pair of the two; equal exports have equal digests.        *)
(* Unsigned audit rows (APPLYING, FAILED, UNTRUSTED COMPLETE) are read by  *)
(* no one, and are left out; what they overwrite is not.                   *)
(***************************************************************************)
EXTENDS Integers, FiniteSets, FiniteSetsExt

CONSTANTS
  Procs,      \* sync processes
  MaxSeq,     \* bound on the change_seq of D1
  Artifacts,  \* exports an operator may hand over as files (--d1-export)
  Markers,    \* change_seqs of _CHANGE_FEED_SKIP_TABLES
  SideRows,   \* rows of the other governed tables, by ingested_at
  MaxRuns,    \* bound on the sync processes ever started
  MaxIssued,  \* bound on the audits ever signed
  MaxKey      \* bound on the generations of the signing key

ASSUME SyncAssumption ==
  /\ Artifacts \subseteq [seq : 0..MaxSeq, side : SUBSET SideRows]
  /\ MaxSeq \in Nat /\ MaxRuns \in Nat /\ MaxIssued \in Nat /\ MaxKey \in Nat \ {0}
  /\ Markers \subseteq 1..MaxSeq
  /\ SideRows \subseteq Nat \ {0} /\ IsFiniteSet(SideRows)

VARIABLES
  d1,       \* the change_seq of the newest export of D1
  mirror,   \* the local database: facts, side rows, applied cursor
  audits,   \* export digest -> signed COMPLETE audit row, or NoAudit
  issued,   \* audits signed so far (their issue order)
  aged,     \* audits up to this one are older than the maximum age
  key,      \* the active signing key
  policy,   \* local_snapshot_policy.publication_state
  wal,      \* a -wal/-shm sidecar exists
  run,      \* process -> its progress
  runs,     \* processes started so far
  handle,   \* the audit held by an authenticated mirror handle, or None
  disturbed \* history: two processes ran at the same time, or a reset
            \* broke off between two tables

vars == <<d1, mirror, audits, issued, aged, key, policy, wal, run, runs,
          handle, disturbed>>

Exports == [seq : 0..MaxSeq, side : SUBSET SideRows]
None == [seq |-> -1, side |-> {}]
Empty == [seq |-> 0, side |-> {}]
NoAudit == [kind |-> "none", prior |-> 0, issued |-> 0, key |-> 0]
Facts(s) == (1..s) \ Markers

Idle == [pc |-> "idle", remote |-> FALSE, incremental |-> FALSE,
         tables |-> {}, src |-> Empty, prior |-> 0, failed |-> FALSE,
         at |-> 0, old |-> FALSE, spared |-> FALSE, seal |-> 0]
Emptied == [feed |-> {}, side |-> {}, cursor |-> 0]

TypeOK ==
  /\ d1 \in 0..MaxSeq
  /\ mirror \in [feed : SUBSET Facts(MaxSeq), side : SUBSET SideRows,
                 cursor : 0..MaxSeq]
  /\ audits \in [Exports -> [kind : {"none", "FULL", "INCREMENTAL"},
                             prior : 0..MaxIssued, issued : 0..MaxIssued,
                             key : 0..MaxKey]]
  /\ runs \in 0..MaxRuns
  /\ issued \in 0..MaxIssued /\ aged \in 0..issued /\ key \in 1..MaxKey
  /\ policy \in {"BUILDING", "REJECTED"}
  /\ wal \in BOOLEAN /\ disturbed \in BOOLEAN
  /\ handle \in Exports \cup {None}
  /\ \A p \in Procs :
       /\ run[p].pc \in {"idle", "check", "mark", "fail", "reset", "side",
                         "feed", "change", "advance", "cursor", "parity",
                         "complete", "persist", "untrusted", "final", "freeze"}
       /\ run[p].src \in Exports /\ run[p].at \in 0..MaxSeq
       /\ run[p].prior \in 0..MaxIssued /\ run[p].seal \in 0..MaxIssued

Init ==
  /\ d1 = 0
  /\ mirror = Emptied
  /\ audits = [e \in Exports |-> NoAudit]
  /\ issued = 0 /\ aged = 0 /\ key = 1
  /\ policy = "REJECTED" /\ wal = FALSE /\ disturbed = FALSE
  /\ run = [p \in Procs |-> Idle]
  /\ handle = None /\ runs = 0

-----------------------------------------------------------------------------
(* The audit chain *)

Signed(e) == audits[e] # NoAudit
\* governed_content_identity of the mirror, with its cursor, is that of e
Reconciles(e) ==
  /\ mirror.feed = Facts(e.seq)
  /\ mirror.side = e.side
  /\ mirror.cursor = e.seq

\* The scan by issue order: rows of the active key only, a row never moves
\* the source cursor back, an INCREMENTAL row names an eligible prior.
EligibleUnordered(rows) ==
  LET Scan[n \in 0..MaxIssued] ==
        IF n = 0 THEN [cursor |-> -1, seen |-> {}, last |-> None]
        ELSE LET before == Scan[n - 1]
                 row == {e \in Exports : rows[e].issued = n
                                         /\ rows[e].key = key}
             IN  IF row = {} THEN before
                 ELSE LET e == CHOOSE x \in row : TRUE
                      IN [cursor |-> e.seq, seen |-> before.seen \cup {n},
                          last |-> e]
  IN Scan[MaxIssued].last

Eligible(rows) ==
  LET Scan[n \in 0..MaxIssued] ==
        IF n = 0 THEN [cursor |-> -1, seen |-> {}, last |-> None]
        ELSE LET before == Scan[n - 1]
                 row == {e \in Exports :
                           /\ rows[e].issued = n
                           /\ rows[e].key = key
                           /\ e.seq >= before.cursor
                           /\ \/ rows[e].kind = "FULL"
                              \/ rows[e].prior \in before.seen}
             IN  IF row = {} THEN before
                 ELSE LET e == CHOOSE x \in row : TRUE
                      IN [cursor |-> e.seq, seen |-> before.seen \cup {n},
                          last |-> e]
  IN Scan[MaxIssued].last

Latest == Eligible(audits)

\* _latest_trusted_sync_audit: the latest row is fresh and the mirror, hashed
\* again, still is what the row says.
TrustedUnhashed ==
  IF Latest # None /\ audits[Latest].issued > aged THEN Latest ELSE None
Trusted ==
  IF Latest # None /\ audits[Latest].issued > aged /\ Reconciles(Latest)
  THEN Latest ELSE None

-----------------------------------------------------------------------------
(* One sync process.  Writes are refused while a handle holds the lock.    *)

Unlocked == handle = None
\* --wrangler-remote without --table
Full(r) == r.remote /\ r.tables = {"side", "feed"}
Kind(r) == CASE Full(r) /\ r.incremental -> "INCREMENTAL"
             [] Full(r) -> "FULL"
             [] OTHER -> "UNTRUSTED"
Go(p, pc) == run' = [run EXCEPT ![p].pc = pc]

\* main: the export is taken (or an operator's artifact is opened) and
\* begin_snapshot_sync closes the published snapshot.
Start(p) ==
  /\ run[p].pc = "idle" /\ Unlocked /\ runs < MaxRuns
  /\ runs' = runs + 1
  /\ \E remote, incremental \in BOOLEAN,
        tables \in {{"side"}, {"feed"}, {"side", "feed"}},
        e \in Exports :
       /\ IF remote THEN e.seq >= d1 /\ d1' = e.seq
                    ELSE e \in Artifacts /\ d1' = d1
       /\ run' = [run EXCEPT ![p] =
            [Idle EXCEPT !.pc = "check", !.remote = remote,
                         !.incremental = incremental, !.tables = tables,
                         !.src = e]]
  /\ policy' = "BUILDING"
  /\ wal' = TRUE
  /\ disturbed' = (disturbed \/ \E q \in Procs \ {p} : run[q].pc # "idle")
  /\ UNCHANGED <<mirror, audits, issued, aged, key, handle>>

\* The measured cursor against the trusted base, and the no-op.
NeedsCursor(r) ==
  \/ r.incremental /\ "feed" \in r.tables
  \/ ~r.incremental /\ r.tables = {"side", "feed"}
Check(p) ==
  LET r == run[p]
      based == Full(r) /\ r.incremental
      prior == IF based /\ Trusted # None THEN Trusted.seq ELSE mirror.cursor
      current == Full(r) /\ Trusted # None /\ r.src.seq = Trusted.seq
      bad == /\ NeedsCursor(r)
             /\ \/ based /\ Trusted = None
                \/ r.src.seq < prior
                \/ current /\ r.src # Trusted
  IN /\ r.pc = "check"
     /\ run' = [run EXCEPT
          ![p].pc = IF current /\ ~bad THEN "final" ELSE "mark",
          ![p].failed = bad,
          ![p].prior = IF based /\ Trusted # None THEN audits[Trusted].issued
                       ELSE 0]
     /\ UNCHANGED <<d1, mirror, audits, issued, aged, key, policy, wal,
                    handle, disturbed, runs>>

\* The APPLYING row.  A signed row of the same digest is spared: the row is
\* then written under another digest.
Mark(p) ==
  LET r == run[p]
  IN /\ r.pc = "mark" /\ Unlocked
     /\ run' = [run EXCEPT
          ![p].pc = IF r.failed THEN "fail"
                    ELSE IF Kind(r) = "FULL" THEN "reset"
                    ELSE IF "side" \in r.tables THEN "side" ELSE "feed",
          ![p].spared = Signed(r.src)]
     /\ UNCHANGED <<d1, mirror, audits, issued, aged, key, policy, wal,
                    handle, disturbed, runs>>

\* A failed check writes FAILED under the export's own digest, over a signed
\* row of that digest.
MarkFailed(p) ==
  /\ run[p].pc = "fail" /\ Unlocked
  /\ audits' = [audits EXCEPT ![run[p].src] = NoAudit]
  /\ Go(p, "final")
  /\ UNCHANGED <<d1, mirror, issued, aged, key, policy, wal, handle, disturbed, runs>>

\* _reset_governed_local_tables: every table and the cursor in one commit.
Reset(p) ==
  /\ run[p].pc = "reset" /\ Unlocked
  /\ mirror' = Emptied
  /\ Go(p, "side")
  /\ UNCHANGED <<d1, audits, issued, aged, key, policy, wal, handle, disturbed, runs>>
\* It raises at any table, or at its commit, and nothing rolls it back: the
\* deletes made so far are committed when the FAILED row is written.
ResetFails(p) ==
  /\ run[p].pc = "reset" /\ Unlocked
  /\ mirror' \in {Emptied} \cup
       {[mirror EXCEPT !.feed = f, !.side = s] : f \in {mirror.feed, {}},
                                                s \in {mirror.side, {}}}
  /\ disturbed' = (disturbed \/ mirror' \notin {mirror, Emptied})
  /\ run' = [run EXCEPT ![p].pc = "fail", ![p].failed = TRUE]
  /\ UNCHANGED <<d1, audits, issued, aged, key, policy, wal, handle, runs>>

AfterSide(r) == IF "feed" \in r.tables THEN "feed"
                ELSE IF r.failed \/ ~Full(r) THEN "untrusted" ELSE "parity"
AfterFeed(r) ==
  CASE r.failed -> "untrusted"
    [] ~r.failed /\ ~r.incremental /\ r.tables = {"side", "feed"} -> "cursor"
    [] ~r.failed /\ r.incremental /\ Full(r) -> "parity"
    [] OTHER -> "untrusted"

\* The tables outside the change feed.  An incremental run copies only rows
\* newer than the newest row it already has.
CopySide(p) ==
  LET r == run[p]
      since == IF r.incremental THEN Max(mirror.side \cup {0}) ELSE 0
  IN /\ r.pc = "side" /\ Unlocked
     /\ mirror' = [mirror EXCEPT !.side =
                     @ \cup {x \in r.src.side : x > since}]
     /\ run' = [run EXCEPT ![p].pc = AfterSide(r), ![p].at = 0]
     /\ UNCHANGED <<d1, audits, issued, aged, key, policy, wal,
                    handle, disturbed, runs>>

\* A change-feed table copied page by page (one row a page).
CopyFeed(p) ==
  LET r == run[p]
      rest == {n \in Facts(r.src.seq) : n > r.at}
  IN /\ r.pc = "feed" /\ ~r.incremental /\ Unlocked
     /\ IF rest = {}
        THEN mirror' = mirror /\ Go(p, AfterFeed(r))
        ELSE /\ mirror' = [mirror EXCEPT !.feed = @ \cup {Min(rest)}]
             /\ run' = [run EXCEPT ![p].at = Min(rest)]
     /\ UNCHANGED <<d1, audits, issued, aged, key, policy, wal,
                    handle, disturbed, runs>>

\* The change log applied page by page: the page's facts are committed first,
\* its cursor after them.  A stale export, and a log that does not reach the
\* measured cursor, fail.
OpenChangesStale(p) ==
  /\ run[p].pc = "feed" /\ run[p].incremental
  /\ run' = [run EXCEPT ![p].pc = "change", ![p].at = mirror.cursor]
  /\ UNCHANGED <<d1, mirror, audits, issued, aged, key, policy, wal,
                 handle, disturbed, runs>>
OpenChanges(p) ==
  LET r == run[p]
  IN /\ r.pc = "feed" /\ r.incremental
     /\ run' = IF r.src.seq < mirror.cursor
               THEN [run EXCEPT ![p].pc = "untrusted", ![p].failed = TRUE]
               ELSE [run EXCEPT ![p].pc = "change", ![p].at = mirror.cursor]
     /\ UNCHANGED <<d1, mirror, audits, issued, aged, key, policy, wal,
                    handle, disturbed, runs>>
\* The two commits of a page in the other order.
ChangePageCursorFirst(p) ==
  LET r == run[p]
  IN /\ r.pc = "change" /\ Unlocked
     /\ IF r.at = r.src.seq
        THEN mirror' = mirror /\ Go(p, AfterFeed(r))
        ELSE /\ mirror' = [mirror EXCEPT !.cursor = r.at + 1]
             /\ run' = [run EXCEPT ![p].pc = "advance", ![p].at = r.at + 1]
     /\ UNCHANGED <<d1, audits, issued, aged, key, policy, wal,
                    handle, disturbed, runs>>
ChangePage(p) ==
  LET r == run[p]
      next == r.at + 1
  IN /\ r.pc = "change" /\ Unlocked
     /\ IF r.at = r.src.seq
        THEN mirror' = mirror /\ Go(p, AfterFeed(r))
        ELSE /\ mirror' = [mirror EXCEPT !.feed = @ \cup ({next} \ Markers)]
             /\ run' = [run EXCEPT ![p].pc = "advance", ![p].at = next]
     /\ UNCHANGED <<d1, audits, issued, aged, key, policy, wal,
                    handle, disturbed, runs>>

\* _record_change_seq: never backwards.
RecordCursor(p, value, pc) ==
  IF value < mirror.cursor
  THEN /\ run' = [run EXCEPT ![p].pc = "untrusted", ![p].failed = TRUE]
       /\ mirror' = mirror
  ELSE /\ run' = [run EXCEPT ![p].pc = pc]
       /\ mirror' = [mirror EXCEPT !.cursor = value]
Advance(p) ==
  /\ run[p].pc = "advance" /\ Unlocked
  /\ RecordCursor(p, run[p].at, "change")
  /\ UNCHANGED <<d1, audits, issued, aged, key, policy, wal, handle, disturbed, runs>>
BootstrapCursor(p) ==
  /\ run[p].pc = "cursor" /\ Unlocked
  /\ RecordCursor(p, run[p].src.seq,
                  IF Full(run[p]) THEN "parity" ELSE "untrusted")
  /\ UNCHANGED <<d1, audits, issued, aged, key, policy, wal, handle, disturbed, runs>>

\* A table raises (max_pages, a bad row, a busy database); the loop goes on
\* with the next table.
TableFails(p) ==
  LET r == [run[p] EXCEPT !.failed = TRUE]
  IN /\ r.pc \in {"side", "feed", "change", "advance"}
     /\ run' = [run EXCEPT ![p] =
          [r EXCEPT !.pc = IF r.pc = "side" THEN AfterSide(r) ELSE "untrusted",
                    !.at = 0]]
     /\ UNCHANGED <<d1, mirror, audits, issued, aged, key, policy, wal,
                    handle, disturbed, runs>>

\* Source and mirror are compared and the local facts authenticated.
Parity(p) ==
  /\ run[p].pc = "parity"
  /\ run' = IF Reconciles(run[p].src) /\ policy = "BUILDING"
            THEN [run EXCEPT ![p].pc = "complete"]
            ELSE [run EXCEPT ![p].pc = "untrusted", ![p].failed = TRUE]
  /\ UNCHANGED <<d1, mirror, audits, issued, aged, key, policy, wal, handle,
                 disturbed, runs>>

\* The authority signs, which dates the audit, before any lock is taken.
Seal(p) ==
  /\ run[p].pc = "complete" /\ issued < MaxIssued
  /\ issued' = issued + 1
  /\ run' = [run EXCEPT ![p].pc = "persist", ![p].seal = issued + 1]
  /\ UNCHANGED <<d1, mirror, audits, aged, key, policy, wal, handle,
                 disturbed, runs>>

\* The transaction that persists the signed row.  Under the write lock the
\* mirror is hashed again; a row of the same digest ends an INCREMENTAL run,
\* even the APPLYING row this run wrote itself.
PersistsUnhashed(r) == policy = "BUILDING" /\ ~r.old /\ Kind(r) = "FULL"
Persists(r) ==
  /\ Reconciles(r.src)
  /\ policy = "BUILDING"
  /\ ~r.old
  /\ Kind(r) = "FULL"
\* The same export signed again on top of itself changes nothing.
SignedAlready(r) ==
  /\ Kind(r) = "INCREMENTAL" /\ Reconciles(r.src) /\ ~r.old
  /\ Signed(r.src) /\ audits[r.src].issued = r.prior
Complete(p) ==
  LET r == run[p]
  IN /\ r.pc = "persist" /\ Unlocked
     /\ IF Persists(r)
        THEN /\ audits' = [audits EXCEPT ![r.src] =
                  [kind |-> Kind(r), prior |-> r.prior,
                   issued |-> r.seal, key |-> key]]
             /\ Go(p, "final")
        ELSE /\ UNCHANGED audits
             /\ run' = IF SignedAlready(r) THEN [run EXCEPT ![p].pc = "final"]
                  ELSE [run EXCEPT ![p].pc = "untrusted", ![p].failed = TRUE]
     /\ UNCHANGED <<d1, mirror, issued, aged, key, policy, wal, handle,
                    disturbed, runs>>
\* Sealing refuses, or the transaction does.
SealFails(p) ==
  /\ run[p].pc \in {"complete", "persist"}
  /\ run' = [run EXCEPT ![p].pc = "untrusted", ![p].failed = TRUE]
  /\ UNCHANGED <<d1, mirror, audits, issued, aged, key, policy, wal, handle,
                 disturbed, runs>>

\* The closing FAILED or UNTRUSTED COMPLETE row, under the digest of the
\* APPLYING row: a row signed before this run is spared, one signed since by
\* another run of the same export is not.
MarkUntrusted(p) ==
  /\ run[p].pc = "untrusted" /\ Unlocked
  /\ audits' = IF run[p].spared THEN audits
               ELSE [audits EXCEPT ![run[p].src] = NoAudit]
  /\ Go(p, "final")
  /\ UNCHANGED <<d1, mirror, issued, aged, key, policy, wal, handle,
                 disturbed, runs>>

\* _finalize_sync_policy: READY publication is PENDING, so every run ends in
\* REJECTED.
LastOut(p) == \A q \in Procs \ {p} : run[q].pc = "idle"
Finalize(p) ==
  LET frozen == run[p].remote /\ ~run[p].failed
  IN /\ run[p].pc = "final" /\ Unlocked
     /\ policy' = "REJECTED"
     /\ run' = [run EXCEPT ![p] = IF frozen THEN [@ EXCEPT !.pc = "freeze"]
                                  ELSE Idle]
     /\ wal' = IF frozen THEN wal ELSE wal /\ ~LastOut(p)
     /\ UNCHANGED <<d1, mirror, audits, issued, aged, key, handle, disturbed, runs>>

\* The frozen hand-off: a current trusted audit, and no other connection.
Freeze(p) ==
  /\ run[p].pc = "freeze" /\ Unlocked
  /\ Trusted # None /\ LastOut(p)
  /\ run' = [run EXCEPT ![p] = Idle]
  /\ wal' = FALSE
  /\ UNCHANGED <<d1, mirror, audits, issued, aged, key, policy, handle,
                 disturbed, runs>>
FreezeFails(p) ==
  /\ run[p].pc = "freeze"
  /\ Trusted = None \/ ~LastOut(p)
  /\ run' = [run EXCEPT ![p] = Idle]
  /\ wal' = (wal /\ ~LastOut(p))
  /\ UNCHANGED <<d1, mirror, audits, issued, aged, key, policy, handle,
                 disturbed, runs>>

Crash(p) ==
  /\ run[p].pc # "idle"
  /\ run' = [run EXCEPT ![p] = Idle]
  /\ UNCHANGED <<d1, mirror, audits, issued, aged, key, policy, wal, handle,
                 disturbed, runs>>

-----------------------------------------------------------------------------
(* The consumers of the mirror *)

OpenHandle ==
  /\ Unlocked /\ ~wal
  /\ Trusted # None /\ Trusted.seq > 0
  /\ handle' = Trusted
  /\ UNCHANGED <<d1, mirror, audits, issued, aged, key, policy, wal, run,
                 disturbed, runs>>
\* _consume_owned: both connections must still prove the identity the handle
\* was opened with; the lock is released either way.
ConsumeHandle ==
  /\ handle # None
  /\ handle' = None
  /\ UNCHANGED <<d1, mirror, audits, issued, aged, key, policy, wal, run,
                 disturbed, runs>>

(* The environment: time passes, keys rotate. *)
\* Only the age of an export that may still be signed matters.
Unsigned == {"check", "mark", "reset", "side", "feed", "change", "advance",
             "cursor", "parity", "complete", "persist"}
Age ==
  /\ \/ aged < issued
     \/ \E p \in Procs : run[p].pc \in Unsigned /\ Full(run[p])
  /\ aged' = issued
  /\ run' = [p \in Procs |-> IF run[p].pc \in Unsigned /\ Full(run[p])
                             THEN [run[p] EXCEPT !.old = TRUE] ELSE run[p]]
  /\ UNCHANGED <<d1, mirror, audits, issued, key, policy, wal, handle,
                 disturbed, runs>>
Rotate ==
  /\ key < MaxKey /\ \A p \in Procs : run[p].pc = "idle"
  /\ key' = key + 1
  /\ UNCHANGED <<d1, mirror, audits, issued, aged, policy, wal, run, handle,
                 disturbed, runs>>

Step(p) ==
  \/ Start(p) \/ Check(p) \/ Mark(p) \/ MarkFailed(p) \/ Reset(p) \/ ResetFails(p)
  \/ CopySide(p) \/ CopyFeed(p) \/ OpenChanges(p) \/ ChangePage(p)
  \/ Advance(p) \/ BootstrapCursor(p) \/ TableFails(p) \/ Parity(p)
  \/ Seal(p) \/ Complete(p) \/ SealFails(p) \/ MarkUntrusted(p) \/ Finalize(p)
  \/ Freeze(p) \/ FreezeFails(p) \/ Crash(p)
Next == \/ \E p \in Procs : Step(p)
        \/ OpenHandle \/ ConsumeHandle
        \/ Age \/ Rotate
Spec == Init /\ [][Next]_vars

-----------------------------------------------------------------------------
(* Correctness *)

\* Every change up to the applied cursor is in the mirror, whatever commit a
\* process stopped after: an incremental run that starts from the cursor
\* never skips a fact (_sync_export_changes commits a page's facts before its
\* cursor, _reset_governed_local_tables drops both at once).  Claimed for
\* mirrors that one process at a time has written and of which no reset broke
\* off between two tables: that leaves the old cursor over emptied tables.
CursorCovers == ~disturbed => Facts(mirror.cursor) \subseteq mirror.feed

\* A signed audit row appears only in a step in which the mirror holds
\* exactly the export the row names, even when another process wrote between
\* the comparison and the commit (_mark_authenticated_export_complete).
SignedMatchesMirror ==
  [][\A e \in Exports : audits'[e] \notin {audits[e], NoAudit} => Reconciles(e)]_vars

\* What a consumer reads under an authenticated handle is an export of D1 as
\* a whole: no half-applied page, no row a later run added or removed
\* (open_authenticated_applied_mirror).
HandleExact == handle # None => Reconciles(handle)

\* Signing a row never takes the generation that consumers trust back to an
\* older source cursor, also when a slower run of an older export is signed
\* after a newer one, or is signed before it and stored after it: only a lost
\* row or a new key can
\* (_latest_export_sync_row skips rows that go back).
SigningNeverRollsBack ==
  [][key' = key /\ (\A e \in Exports : Signed(e) => Signed(e)')
     => Latest'.seq >= Latest.seq]_vars
=============================================================================
