-------------------------- MODULE ReadyPublication --------------------------
(***************************************************************************)
(* Publication of an immutable research snapshot out of the mutable        *)
(* staging database, and the readers that resolve the latest one:          *)
(*                                                                         *)
(*   paper_runtime/snapshot.py             _snapshot_candidate_engine      *)
(*   paper_runtime/snapshot_publish_policy.py   the gate                   *)
(*   pit/ready_evidence.py                 the staging rows                *)
(*   paper_runtime/snapshot_read.py        describe / list / latest        *)
(*                                                                         *)
(* A publisher is a process that makes one attempt after another.  Its     *)
(* attempt is a build with a fresh uuid; the uuid is part of the hashed    *)
(* manifest, so a build is also the identity of its snapshot and of its    *)
(* four files: artifact, manifest, readiness sidecar, publication marker.  *)
(* Staging is one number, the generation: the applied change sequence and  *)
(* the dataset watermarks of the data that is in it.  Other processes      *)
(* advance it at any time; nothing in the engine holds a lock on it.       *)
(***************************************************************************)
EXTENDS Integers, FiniteSetsExt, TLC

CONSTANTS
    Publishers,     \* processes that run the engine on one staging database
    Readers,        \* processes that call latest_ready_snapshot
    MaxBuild,       \* bound: attempts
    MaxGeneration,  \* bound: generations the ingestion brings to staging
    Failing         \* the builds whose file and staging writes may raise

ASSUME PublicationAssumption ==
    /\ MaxBuild \in Nat \ {0}
    /\ MaxGeneration \in Nat \ {0}
    /\ Failing \subseteq 1 .. MaxBuild

Builds == 1 .. MaxBuild
NoBuild == 0

VARIABLES
    generation,  \* the generation staging holds
    active,      \* local_snapshot_active_snapshot_id
    rows,        \* snapshot_publications: state of each build
    started,     \* number of builds begun
    made,        \* what each build froze: its manifest and its copy
    artifact, manifest, sidecar, marker,   \* the builds whose file exists
    pointer,     \* the build latest-ready.json names
    expired,     \* the builds whose attestation has expired
    pub,         \* publishers: program counter and build
    reader,      \* readers: program counter and what they have read
    unclean      \* builds whose signed sidecar an ended attempt leaves behind

staging == <<generation, active, rows, started>>
files == <<artifact, manifest, sidecar, marker, pointer, expired>>
vars == <<generation, active, rows, started, made, artifact, manifest,
          sidecar, marker, pointer, expired, pub, reader, unclean>>

RowStates == {"NONE", "BUILDING", "SYNCED", "VALIDATING", "READY", "REJECTED"}

\* The steps an attempt goes through, in the order of the engine.
Steps == {"building", "synced", "gate", "watermarks", "copy", "place",
          "manifest", "ready", "attest", "pointer", "marker"}

\* The steps of its exception handler, in order.
Cleanup == {"refuse", "unmark", "unpoint", "unsign", "quarantine",
            "reject"}

-----------------------------------------------------------------------------
(* The publisher.                                                          *)

Idle == [pc |-> "idle", build |-> NoBuild]

Nothing == [seq |-> 0, marks |-> 0, copied |-> 0, at |-> 0]

\* What an attempt held in memory and in no file is gone when it ends.
Forget(b) ==
    made' = IF b \in artifact \cup manifest THEN made
            ELSE [made EXCEPT ![b] = Nothing]

\* p, at step from, goes on to step to.
Goes(p, from, to) ==
    /\ pub[p].pc = from
    /\ pub' = [pub EXCEPT ![p] = IF to = "idle" THEN Idle ELSE [@ EXCEPT !.pc = to]]

\* persist_building_publication: policy and row in one transaction.
Begin(p) ==
    /\ pub[p].pc = "idle"
    /\ started < MaxBuild
    /\ started' = started + 1
    /\ active' = NoBuild
    /\ rows' = [rows EXCEPT ![started + 1] = "BUILDING"]
    /\ pub' = [pub EXCEPT ![p] = [pc |-> "building", build |-> started + 1]]
    /\ UNCHANGED <<generation, made, files, reader, unclean>>

\* SYNCED, then VALIDATING.  _transition_policy overwrites the singleton policy
\* whoever owns it; the build's row follows in a transaction of its own that
\* touches nothing another process reads, and is taken with it.
Progress(p) ==
    /\ \/ /\ Goes(p, "building", "synced")
          /\ rows' = [rows EXCEPT ![pub[p].build] = "SYNCED"]
       \/ /\ Goes(p, "synced", "gate")
          /\ rows' = [rows EXCEPT ![pub[p].build] = "VALIDATING"]
    /\ active' = NoBuild
    /\ UNCHANGED <<generation, started, made, files, reader, unclean>>

\* publication_gate: evidence read from staging.  It passes with the applied
\* generation of that moment, or fails on any coverage, quality or sync
\* evidence (the data decides: either outcome).
Gate(p) ==
    /\ \/ /\ Goes(p, "gate", "watermarks")
          /\ generation > 0
          /\ made' = [made EXCEPT ![pub[p].build].seq = generation]
       \/ Goes(p, "gate", "refuse") /\ UNCHANGED made
    /\ UNCHANGED <<staging, files, reader, unclean>>

\* _watermarks_for: read again, after the gate.
Watermarks(p) ==
    /\ \/ /\ Goes(p, "watermarks", "copy")
          /\ made' = [made EXCEPT ![pub[p].build].marks = generation]
       \/ Goes(p, "watermarks", "refuse") /\ UNCHANGED made
    /\ UNCHANGED <<staging, files, reader, unclean>>

\* The gate's evidence is read back (any of it may be malformed) and
\* committed_at taken, later than every earlier commit; then backup_sqlite
\* into a temporary file: what staging holds now, not what the gate saw.  The
\* manifest is embedded and the copy checked.  All of it is private to the
\* attempt, and any of it may raise.
Copy(p) ==
    /\ \/ /\ Goes(p, "copy", "place")
          /\ made' = [made EXCEPT
                ![pub[p].build].at =
                   1 + Max({made[b].at : b \in Builds}),
                ![pub[p].build].copied = generation]
       \/ Goes(p, "copy", "reject") /\ UNCHANGED made
    /\ UNCHANGED <<staging, files, reader, unclean>>

\* A file operation, or a write of the staging rows, raises.
Fault(p) == pub[p].build \in Failing

HandlerAtUnsigned(step) == "quarantine"

\* The exception handler entered from each step: it undoes only what that
\* attempt had set out to do.
HandlerAt(step) ==
    CASE step = "marker" -> "unmark"
      [] step = "pointer" -> "unpoint"
      [] OTHER -> "quarantine"

\* os.replace of the read-only copy onto its content-addressed name.
Place(p) ==
    /\ \/ /\ Goes(p, "place", "manifest")
          /\ artifact' = artifact \cup {pub[p].build}
       \/ Goes(p, "place", "reject") /\ Fault(p) /\ UNCHANGED artifact
    /\ UNCHANGED <<staging, made, manifest, sidecar, marker, pointer, expired,
                   reader, unclean>>

\* _atomic_json: written; or it raises, before or after the file was there.
WriteManifest(p) ==
    /\ \/ /\ Goes(p, "manifest", "ready")
          /\ manifest' = manifest \cup {pub[p].build}
       \/ /\ Goes(p, "manifest", HandlerAt("manifest"))
          /\ Fault(p)
          /\ manifest' \in {manifest, manifest \cup {pub[p].build}}
    /\ UNCHANGED <<staging, made, artifact, sidecar, marker, pointer, expired,
                   reader, unclean>>

\* persist_ready_on_staging: row and policy in one transaction.  The staging
\* policy is pointed at this snapshot whatever another build has done.
PersistReady(p) ==
    /\ Goes(p, "ready", "attest")
    /\ rows' = [rows EXCEPT ![pub[p].build] = "READY"]
    /\ active' = pub[p].build
    /\ UNCHANGED <<generation, started, made, files, reader, unclean>>

\* The READY authority signs the snapshot, or does not (external); a sidecar
\* that is there but does not bind its id is refused afterwards.  A builder
\* that raises has returned no path: if its sidecar was there already, no
\* handler knows of it.
Attest(p) ==
    /\ \/ /\ Goes(p, "attest", "pointer") \/ Goes(p, "attest", "unsign")
          /\ sidecar' = sidecar \cup {pub[p].build} /\ UNCHANGED unclean
       \/ /\ Goes(p, "attest", HandlerAt("attest"))
          /\ \/ UNCHANGED <<sidecar, unclean>>
             \/ /\ sidecar' = sidecar \cup {pub[p].build}
                /\ unclean' = unclean \cup {pub[p].build}
    /\ UNCHANGED <<staging, made, artifact, manifest, marker, pointer, expired,
                   reader>>

\* latest-ready.json replaced by one that names this snapshot.
WritePointer(p) ==
    /\ \/ Goes(p, "pointer", "marker") /\ pointer' = pub[p].build
       \/ /\ Goes(p, "pointer", HandlerAt("pointer"))
          /\ Fault(p)
          /\ pointer' \in {pointer, pub[p].build}
    /\ UNCHANGED <<staging, made, artifact, manifest, sidecar, marker, expired,
                   reader, unclean>>

\* The publication marker, last: the attempt returns its snapshot.
WriteMarker(p) ==
    /\ \/ /\ Goes(p, "marker", "idle")
          /\ marker' = marker \cup {pub[p].build}
       \/ /\ Goes(p, "marker", HandlerAt("marker"))
          /\ Fault(p)
          /\ marker' \in {marker, marker \cup {pub[p].build}}
    /\ UNCHANGED <<staging, made, artifact, manifest, sidecar, pointer, expired,
                   reader, unclean>>

-----------------------------------------------------------------------------
(* The exception handlers of the attempt.                                  *)

\* The gate's own handler: the row, then the policy, as in Progress; it raises
\* on, into the outer handler.
Refuse(p) ==
    /\ Goes(p, "refuse", "reject")
    /\ rows' = [rows EXCEPT ![pub[p].build] = "REJECTED"]
    /\ active' = NoBuild
    /\ UNCHANGED <<generation, started, made, files, reader, unclean>>

\* Discovery documents first: the marker, then the pointer, whichever
\* snapshot it names by now.  An OSError of either is passed over.
Unmark(p) ==
    /\ Goes(p, "unmark", "unpoint")
    /\ \/ marker' = marker \ {pub[p].build}
       \/ Fault(p) /\ UNCHANGED marker
    /\ UNCHANGED <<staging, made, artifact, manifest, sidecar, pointer, expired,
                   reader, unclean>>

Unpoint(p) ==
    /\ Goes(p, "unpoint", "unsign")
    /\ \/ pointer' = NoBuild
       \/ Fault(p) /\ UNCHANGED pointer
    /\ UNCHANGED <<staging, made, artifact, manifest, sidecar, marker, expired,
                   reader, unclean>>

\* The signed sidecar; a failure is surfaced in the error the caller gets.
Unsign(p) ==
    /\ Goes(p, "unsign", "quarantine")
    /\ \/ sidecar' = sidecar \ {pub[p].build} /\ UNCHANGED unclean
       \/ Fault(p) /\ unclean' = unclean \cup {pub[p].build} /\ UNCHANGED sidecar
    /\ UNCHANGED <<staging, made, artifact, manifest, marker, pointer, expired,
                   reader>>

\* Artifact, then manifest, moved under rejected/<build_id>; the first
\* OSError ends it.
Quarantine(p) ==
    /\ Goes(p, "quarantine", "reject")
    /\ \/ /\ artifact' = artifact \ {pub[p].build}
          /\ manifest' = manifest \ {pub[p].build}
       \/ Fault(p) /\ artifact' = artifact \ {pub[p].build} /\ UNCHANGED manifest
       \/ Fault(p) /\ UNCHANGED <<artifact, manifest>>
    /\ UNCHANGED <<staging, made, sidecar, marker, pointer, expired, reader,
                   unclean>>

RejectedRowsFailed(p) ==
    /\ rows' = [rows EXCEPT ![pub[p].build] = "FAILED"]
    /\ active' = NoBuild

\* The rows a rejection leaves: the build's, and the singleton policy.
RejectedRows(p) ==
    /\ rows' = [rows EXCEPT ![pub[p].build] = "REJECTED"]
    /\ active' = NoBuild

StagingFailsUnheard(p) ==
    /\ Goes(p, "ready", "attest")
    /\ Fault(p)
    /\ UNCHANGED <<staging, made, files, reader, unclean>>

\* A write of the staging rows raises sqlite3.Error: rolled back.
StagingFails(p) ==
    /\ \/ /\ pub[p].pc \in {"building", "synced", "refuse"}
          /\ pub' = [pub EXCEPT ![p].pc = "reject"]
       \/ Goes(p, "ready", HandlerAt("ready"))
    /\ Fault(p)
    /\ UNCHANGED <<staging, made, files, reader, unclean>>

\* reject_publication_after_failure: both rows in one transaction; a failure
\* of it is swallowed.
Reject(p) ==
    /\ Goes(p, "reject", "idle")
    /\ \/ RejectedRows(p)
       \/ Fault(p) /\ UNCHANGED <<active, rows>>
    /\ Forget(pub[p].build)
    /\ UNCHANGED <<generation, started, files, reader, unclean>>

\* The process dies between any two steps; nothing runs on its behalf.
Crash(p) ==
    /\ pub[p].pc # "idle"
    /\ pub' = [pub EXCEPT ![p] = Idle]
    /\ Forget(pub[p].build)
    /\ UNCHANGED <<staging, files, reader, unclean>>

-----------------------------------------------------------------------------
(* Readers.                                                                *)

\* _data_snapshot_id_from_open_connection: the copy's watermarks are those
\* the manifest names.
WatermarksAgree(b) == made[b].copied = made[b].marks

\* verify_pinned_pilot_snapshot_attestation: signed and not yet expired.
Attested(b) == b \in sidecar /\ b \notin expired

\* _describe_snapshot_for_scope as a whole, for one marker of the listing.
Describable(b) ==
    /\ b \in marker /\ b \in manifest /\ b \in artifact
    /\ WatermarksAgree(b)
    /\ Attested(b)

\* The order of _list_ready_snapshots_for_scope: generation, then commit time.
Newer(b, c) ==
    \/ made[b].seq > made[c].seq
    \/ made[b].seq = made[c].seq /\ made[b].at > made[c].at

IsListed(b, candidates) == b \in candidates

\* candidates[0] is the described snapshot.
IsNewest(b, candidates) ==
    b \in candidates /\ \A c \in candidates : ~Newer(c, b)

NoRead == [pc |-> "idle", build |-> NoBuild, todo |-> {}, listed |-> {},
           before |-> {}]

\* The reader raises: whatever it read is dropped.
Raise(r) == reader' = [reader EXCEPT ![r] = NoRead]

ReaderUnchanged == UNCHANGED <<staging, made, files, pub, unclean>>

\* latest_ready_snapshot: the pointer.
ReadPointer(r) ==
    /\ reader[r].pc = "idle"
    /\ pointer # NoBuild
    /\ reader' = [reader EXCEPT ![r] =
                    [NoRead EXCEPT !.pc = "marker", !.build = pointer,
                                   !.before = marker]]
    /\ ReaderUnchanged

\* _describe_snapshot_for_scope of the snapshot the pointer named: the
\* marker, then the files it binds.
Describe(r) ==
    LET b == reader[r].build
        Reads(at, ok, next) ==
            /\ reader[r].pc = at
            /\ IF ok THEN reader' = [reader EXCEPT ![r].pc = next] ELSE Raise(r)
    IN /\ \/ Reads("marker", b \in marker, "files")
          \/ Reads("files", b \in manifest \cap artifact /\ WatermarksAgree(b)
                            /\ Attested(b), "list")
       /\ ReaderUnchanged

\* _list_ready_snapshots_for_scope: the markers there are, by name.
List(r) ==
    /\ reader[r].pc = "list"
    /\ reader' = [reader EXCEPT ![r].pc = "strict", ![r].todo = marker]
    /\ ReaderUnchanged

\* Strict: one that cannot be described fails the whole listing.
ListOne(r) ==
    /\ reader[r].pc = "strict"
    /\ \E b \in reader[r].todo :
         IF Describable(b)
         THEN reader' = [reader EXCEPT ![r].todo = @ \ {b},
                                       ![r].listed = @ \cup {b}]
         ELSE Raise(r)
    /\ ReaderUnchanged

\* The described snapshot is returned if it heads the list.
Resolve(r) ==
    /\ reader[r].pc = "strict" /\ reader[r].todo = {}
    /\ IF IsNewest(reader[r].build, reader[r].listed)
       THEN reader' = [reader EXCEPT ![r] = [NoRead EXCEPT !.pc = "returned",
                                                           !.build = reader[r].build]]
       ELSE Raise(r)
    /\ ReaderUnchanged

\* The caller has its snapshot and may ask again.
Again(r) ==
    /\ reader[r].pc = "returned"
    /\ Raise(r)
    /\ ReaderUnchanged

-----------------------------------------------------------------------------
(* The environment.                                                        *)

\* Ingestion brings a newer generation; the invalidation triggers on the
\* fact tables clear the staging policy's active snapshot.
Ingest ==
    /\ generation < MaxGeneration
    /\ generation' = generation + 1
    /\ active' = NoBuild
    /\ UNCHANGED <<rows, started, made, files, pub, reader, unclean>>

\* An attestation carries its expiry; only that of a published snapshot is
\* ever looked at.
Expire ==
    /\ \E b \in (sidecar \cap marker) \ expired : expired' = expired \cup {b}
    /\ UNCHANGED <<staging, made, artifact, manifest, sidecar, marker, pointer,
                   pub, reader, unclean>>

Init ==
    /\ generation = 1
    /\ active = NoBuild
    /\ rows = [b \in Builds |-> "NONE"]
    /\ started = 0
    /\ made = [b \in Builds |-> Nothing]
    /\ artifact = {} /\ manifest = {} /\ sidecar = {} /\ marker = {}
    /\ pointer = NoBuild
    /\ expired = {}
    /\ pub = [p \in Publishers |-> Idle]
    /\ reader = [r \in Readers |-> NoRead]
    /\ unclean = {}

Publisher(p) ==
    \/ Begin(p) \/ Progress(p) \/ Gate(p) \/ Watermarks(p)
    \/ Copy(p) \/ Place(p) \/ WriteManifest(p) \/ PersistReady(p) \/ Attest(p)
    \/ WritePointer(p) \/ WriteMarker(p)
    \/ Refuse(p) \/ Unmark(p) \/ Unpoint(p) \/ Unsign(p) \/ Quarantine(p)
    \/ StagingFails(p) \/ Reject(p) \/ Crash(p)

Reader(r) ==
    \/ ReadPointer(r) \/ Describe(r) \/ List(r) \/ ListOne(r) \/ Resolve(r)
    \/ Again(r)

Next ==
    \/ \E p \in Publishers : Publisher(p)
    \/ \E r \in Readers : Reader(r)
    \/ Ingest \/ Expire

Spec == Init /\ [][Next]_vars

-----------------------------------------------------------------------------
TypeOK ==
    /\ generation \in 0 .. MaxGeneration
    /\ active \in 0 .. MaxBuild
    /\ rows \in [Builds -> RowStates]
    /\ started \in 0 .. MaxBuild
    /\ made \in [Builds -> [seq : 0 .. MaxGeneration, marks : 0 .. MaxGeneration,
                            copied : 0 .. MaxGeneration, at : 0 .. MaxBuild]]
    /\ artifact \subseteq Builds /\ manifest \subseteq Builds
    /\ sidecar \subseteq Builds /\ marker \subseteq Builds
    /\ pointer \in 0 .. MaxBuild
    /\ expired \subseteq Builds
    /\ pub \in [Publishers -> [pc : {"idle"} \cup Steps \cup Cleanup,
                               build : 0 .. MaxBuild]]
    /\ reader \in [Readers ->
          [pc : {"idle", "marker", "files", "list", "strict", "returned"},
           build : 0 .. MaxBuild, todo : SUBSET Builds, listed : SUBSET Builds,
           before : SUBSET Builds]]
    /\ unclean \subseteq Builds

\* Whatever order publishers, crashes and failures take, a snapshot that
\* latest_ready_snapshot returns was committed READY in staging, and is READY
\* still unless the attempt that published it met a failing write (the reader
\* may have seen its marker before the handler took it away).  Its copy holds
\* the generation of its watermarks although staging may have moved between
\* the two, and is never older than the change_seq readers order it by: that
\* one is read at the gate and may be behind the copy, never ahead of it.
ReturnedPublished ==
    \A r \in Readers : reader[r].pc = "returned" =>
        LET b == reader[r].build
        IN /\ rows[b] = "READY" \/ (b \in Failing /\ rows[b] = "REJECTED")
           /\ made[b].copied = made[b].marks
           /\ made[b].seq <= made[b].copied

\* A reader never returns a snapshot older, by its manifest's change_seq and
\* commit time, than one that was already published when it began and is still
\* published when it returns, although the pointer it followed may be
\* overwritten by a slower publisher.
ReturnedNewest ==
    [][\A r \in Readers :
         reader[r].pc # "returned" /\ reader'[r].pc = "returned" =>
            \A b \in reader[r].before \cap marker : ~Newer(b, reader[r].build)]_vars

\* READY means READY in staging, in whatever order publishers, failures and
\* ingestion write: a signed sidecar exists only for a build whose row is
\* READY (the signature follows the commit and is withdrawn before the row is
\* rejected; excepted are a sidecar the handler failed to remove, which it
\* reports, and one whose builder raised after writing it), and so is the
\* snapshot that the singleton policy row calls active.
ReadyAgrees ==
    /\ \A b \in sidecar \ unclean : rows[b] = "READY"
    /\ active # NoBuild => rows[active] = "READY"

=============================================================================
