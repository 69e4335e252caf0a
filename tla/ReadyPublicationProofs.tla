------------------------ MODULE ReadyPublicationProofs ------------------------
(***************************************************************************)
(* READY publication for any number of publishers, readers, builds and     *)
(* generations, and any builds that fail.                                  *)
(***************************************************************************)
EXTENDS ReadyPublication, FiniteSumsProofs

\* The steps of an attempt before its copy of staging, before its row is READY,
\* and those at which the row is.
BeforeCopy == {"building", "synced", "gate", "watermarks", "copy"}
Early == {"building", "synced", "gate", "watermarks", "copy", "place", "manifest", "ready",
          "refuse"}
Late == {"attest", "pointer", "marker", "unmark", "unpoint", "unsign"}

\* One attempt per build: a build is new when an attempt takes it, and belongs to
\* that attempt alone.
OwnsBuild ==
  /\ \A p \in Publishers :
       IF pub[p].pc = "idle" THEN pub[p].build = NoBuild ELSE pub[p].build \in 1 .. started
  /\ \A p, q \in Publishers : pub[p].build = pub[q].build /\ pub[p].build # NoBuild => p = q
  /\ sidecar \subseteq 1 .. started
  /\ marker \subseteq 1 .. started
  /\ \A r \in Readers : reader[r].before \subseteq 1 .. started

\* The builds whose attempt has made its copy, or never will.
Done == {b \in 1 .. started :
           \A p \in Publishers : pub[p].build = b => pub[p].pc \notin BeforeCopy}

\* Commit times count the copies.
CopiesCounted == \A b \in Builds : made[b].at <= Cardinality(Done)

\* The steps between the reading of the watermarks and the end of the attempt, and
\* those of the handler that takes a publication back.
AfterMarks == {"copy", "place", "manifest", "ready", "attest", "pointer", "marker"}
Withdrawing == {"unmark", "unpoint", "unsign", "quarantine", "reject"}

\* The generation the manifest is ordered by was read before the watermarks were.
Ordered(b) == made[b].seq <= made[b].marks

\* A build with a marker is READY and its attempt is over, or a write of it failed
\* and the handler takes it back.
Published(b) ==
  /\ rows[b] = "READY" \/ (b \in Failing /\ rows[b] = "REJECTED")
  /\ Ordered(b)
  /\ \A p \in Publishers : pub[p].build = b => b \in Failing /\ pub[p].pc \in Withdrawing

-----------------------------------------------------------------------------
(* The largest number of a finite set.                                     *)

LEMMA MaxIs ==
  ASSUME NEW n \in Nat, NEW T \in SUBSET (0 .. n), T # {}
  PROVE  Max(T) \in T /\ \A x \in T : x <= Max(T)
<1> DEFINE U == {k \in Nat : \A x \in T : x <= k}
<1>1. n \in U
  OBVIOUS
<1>2. U \in SUBSET Nat /\ U # {}
  BY <1>1
<1> HIDE DEF U
<1>3. PICK m \in U : \A k \in U : m <= k
  BY <1>2, LeastNatural
<1>4. m \in Nat /\ \A x \in T : x \in Nat /\ x <= m
  BY <1>2 DEF U
<1>5. m \in T
  <2> SUFFICES ASSUME m \notin T PROVE FALSE
    OBVIOUS
  <2>1. \A x \in T : x <= m - 1
    BY <1>4
  <2>2. PICK y \in T : TRUE
    OBVIOUS
  <2>3. m - 1 \in Nat
    BY <1>4, <2>1, <2>2
  <2>4. m - 1 \in U
    BY <2>1, <2>3 DEF U
  <2> QED BY <1>3, <1>4, <2>4
<1>6. m \in T /\ \A x \in T : m >= x
  BY <1>4, <1>5
<1>7. /\ Max(T) \in T
      /\ \A x \in T : Max(T) >= x
  BY <1>6 DEF Max
<1> QED BY <1>4, <1>7

-----------------------------------------------------------------------------
(* The types, and who owns a build.                                        *)

PubPcs == {"idle"} \cup Steps \cup Cleanup

TypeInv == TypeOK /\ OwnsBuild /\ CopiesCounted

LEMMA Constants == MaxBuild \in Nat /\ MaxBuild > 0 /\ MaxGeneration \in Nat /\ NoBuild = 0
                   /\ Builds = 1 .. MaxBuild
BY PublicationAssumption DEF NoBuild, Builds

\* p goes to a step and stays with its build, or is through with it.
Moved(p, to) ==
  /\ \A q \in Publishers : q # p => pub'[q] = pub[q]
  /\ pub'[p].pc = to
  /\ pub'[p].build = IF to = "idle" THEN NoBuild ELSE pub[p].build
  /\ pub' \in [Publishers -> [pc : PubPcs, build : 0 .. MaxBuild]]

LEMMA GoesTo ==
  ASSUME TypeOK, NEW p \in Publishers, NEW from, NEW to \in PubPcs, Goes(p, from, to)
  PROVE  pub[p].pc = from /\ Moved(p, to)
<1>1. pub \in [Publishers -> [pc : PubPcs, build : 0 .. MaxBuild]]
  BY DEF TypeOK, PubPcs
<1>2. CASE to = "idle"
  <2>1. Idle.pc = "idle" /\ Idle.build = NoBuild /\ Idle \in [pc : PubPcs, build : 0 .. MaxBuild]
    BY Constants DEF Idle, PubPcs
  <2>2. pub' = [pub EXCEPT ![p] = Idle]
    BY <1>2 DEF Goes
  <2> QED BY <1>1, <1>2, <2>1, <2>2 DEF Goes, Moved
<1>3. CASE to # "idle"
  <2>1. pub' = [pub EXCEPT ![p] = [pub[p] EXCEPT !.pc = to]]
    BY <1>3 DEF Goes
  <2>2. /\ [pub[p] EXCEPT !.pc = to].pc = to
        /\ [pub[p] EXCEPT !.pc = to].build = pub[p].build
        /\ [pub[p] EXCEPT !.pc = to] \in [pc : PubPcs, build : 0 .. MaxBuild]
    BY <1>1
  <2> QED BY <1>1, <1>3, <2>1, <2>2 DEF Goes, Moved
<1> QED BY <1>2, <1>3

\* The steps that may follow a step.  Begin aside, no attempt comes back to an
\* earlier part of the engine.
LEMMA Flow ==
  ASSUME TypeOK, NEW p \in Publishers, Publisher(p), ~Begin(p)
  PROVE  \E to \in PubPcs :
            /\ Moved(p, to)
            /\ pub[p].pc # "idle"
            /\ to \in BeforeCopy => pub[p].pc \in BeforeCopy
            /\ to \in Early => pub[p].pc \in Early
            /\ to \in Late => pub[p].pc \in Late \/ PersistReady(p)
            /\ to \in Steps => pub[p].pc \in Steps
            /\ to \in Late \ {"attest"} => pub[p].pc \in Late
            /\ to \in {"attest", "quarantine", "reject"} =>
                 \/ pub[p].pc \in Early \cup {"attest", "quarantine"}
                 \/ Unsign(p)
<1> USE DEF BeforeCopy, Early, Late, Steps, PubPcs, Cleanup
<1>1. CASE Progress(p)
  BY <1>1, GoesTo DEF Progress
<1>2. CASE Gate(p) \/ Watermarks(p) \/ Copy(p)
  BY <1>2, GoesTo DEF Gate, Watermarks, Copy
<1>3. CASE Place(p) \/ WriteManifest(p)
  BY <1>3, GoesTo DEF Place, WriteManifest, HandlerAt
<1>4. CASE PersistReady(p)
  <2>1. pub[p].pc = "ready" /\ Moved(p, "attest")
    BY <1>4, GoesTo DEF PersistReady
  <2> QED BY <1>4, <2>1
<1>5. CASE Attest(p) \/ WritePointer(p) \/ WriteMarker(p)
  BY <1>5, GoesTo DEF Attest, WritePointer, WriteMarker, HandlerAt
<1>6. CASE Refuse(p) \/ Unmark(p) \/ Unpoint(p)
  BY <1>6, GoesTo DEF Refuse, Unmark, Unpoint
<1>7. CASE Unsign(p)
  <2>1. pub[p].pc = "unsign" /\ Moved(p, "quarantine")
    BY <1>7, GoesTo DEF Unsign
  <2> QED BY <1>7, <2>1
<1>8. CASE Quarantine(p) \/ Reject(p)
  BY <1>8, GoesTo DEF Quarantine, Reject
<1>9. CASE StagingFails(p)
  <2>1. CASE Goes(p, "ready", HandlerAt("ready"))
    BY <2>1, GoesTo DEF HandlerAt
  <2>2. CASE /\ pub[p].pc \in {"building", "synced", "refuse"}
             /\ pub' = [pub EXCEPT ![p].pc = "reject"]
    <3>1. Goes(p, pub[p].pc, "reject")
      BY <2>2 DEF Goes
    <3>2. Moved(p, "reject")
      BY <3>1, GoesTo
    <3> QED BY <2>2, <3>2
  <2> QED BY <1>9, <2>1, <2>2 DEF StagingFails
<1>10. CASE Crash(p)
  <2>1. Goes(p, pub[p].pc, "idle")
    BY <1>10 DEF Crash, Goes
  <2>2. Moved(p, "idle")
    BY <2>1, GoesTo
  <2> QED BY <1>10, <2>2 DEF Crash
<1> QED BY <1>1, <1>2, <1>3, <1>4, <1>5, <1>6, <1>7, <1>8, <1>9, <1>10 DEF Publisher

\* An attempt that runs has a build that no other attempt has.
LEMMA HasBuild ==
  ASSUME TypeInv, NEW p \in Publishers, pub[p].pc # "idle"
  PROVE  /\ pub[p].build \in Builds /\ pub[p].build \in 1 .. started
         /\ pub[p].build # NoBuild
         /\ \A q \in Publishers : q # p => pub[q].build # pub[p].build
<1>1. pub[p].build \in 1 .. started /\ started \in 0 .. MaxBuild
  BY DEF TypeInv, OwnsBuild, TypeOK
<1>2. pub[p].build \in Builds /\ pub[p].build # NoBuild
  BY <1>1, Constants
<1> QED BY <1>1, <1>2 DEF TypeInv, OwnsBuild

LEMMA RunningFlow ==
  ASSUME NEW p \in Publishers, TypeOK, Publisher(p), ~Begin(p)
  PROVE  pub[p].pc # "idle"
BY Flow

Made == [seq : 0 .. MaxGeneration, marks : 0 .. MaxGeneration,
         copied : 0 .. MaxGeneration, at : 0 .. MaxBuild]

LEMMA ForgetIs ==
  ASSUME TypeOK, NEW c \in Builds, Forget(c)
  PROVE  /\ made' \in [Builds -> Made]
         /\ \A b \in Builds : made'[b] = made[b] \/ made'[b] = Nothing
<1>1. made \in [Builds -> Made]
  BY DEF TypeOK, Made
<1>2. Nothing \in Made
  BY Constants DEF Nothing, Made
<1> QED BY <1>1, <1>2 DEF Forget

\* The commit time of a copy is a new largest one.
LEMMA CopyTime ==
  ASSUME TypeInv, NEW p \in Publishers, Copy(p)
  PROVE  LET t == 1 + Max({made[b].at : b \in Builds})
         IN  t \in 0 .. MaxBuild /\ t <= Cardinality(Done) + 1
<1> DEFINE T == {made[b].at : b \in Builds}
<1>1. T \in SUBSET (0 .. MaxBuild) /\ T # {}
  BY Constants DEF TypeInv, TypeOK
<1>2. Max(T) \in T
  BY <1>1, Constants, MaxIs
<1>3. PICK b \in Builds : Max(T) = made[b].at
  BY <1>2
<1>4. pub[p].pc = "copy"
  BY DEF Copy, Goes
<1>5. started \in Nat /\ started <= MaxBuild
  BY Constants DEF TypeInv, TypeOK
<1>6. IsFiniteSet(1 .. started) /\ Cardinality(1 .. started) = started
  BY <1>5, FS_Interval
<1> DEFINE b0 == pub[p].build
<1>7. b0 \in 1 .. started /\ b0 \notin Done
  BY <1>4, HasBuild DEF Done, BeforeCopy
<1>8. Done \subseteq (1 .. started) \ {b0}
  BY <1>7 DEF Done
<1>9. /\ IsFiniteSet((1 .. started) \ {b0})
      /\ Cardinality((1 .. started) \ {b0}) = started - 1
  BY <1>6, <1>7, FS_RemoveElement
<1>10. Cardinality(Done) <= started - 1
  <2> DEFINE W == (1 .. started) \ {b0}
  <2>1. Done \in SUBSET W /\ IsFiniteSet(W) /\ Cardinality(W) = started - 1
    BY <1>8, <1>9
  <2> HIDE DEF W
  <2>2. Cardinality(Done) <= Cardinality(W)
    BY <2>1, FS_Subset
  <2> QED BY <2>1, <2>2
<1>11. Cardinality(Done) \in Nat
  BY <1>8, <1>9, FS_Subset, FS_CardinalityType
<1>12. made[b].at <= Cardinality(Done) /\ made[b].at \in 0 .. MaxBuild
  BY DEF TypeInv, CopiesCounted, TypeOK
<1> HIDE DEF T
<1>13. 1 + Max(T) \in 0 .. MaxBuild /\ 1 + Max(T) <= Cardinality(Done) + 1
  BY <1>3, <1>5, <1>10, <1>11, <1>12, Constants
<1> QED BY <1>13 DEF T

LEMMA MadeType ==
  ASSUME TypeInv, NEW p \in Publishers, Publisher(p)
  PROVE  made' \in [Builds -> Made]
<1>1. made \in [Builds -> Made] /\ generation \in 0 .. MaxGeneration
  BY DEF TypeInv, TypeOK, Made
<1>2. CASE Gate(p)
  BY <1>1, <1>2 DEF Gate, Made
<1>3. CASE Watermarks(p)
  BY <1>1, <1>3 DEF Watermarks, Made
<1>4. CASE Copy(p)
  <2> DEFINE t == 1 + Max({made[b].at : b \in Builds})
  <2>1. t \in 0 .. MaxBuild
    BY <1>4, CopyTime
  <2>2. \/ made' = [made EXCEPT ![pub[p].build].at = t, ![pub[p].build].copied = generation]
        \/ made' = made
    BY <1>4 DEF Copy
  <2> HIDE DEF t
  <2> QED BY <1>1, <2>1, <2>2 DEF Made
<1>5. CASE Reject(p) \/ Crash(p)
  <2>1. pub[p].pc # "idle"
    BY <1>5 DEF Reject, Goes, Crash
  <2>2. pub[p].build \in Builds
    BY <2>1, HasBuild
  <2> QED BY <1>5, <2>2, ForgetIs DEF Reject, Crash, TypeInv
<1>6. CASE made' = made
  BY <1>1, <1>6
<1> QED BY <1>2, <1>3, <1>4, <1>5, <1>6 DEF Publisher, Begin, Progress, Place, WriteManifest,
     PersistReady, Attest, WritePointer, WriteMarker, Refuse, Unmark, Unpoint, Unsign,
     Quarantine, StagingFails

LEMMA BeginIs ==
  ASSUME TypeInv, NEW p \in Publishers, Begin(p)
  PROVE  /\ pub' \in [Publishers -> [pc : PubPcs, build : 0 .. MaxBuild]]
         /\ \A q \in Publishers : q # p => pub'[q] = pub[q]
         /\ pub'[p].pc = "building" /\ pub'[p].build = started + 1
         /\ pub[p].pc = "idle"
         /\ started + 1 \in Builds /\ started' = started + 1 /\ started \in Nat
         /\ UNCHANGED <<generation, made, files, reader, unclean>>
         /\ active' = NoBuild
         /\ rows' = [rows EXCEPT ![started + 1] = "BUILDING"]
<1>1. pub \in [Publishers -> [pc : PubPcs, build : 0 .. MaxBuild]] /\ started \in 0 .. MaxBuild
  BY DEF TypeInv, TypeOK, PubPcs
<1>2. started + 1 \in Builds /\ started + 1 \in 0 .. MaxBuild /\ started \in Nat
  BY <1>1, Constants DEF Begin
<1> DEFINE new == [pc |-> "building", build |-> started + 1]
<1>3. /\ new \in [pc : PubPcs, build : 0 .. MaxBuild]
      /\ new.pc = "building" /\ new.build = started + 1
  BY <1>2 DEF PubPcs, Steps
<1>4. pub' = [pub EXCEPT ![p] = new]
  BY DEF Begin
<1> HIDE DEF new
<1> QED BY <1>1, <1>2, <1>3, <1>4 DEF Begin

LEMMA StagingType ==
  ASSUME TypeInv, NEW p \in Publishers, Publisher(p)
  PROVE  /\ generation' \in 0 .. MaxGeneration
         /\ active' \in 0 .. MaxBuild
         /\ rows' \in [Builds -> RowStates]
         /\ started' \in 0 .. MaxBuild
<1>1. /\ generation \in 0 .. MaxGeneration /\ active \in 0 .. MaxBuild
      /\ rows \in [Builds -> RowStates] /\ started \in 0 .. MaxBuild
  BY DEF TypeInv, TypeOK
<1>2. CASE Begin(p)
  BY <1>1, <1>2, BeginIs, Constants DEF RowStates
<1>3. CASE Progress(p) \/ PersistReady(p) \/ Refuse(p) \/ Reject(p)
  <2>1. pub[p].pc # "idle"
    BY <1>3 DEF Progress, PersistReady, Refuse, Reject, Goes
  <2>2. pub[p].build \in Builds /\ pub[p].build \in 0 .. MaxBuild
    BY <2>1, HasBuild, Constants
  <2> QED BY <1>1, <1>3, <2>2, Constants
        DEF Progress, PersistReady, Refuse, Reject, RejectedRows, RowStates
<1>4. CASE UNCHANGED staging
  BY <1>1, <1>4 DEF staging
<1> QED BY <1>2, <1>3, <1>4 DEF Publisher, Gate, Watermarks, Copy, Place, WriteManifest,
     Attest, WritePointer, WriteMarker, Unmark, Unpoint, Unsign, Quarantine, StagingFails, Crash

\* What a publisher does to the files: it adds or removes those of its own build.
LEMMA FilesMove ==
  ASSUME TypeInv, NEW p \in Publishers, Publisher(p)
  PROVE  /\ artifact' \subseteq artifact \cup {pub[p].build}
         /\ manifest' \subseteq manifest \cup {pub[p].build}
         /\ sidecar' \subseteq sidecar \cup {pub[p].build}
         /\ marker' \subseteq marker \cup {pub[p].build}
         /\ unclean' \subseteq unclean \cup {pub[p].build}
         /\ pointer' \in {pointer, pub[p].build, NoBuild}
         /\ UNCHANGED <<expired, reader>>
BY DEF Publisher, Begin, Progress, Gate, Watermarks, Copy, Place, WriteManifest, PersistReady,
       Attest, WritePointer, WriteMarker, Refuse, Unmark, Unpoint, Unsign, Quarantine,
       StagingFails, Reject, Crash, files

LEMMA PublisherType ==
  ASSUME TypeInv, NEW p \in Publishers, Publisher(p)
  PROVE  TypeOK'
<1>1. /\ artifact \subseteq Builds /\ manifest \subseteq Builds
      /\ sidecar \subseteq Builds /\ marker \subseteq Builds
      /\ pointer \in 0 .. MaxBuild /\ expired \subseteq Builds /\ unclean \subseteq Builds
      /\ reader \in [Readers ->
            [pc : {"idle", "marker", "files", "list", "strict", "returned"},
             build : 0 .. MaxBuild, todo : SUBSET Builds, listed : SUBSET Builds,
             before : SUBSET Builds]]
  BY DEF TypeInv, TypeOK
<1>2. /\ artifact' \subseteq Builds /\ manifest' \subseteq Builds
      /\ sidecar' \subseteq Builds /\ marker' \subseteq Builds
      /\ pointer' \in 0 .. MaxBuild /\ unclean' \subseteq Builds
  <2>1. CASE Begin(p)
    BY <1>1, <2>1 DEF Begin, files
  <2>2. CASE ~Begin(p)
    <3>1. pub[p].build \in Builds /\ pub[p].build \in 0 .. MaxBuild /\ NoBuild \in 0 .. MaxBuild
      BY <2>2, RunningFlow, HasBuild, Constants DEF TypeInv
    <3> QED BY <1>1, <3>1, FilesMove
  <2> QED BY <2>1, <2>2
<1>3. pub' \in [Publishers -> [pc : PubPcs, build : 0 .. MaxBuild]]
  BY BeginIs, Flow DEF Moved, TypeInv
<1>4. expired' = expired /\ reader' = reader
  BY FilesMove
<1> QED BY <1>1, <1>2, <1>3, <1>4, MadeType, StagingType DEF TypeOK, Made, PubPcs

LEMMA ReaderType ==
  ASSUME TypeInv, NEW r \in Readers, Reader(r)
  PROVE  /\ ReaderUnchanged
         /\ \A s \in Readers : s # r => reader'[s] = reader[s]
         /\ reader' \in [Readers ->
              [pc : {"idle", "marker", "files", "list", "strict", "returned"},
               build : 0 .. MaxBuild, todo : SUBSET Builds, listed : SUBSET Builds,
               before : SUBSET Builds]]
<1> DEFINE R == [pc : {"idle", "marker", "files", "list", "strict", "returned"},
                 build : 0 .. MaxBuild, todo : SUBSET Builds, listed : SUBSET Builds,
                 before : SUBSET Builds]
<1>1. reader \in [Readers -> R] /\ reader[r] \in R /\ marker \subseteq Builds
      /\ pointer \in 0 .. MaxBuild
  BY DEF TypeInv, TypeOK
<1>2. ReaderUnchanged
  BY DEF Reader, ReadPointer, Describe, List, ListOne, Resolve, Again
<1>3. PICK v \in R : reader' = [reader EXCEPT ![r] = v]
  <2>0. NoRead \in R
    BY Constants DEF NoRead
  <2>1. CASE Raise(r)
    BY <2>0, <2>1 DEF Raise
  <2>2. CASE ReadPointer(r)
    <3>1. [NoRead EXCEPT !.pc = "marker", !.build = pointer, !.before = marker] \in R
      BY <1>1, <2>0
    <3> QED BY <2>2, <3>1 DEF ReadPointer
  <2>3. CASE Describe(r)
    <3>1. \/ Raise(r)
          \/ \E n \in {"files", "list"} : reader' = [reader EXCEPT ![r].pc = n]
      BY <2>3 DEF Describe
    <3> QED BY <1>1, <2>1, <3>1
  <2>4. CASE List(r)
    <3>1. [reader[r] EXCEPT !.pc = "strict", !.todo = marker] \in R
      BY <1>1
    <3>2. reader' = [reader EXCEPT ![r] = [reader[r] EXCEPT !.pc = "strict", !.todo = marker]]
      BY <1>1, <2>4 DEF List
    <3> QED BY <3>1, <3>2
  <2>5. CASE ListOne(r)
    <3>1. PICK b \in reader[r].todo :
             \/ Raise(r)
             \/ reader' = [reader EXCEPT ![r].todo = @ \ {b}, ![r].listed = @ \cup {b}]
      BY <2>5 DEF ListOne
    <3>2. [reader[r] EXCEPT !.todo = @ \ {b}, !.listed = @ \cup {b}] \in R
      BY <1>1
    <3>3. reader' = [reader EXCEPT ![r].todo = @ \ {b}, ![r].listed = @ \cup {b}] =>
          reader' = [reader EXCEPT ![r] =
                       [reader[r] EXCEPT !.todo = @ \ {b}, !.listed = @ \cup {b}]]
      BY <1>1
    <3> QED BY <2>1, <3>1, <3>2, <3>3
  <2>6. CASE Resolve(r)
    <3>1. [NoRead EXCEPT !.pc = "returned", !.build = reader[r].build] \in R
      BY <1>1, <2>0
    <3> QED BY <2>1, <2>6, <3>1 DEF Resolve
  <2> QED BY <2>1, <2>2, <2>3, <2>4, <2>5, <2>6 DEF Reader, Again
<1> QED BY <1>1, <1>2, <1>3

LEMMA PublisherOwns ==
  ASSUME TypeInv, NEW p \in Publishers, Publisher(p)
  PROVE  OwnsBuild'
<1>1. /\ started \in Nat /\ sidecar \subseteq 1 .. started /\ marker \subseteq 1 .. started
      /\ \A r \in Readers : reader[r].before \subseteq 1 .. started
      /\ \A q \in Publishers :
           IF pub[q].pc = "idle" THEN pub[q].build = NoBuild ELSE pub[q].build \in 1 .. started
      /\ \A q, s \in Publishers : pub[q].build = pub[s].build /\ pub[q].build # NoBuild => q = s
  BY Constants DEF TypeInv, TypeOK, OwnsBuild
<1>2. CASE Begin(p)
  <2>1. UNCHANGED <<sidecar, marker, reader>> /\ started' = started + 1
        /\ 1 .. started \subseteq 1 .. (started + 1)
    BY <1>1, <1>2 DEF Begin, files
  <2>2. /\ \A q \in Publishers : q # p => pub'[q] = pub[q]
        /\ pub'[p].pc = "building" /\ pub'[p].build = started + 1
        /\ started + 1 \notin 1 .. started /\ started + 1 # NoBuild
        /\ started + 1 \in 1 .. (started + 1)
    BY <1>1, <1>2, BeginIs, Constants
  <2>3. \A q \in Publishers : q # p => pub'[q].build # started + 1
    BY <1>1, <2>2
  <2>4. \A q \in Publishers :
          IF pub'[q].pc = "idle" THEN pub'[q].build = NoBuild
          ELSE pub'[q].build \in 1 .. (started + 1)
    BY <1>1, <2>1, <2>2
  <2>5. \A q, s \in Publishers :
          pub'[q].build = pub'[s].build /\ pub'[q].build # NoBuild => q = s
    BY <1>1, <2>2, <2>3
  <2> QED BY <1>1, <2>1, <2>4, <2>5 DEF OwnsBuild
<1>3. CASE ~Begin(p)
  <2>1. PICK to \in PubPcs : Moved(p, to) /\ pub[p].pc # "idle"
    BY <1>3, Flow DEF TypeInv
  <2>2. started' = started /\ reader' = reader
    BY <1>3, FilesMove DEF Publisher, Progress, Gate, Watermarks, Copy, Place, WriteManifest,
       PersistReady, Attest, WritePointer, WriteMarker, Refuse, Unmark, Unpoint, Unsign,
       Quarantine, StagingFails, Reject, Crash, staging
  <2>3. sidecar' \subseteq 1 .. started /\ marker' \subseteq 1 .. started
    BY <1>1, <2>1, FilesMove
  <2>4. \A q \in Publishers :
          IF pub'[q].pc = "idle" THEN pub'[q].build = NoBuild
          ELSE pub'[q].build \in 1 .. started
    BY <1>1, <2>1 DEF Moved
  <2>5. \A q \in Publishers : pub'[q].build \in {pub[q].build, NoBuild}
    BY <2>1 DEF Moved
  <2>6. \A q, s \in Publishers :
          pub'[q].build = pub'[s].build /\ pub'[q].build # NoBuild => q = s
    BY <1>1, <2>5
  <2> QED BY <1>1, <2>2, <2>3, <2>4, <2>6 DEF OwnsBuild
<1> QED BY <1>2, <1>3

\* Attempts only leave the part before the copy.
LEMMA DoneGrows ==
  ASSUME TypeInv, NEW p \in Publishers, Publisher(p)
  PROVE  /\ Done \subseteq Done'
         /\ IsFiniteSet(Done') /\ Cardinality(Done) \in Nat
         /\ Cardinality(Done') \in Nat /\ Cardinality(Done) <= Cardinality(Done')
<1>1. Done \subseteq Done'
  <2>1. CASE Begin(p)
    <3>1. started' = started + 1 /\ started \in Nat /\ pub'[p].build = started + 1
          /\ \A q \in Publishers : q # p => pub'[q] = pub[q]
      BY <2>1, BeginIs
    <3>2. \A b \in 1 .. started : b \in 1 .. (started + 1) /\ b # started + 1
      BY <3>1
    <3> QED BY <3>1, <3>2 DEF Done
  <2>2. CASE ~Begin(p)
    <3>1. PICK to \in PubPcs : /\ Moved(p, to)
                               /\ to \in BeforeCopy => pub[p].pc \in BeforeCopy
      BY <2>2, Flow DEF TypeInv
    <3>2. started' = started
      BY <2>2 DEF Publisher, Progress, Gate, Watermarks, Copy, Place, WriteManifest,
         PersistReady, Attest, WritePointer, WriteMarker, Refuse, Unmark, Unpoint, Unsign,
         Quarantine, StagingFails, Reject, Crash, staging
    <3>3. \A b \in 1 .. started : b # NoBuild
      BY Constants
    <3> SUFFICES ASSUME NEW b \in Done PROVE b \in Done'
      OBVIOUS
    <3>4. /\ b \in 1 .. started
          /\ \A q \in Publishers : pub[q].build = b => pub[q].pc \notin BeforeCopy
      BY DEF Done
    <3>5. ASSUME NEW q \in Publishers, pub'[q].build = b PROVE pub'[q].pc \notin BeforeCopy
      BY <3>1, <3>3, <3>4, <3>5 DEF Moved
    <3> QED BY <3>2, <3>4, <3>5 DEF Done
  <2> QED BY <2>1, <2>2
<1>2. started' \in 0 .. MaxBuild
  BY StagingType
<1>3. IsFiniteSet(1 .. started')
  BY <1>2, FS_Interval, Constants
<1>4. Done' \in SUBSET (1 .. started')
  BY DEF Done
<1>5. IsFiniteSet(Done')
  BY <1>3, <1>4, FS_Subset
<1>6. IsFiniteSet(Done) /\ Cardinality(Done) <= Cardinality(Done')
  BY <1>1, <1>5, FS_Subset
<1> QED BY <1>1, <1>5, <1>6, FS_CardinalityType

\* Only a copy takes a commit time.
LEMMA TimesKept ==
  ASSUME TypeInv, NEW p \in Publishers, Publisher(p), ~Copy(p)
  PROVE  \A b \in Builds : made'[b].at <= made[b].at
<1>1. made \in [Builds -> Made] /\ \A b \in Builds : made[b].at \in 0 .. MaxBuild
  BY DEF TypeInv, TypeOK, Made
<1>2. CASE Gate(p) \/ Watermarks(p)
  <2>1. \A b \in Builds : made'[b].at = made[b].at
    BY <1>1, <1>2 DEF Gate, Watermarks, Made
  <2> QED BY <1>1, <2>1
<1>3. CASE Reject(p) \/ Crash(p)
  <2>1. pub[p].build \in Builds
    BY <1>3, HasBuild DEF Reject, Goes, Crash
  <2>2. \A b \in Builds : made'[b] = made[b] \/ made'[b] = Nothing
    BY <1>3, <2>1, ForgetIs DEF Reject, Crash, TypeInv
  <2>3. Nothing.at = 0
    BY DEF Nothing
  <2> QED BY <1>1, <2>2, <2>3, Constants
<1>4. CASE made' = made
  BY <1>1, <1>4
<1> QED BY <1>2, <1>3, <1>4 DEF Publisher, Begin, Progress, Place, WriteManifest,
     PersistReady, Attest, WritePointer, WriteMarker, Refuse, Unmark, Unpoint, Unsign,
     Quarantine, StagingFails

LEMMA PublisherCounts ==
  ASSUME TypeInv, NEW p \in Publishers, Publisher(p)
  PROVE  CopiesCounted'
<1>1. \A b \in Builds : made[b].at \in 0 .. MaxBuild /\ made[b].at <= Cardinality(Done)
  BY DEF TypeInv, TypeOK, CopiesCounted
<1>2. \A b \in Builds : made'[b].at \in 0 .. MaxBuild
  BY MadeType DEF Made
<1> DEFINE n == Cardinality(Done)
           m == Cardinality(Done')
<1>3. n \in Nat /\ m \in Nat /\ n <= m
  BY DoneGrows
<1>4. CASE ~Copy(p)
  <2>1. \A b \in Builds : made'[b].at <= made[b].at
    BY <1>4, TimesKept
  <2> HIDE DEF n, m
  <2>2. \A b \in Builds : made'[b].at <= m
    BY <1>1, <1>2, <1>3, <2>1, Constants DEF n
  <2> QED BY <2>2 DEF CopiesCounted, m
<1>5. CASE Copy(p)
  <2> DEFINE t == 1 + Max({made[b].at : b \in Builds})
             c == pub[p].build
  <2>1. t \in 0 .. MaxBuild /\ t <= n + 1
    BY <1>5, CopyTime
  <2>2. c \in 1 .. started /\ c \notin Done /\ pub[p].pc = "copy"
    BY <1>5, HasBuild DEF Copy, Goes, Done, BeforeCopy
  <2>3. \E to \in PubPcs \ BeforeCopy : Moved(p, to)
    BY <1>5, GoesTo DEF Copy, BeforeCopy, PubPcs, Steps, Cleanup, TypeInv
  <2>4. started' = started
    BY <1>5 DEF Copy, staging
  <2>5. c \in Done'
    <3>1. \A q \in Publishers : q # p => pub[q].build # c
      BY <2>2, HasBuild
    <3> QED BY <2>2, <2>3, <2>4, <3>1 DEF Done, Moved
  <2>6. n + 1 <= m
    <3>1. Done \in SUBSET (Done' \ {c}) /\ IsFiniteSet(Done')
      BY <2>2, DoneGrows
    <3>2. IsFiniteSet(Done' \ {c}) /\ Cardinality(Done' \ {c}) = m - 1
      BY <2>5, <3>1, FS_RemoveElement
    <3> DEFINE W == Done' \ {c}
    <3>3. Done \in SUBSET W /\ IsFiniteSet(W) /\ Cardinality(W) = m - 1
      BY <3>1, <3>2
    <3> HIDE DEF W
    <3>4. n <= Cardinality(W)
      BY <3>3, FS_Subset
    <3> QED BY <1>3, <3>3, <3>4
  <2>7. \/ made' = [made EXCEPT ![c].at = t, ![c].copied = generation]
        \/ made' = made
    BY <1>5 DEF Copy
  <2> HIDE DEF t, n, m
  <2>8. \A b \in Builds : made'[b].at = made[b].at \/ made'[b].at = t
    <3>1. made \in [Builds -> Made]
      BY DEF TypeInv, TypeOK, Made
    <3> QED BY <2>7, <3>1 DEF Made
  <2>9. \A b \in Builds : made'[b].at <= m
    BY <1>1, <1>2, <1>3, <2>1, <2>6, <2>8, Constants DEF n
  <2> QED BY <2>9 DEF CopiesCounted, m
<1> QED BY <1>4, <1>5

LEMMA TypeInit == Init => TypeInv
<1> SUFFICES ASSUME Init PROVE TypeInv
  OBVIOUS
<1> USE Constants
<1>1. NoRead \in [pc : {"idle", "marker", "files", "list", "strict", "returned"},
                  build : 0 .. MaxBuild, todo : SUBSET Builds, listed : SUBSET Builds,
                  before : SUBSET Builds]
      /\ NoRead.before = {}
  BY DEF NoRead
<1>2. Nothing \in Made /\ Nothing.at = 0
  BY DEF Nothing, Made
<1>3. Idle \in [pc : PubPcs, build : 0 .. MaxBuild] /\ Idle.pc = "idle" /\ Idle.build = NoBuild
  BY DEF Idle, PubPcs
<1>4. TypeOK
  <2>1. generation \in 0 .. MaxGeneration /\ active \in 0 .. MaxBuild
        /\ started \in 0 .. MaxBuild /\ pointer \in 0 .. MaxBuild
    <3>1. MaxGeneration \in Nat \ {0}
      BY PublicationAssumption
    <3> QED BY <3>1 DEF Init
  <2>2. rows \in [Builds -> RowStates] /\ made \in [Builds -> Made]
    BY <1>2 DEF Init, RowStates
  <2>3. pub \in [Publishers -> [pc : PubPcs, build : 0 .. MaxBuild]]
    BY <1>3 DEF Init
  <2> QED BY <1>1, <2>1, <2>2, <2>3 DEF Init, TypeOK, PubPcs, Made
<1>5. OwnsBuild
  BY <1>1, <1>3 DEF Init, OwnsBuild
<1>6. CopiesCounted
  <2>1. Done = {}
    BY DEF Init, Done
  <2>2. Cardinality(Done) = 0
    BY <2>1, FS_EmptySet
  <2> QED BY <1>2, <2>2 DEF Init, CopiesCounted
<1> QED BY <1>4, <1>5, <1>6 DEF TypeInv

\* The environment and the readers leave the attempts alone.
LEMMA TypeMoves ==
  ASSUME TypeInv, UNCHANGED <<pub, started, made>>, TypeOK',
         sidecar' = sidecar, marker' = marker,
         \A r \in Readers : reader'[r].before \subseteq 1 .. started
  PROVE  TypeInv'
<1>1. Done' = Done
  BY DEF Done
<1> QED BY <1>1 DEF TypeInv, OwnsBuild, CopiesCounted

LEMMA TypeNext == TypeInv /\ [Next]_vars => TypeInv'
<1> SUFFICES ASSUME TypeInv, [Next]_vars PROVE TypeInv'
  OBVIOUS
<1>1. ASSUME NEW p \in Publishers, Publisher(p) PROVE TypeInv'
  BY <1>1, PublisherType, PublisherOwns, PublisherCounts DEF TypeInv
<1>2. ASSUME NEW r \in Readers, Reader(r) PROVE TypeInv'
  <2>1. /\ UNCHANGED <<staging, made, files, pub, unclean>>
        /\ \A s \in Readers : s # r => reader'[s] = reader[s]
    BY <1>2, ReaderType DEF ReaderUnchanged
  <2>2. TypeOK'
    BY <1>2, <2>1, ReaderType DEF TypeInv, TypeOK, staging, files
  <2>3. reader'[r].before \in {reader[r].before, marker, {}}
    <3>1. reader \in [Readers ->
             [pc : {"idle", "marker", "files", "list", "strict", "returned"},
              build : 0 .. MaxBuild, todo : SUBSET Builds, listed : SUBSET Builds,
              before : SUBSET Builds]]
      BY DEF TypeInv, TypeOK
    <3>2. NoRead.before = {} /\ NoRead \in
             [pc : {"idle", "marker", "files", "list", "strict", "returned"},
              build : 0 .. MaxBuild, todo : SUBSET Builds, listed : SUBSET Builds,
              before : SUBSET Builds]
      BY Constants DEF NoRead
    <3>3. CASE ReadPointer(r)
      BY <3>1, <3>2, <3>3 DEF ReadPointer
    <3>4. CASE Raise(r)
      BY <3>1, <3>2, <3>4 DEF Raise
    <3>5. CASE Resolve(r) /\ ~Raise(r)
      <4> DEFINE v == [NoRead EXCEPT !.pc = "returned", !.build = reader[r].build]
      <4>1. v.before = {}
        BY <3>2
      <4>2. reader' = [reader EXCEPT ![r] = v]
        BY <3>5 DEF Resolve
      <4> HIDE DEF v
      <4> QED BY <3>1, <4>1, <4>2
    <3>6. CASE (Describe(r) \/ List(r) \/ ListOne(r)) /\ ~Raise(r)
      BY <3>1, <3>6 DEF Describe, List, ListOne
    <3> QED BY <1>2, <3>3, <3>4, <3>5, <3>6 DEF Reader, Again
  <2>4. \A s \in Readers : reader'[s].before \subseteq 1 .. started
    BY <2>1, <2>3 DEF TypeInv, OwnsBuild
  <2> QED BY <2>1, <2>2, <2>4, TypeMoves DEF staging, files
<1>3. CASE Ingest \/ Expire \/ UNCHANGED vars
  <2>1. TypeOK'
    <3>1. CASE Ingest
      <4>1. generation' \in 0 .. MaxGeneration /\ active' \in 0 .. MaxBuild
        BY <3>1, Constants DEF Ingest, TypeInv, TypeOK
      <4>2. UNCHANGED <<rows, started, made, artifact, manifest, sidecar, marker, pointer,
                        expired, pub, reader, unclean>>
        BY <3>1 DEF Ingest, files
      <4> QED BY <4>1, <4>2 DEF TypeInv, TypeOK
    <3>2. CASE Expire
      BY <3>2 DEF Expire, staging, TypeInv, TypeOK
    <3>3. CASE UNCHANGED vars
      BY <3>3 DEF vars, TypeInv, TypeOK
    <3> QED BY <1>3, <3>1, <3>2, <3>3
  <2>2. UNCHANGED <<pub, started, made, sidecar, marker, reader>>
    BY <1>3 DEF Ingest, Expire, vars, files, staging
  <2> QED BY <2>1, <2>2, TypeMoves DEF TypeInv, OwnsBuild
<1> QED BY <1>1, <1>2, <1>3 DEF Next

\* TypeOK for every number of builds: no attempt outruns the number of builds, and
\* the commit times count the copies that were made.
THEOREM PublicationTypeOK == Spec => []TypeOK
<1>1. TypeInv => TypeOK
  BY DEF TypeInv
<1> QED BY <1>1, TypeInit, TypeNext, PTL DEF Spec

-----------------------------------------------------------------------------
(* READY means READY in staging.                                           *)

\* The inductive invariant of ReadyAgrees: from the commit of the READY row to the
\* withdrawal of the signature the row is READY, and before and after that the
\* build is not signed.
ReadyInv ==
  /\ ReadyAgrees
  /\ \A p \in Publishers : pub[p].pc \in Late => rows[pub[p].build] = "READY"
  /\ \A p \in Publishers : pub[p].pc \in Early \cup {"attest", "quarantine", "reject"} =>
       pub[p].build \notin sidecar \ unclean

\* The steps that leave the staging rows and the signatures alone.
Quiet(p) ==
  \/ Gate(p) \/ Watermarks(p) \/ Copy(p) \/ Place(p) \/ WriteManifest(p)
  \/ WritePointer(p) \/ WriteMarker(p) \/ Unmark(p) \/ Unpoint(p) \/ Quarantine(p)
  \/ StagingFails(p) \/ Crash(p)

LEMMA QuietKeeps ==
  ASSUME NEW p, Quiet(p)
  PROVE  UNCHANGED <<rows, active, sidecar, unclean, started>>
BY DEF Quiet, Gate, Watermarks, Copy, Place, WriteManifest, WritePointer, WriteMarker,
       Unmark, Unpoint, Quarantine, StagingFails, Crash, staging, files

\* None of them enters or leaves the span in which the row is READY and signed.
LEMMA QuietFlow ==
  ASSUME TypeOK, NEW p \in Publishers, Quiet(p)
  PROVE  \E to \in PubPcs :
            /\ Moved(p, to)
            /\ pub[p].pc # "idle"
            /\ to \in Late => pub[p].pc \in Late
            /\ to \in Early \cup {"attest", "quarantine", "reject"} =>
                 pub[p].pc \in Early \cup {"attest", "quarantine"}
<1> USE DEF Early, Late, Steps, PubPcs, Cleanup
<1>1. CASE Gate(p) \/ Watermarks(p) \/ Copy(p) \/ Place(p) \/ WriteManifest(p)
  BY <1>1, GoesTo DEF Gate, Watermarks, Copy, Place, WriteManifest, HandlerAt
<1>2. CASE WritePointer(p) \/ WriteMarker(p) \/ Unmark(p) \/ Unpoint(p) \/ Quarantine(p)
  BY <1>2, GoesTo DEF WritePointer, WriteMarker, Unmark, Unpoint, Quarantine, HandlerAt
<1>3. CASE StagingFails(p)
  <2>1. CASE Goes(p, "ready", HandlerAt("ready"))
    BY <2>1, GoesTo DEF HandlerAt
  <2>2. CASE /\ pub[p].pc \in {"building", "synced", "refuse"}
             /\ pub' = [pub EXCEPT ![p].pc = "reject"]
    <3>1. Goes(p, pub[p].pc, "reject")
      BY <2>2 DEF Goes
    <3>2. Moved(p, "reject")
      BY <2>2, <3>1, GoesTo
    <3> QED BY <2>2, <3>2
  <2> QED BY <1>3, <2>1, <2>2 DEF StagingFails
<1>4. CASE Crash(p)
  <2>1. pub[p].pc # "idle" /\ pub[p].pc \in PubPcs
    BY <1>4 DEF Crash, TypeOK
  <2>2. Goes(p, pub[p].pc, "idle")
    BY <1>4 DEF Goes, Crash
  <2>3. Moved(p, "idle")
    BY <2>1, <2>2, GoesTo
  <2> QED BY <2>1, <2>3
<1> QED BY <1>1, <1>2, <1>3, <1>4 DEF Quiet

\* It is enough to look at the build of the attempt that moves.
LEMMA OwnBuildReady ==
  ASSUME TypeInv, ReadyInv, NEW p \in Publishers, pub[p].pc # "idle",
         NEW to \in PubPcs, Moved(p, to),
         \A c \in Builds : c # pub[p].build =>
            /\ rows'[c] = rows[c]
            /\ c \in sidecar' \ unclean' <=> c \in sidecar \ unclean,
         pub[p].build \in sidecar' \ unclean' => rows'[pub[p].build] = "READY",
         to \in Late => rows'[pub[p].build] = "READY",
         to \in Early \cup {"attest", "quarantine", "reject"} =>
            pub[p].build \notin sidecar' \ unclean',
         active' # NoBuild => rows'[active'] = "READY",
         sidecar' \subseteq Builds
  PROVE  ReadyInv'
<1> DEFINE b == pub[p].build
<1>1. b \in Builds /\ b # NoBuild /\ \A q \in Publishers : q # p => pub[q].build # b
  BY HasBuild
<1>2. \A q \in Publishers : pub[q].pc # "idle" => pub[q].build \in Builds
  BY HasBuild
<1>3. ReadyAgrees'
  BY <1>1 DEF ReadyInv, ReadyAgrees
<1>4. ASSUME NEW q \in Publishers, pub'[q].pc \in Late
      PROVE  rows'[pub'[q].build] = "READY"
  <2>1. CASE q = p
    BY <1>4, <2>1 DEF Moved, Late
  <2>2. CASE q # p
    BY <1>1, <1>2, <1>4, <2>2 DEF Moved, Late, ReadyInv
  <2> QED BY <2>1, <2>2
<1>5. ASSUME NEW q \in Publishers, pub'[q].pc \in Early \cup {"attest", "quarantine", "reject"}
      PROVE  pub'[q].build \notin sidecar' \ unclean'
  <2>1. CASE q = p
    BY <1>5, <2>1 DEF Moved, Early
  <2>2. CASE q # p
    BY <1>1, <1>2, <1>5, <2>2 DEF Moved, Early, ReadyInv
  <2> QED BY <2>1, <2>2
<1> QED BY <1>3, <1>4, <1>5 DEF ReadyInv

LEMMA PublisherReady ==
  ASSUME TypeInv, ReadyInv, NEW p \in Publishers, Publisher(p)
  PROVE  ReadyInv'
<1> DEFINE b == pub[p].build
<1>0. rows \in [Builds -> RowStates] /\ sidecar' \subseteq Builds
  BY PublisherType DEF TypeInv, TypeOK
<1>1. CASE Begin(p)
  <2>1. /\ \A q \in Publishers : q # p => pub'[q] = pub[q]
        /\ pub'[p].pc = "building" /\ pub'[p].build = started + 1
        /\ UNCHANGED <<sidecar, unclean>> /\ active' = NoBuild
        /\ rows' = [rows EXCEPT ![started + 1] = "BUILDING"]
        /\ started + 1 \in Builds
    BY <1>1, BeginIs DEF files
  <2>2. started + 1 \notin 1 .. started /\ started \in Nat
    BY <1>1, BeginIs
  <2>3. \A c \in 1 .. started : c \in Builds /\ rows'[c] = rows[c]
    <3>1. started \in 0 .. MaxBuild
      BY DEF TypeInv, TypeOK
    <3> QED BY <1>0, <2>1, <2>2, <3>1, Constants
  <2>4. sidecar \subseteq 1 .. started
        /\ \A q \in Publishers : pub[q].pc # "idle" => pub[q].build \in 1 .. started
    BY DEF TypeInv, OwnsBuild
  <2>5. ReadyAgrees'
    BY <2>1, <2>3, <2>4 DEF ReadyInv, ReadyAgrees
  <2>6. \A q \in Publishers : pub'[q].pc \in Late => rows'[pub'[q].build] = "READY"
    BY <2>1, <2>3, <2>4 DEF ReadyInv, Late
  <2>7. \A q \in Publishers : pub'[q].pc \in Early \cup {"attest", "quarantine", "reject"} =>
           pub'[q].build \notin sidecar' \ unclean'
    BY <2>1, <2>2, <2>4 DEF ReadyInv, Early
  <2> QED BY <2>5, <2>6, <2>7 DEF ReadyInv
<1>2. CASE ~Begin(p)
  <2>1. PICK to \in PubPcs :
            /\ Moved(p, to)
            /\ pub[p].pc # "idle"
            /\ to \in Early => pub[p].pc \in Early
            /\ to \in Late => pub[p].pc \in Late \/ PersistReady(p)
            /\ to \in {"attest", "quarantine", "reject"} =>
                 \/ pub[p].pc \in Early \cup {"attest", "quarantine"}
                 \/ Unsign(p)
    BY <1>2, Flow DEF TypeInv
  <2>2. b \in Builds /\ b # NoBuild
    BY <2>1, HasBuild
  <2>3. pub[p].pc \in Late => rows[b] = "READY"
    BY DEF ReadyInv
  <2>4. pub[p].pc \in Early \cup {"attest", "quarantine", "reject"} => b \notin sidecar \ unclean
    BY DEF ReadyInv
  <2>5. /\ \A c \in sidecar \ unclean : rows[c] = "READY"
        /\ active # NoBuild => rows[active] = "READY"
    BY DEF ReadyInv, ReadyAgrees
  <2>6. CASE Quiet(p)
    <3>1. UNCHANGED <<rows, active, sidecar, unclean>>
      BY <2>6, QuietKeeps
    <3>2. PICK next \in PubPcs :
            /\ Moved(p, next)
            /\ next \in Late => pub[p].pc \in Late
            /\ next \in Early \cup {"attest", "quarantine", "reject"} =>
                 pub[p].pc \in Early \cup {"attest", "quarantine"}
      BY <2>6, QuietFlow DEF TypeInv
    <3> QED BY <1>0, <2>1, <2>3, <2>4, <2>5, <3>1, <3>2, OwnBuildReady
  <2>7. CASE Progress(p) \/ Refuse(p) \/ (Reject(p) /\ RejectedRows(p))
    <3>1. /\ pub[p].pc \in {"building", "synced", "refuse", "reject"}
          /\ active' = NoBuild /\ UNCHANGED <<sidecar, unclean>>
          /\ \E v : rows' = [rows EXCEPT ![b] = v]
      BY <2>7 DEF Progress, Refuse, Reject, RejectedRows, Goes, files
    <3>2. \A c \in Builds : c # b => rows'[c] = rows[c]
      BY <1>0, <3>1
    <3>3. to \notin Late
      BY <2>1, <2>7, <3>1 DEF Late, PersistReady, Goes
    <3>4. b \notin sidecar \ unclean
      BY <2>4, <3>1 DEF Early
    <3> QED BY <1>0, <2>1, <3>1, <3>2, <3>3, <3>4, OwnBuildReady
  <2>8. CASE Reject(p) /\ ~RejectedRows(p)
    <3>1. UNCHANGED <<rows, active, sidecar, unclean>> /\ pub[p].pc = "reject"
      BY <2>8 DEF Reject, Goes, files
    <3>2. ~PersistReady(p) /\ ~Unsign(p)
      BY <3>1 DEF PersistReady, Unsign, Goes
    <3> QED BY <1>0, <2>1, <2>3, <2>4, <2>5, <3>1, <3>2, OwnBuildReady
  <2>9. CASE PersistReady(p)
    <3>1. /\ pub[p].pc = "ready" /\ active' = b /\ UNCHANGED <<sidecar, unclean>>
          /\ rows' = [rows EXCEPT ![b] = "READY"]
      BY <2>9 DEF PersistReady, Goes, files
    <3>2. rows'[b] = "READY" /\ \A c \in Builds : c # b => rows'[c] = rows[c]
      BY <1>0, <2>2, <3>1
    <3>3. b \notin sidecar \ unclean
      BY <2>4, <3>1 DEF Early
    <3> QED BY <1>0, <2>1, <3>1, <3>2, <3>3, OwnBuildReady
  <2>10. CASE Attest(p)
    <3>1. /\ pub[p].pc = "attest" /\ UNCHANGED <<rows, active>>
          /\ \/ sidecar' = sidecar \cup {b} /\ unclean' = unclean /\ Moved(p, "pointer")
             \/ sidecar' = sidecar \cup {b} /\ unclean' = unclean /\ Moved(p, "unsign")
             \/ sidecar' = sidecar /\ unclean' = unclean /\ Moved(p, "quarantine")
             \/ /\ sidecar' = sidecar \cup {b} /\ unclean' = unclean \cup {b}
                /\ Moved(p, "quarantine")
      BY <2>10, GoesTo DEF Attest, Goes, staging, HandlerAt, PubPcs, Steps, Cleanup, TypeInv
    <3>2. rows[b] = "READY" /\ b \notin sidecar \ unclean
      BY <2>3, <2>4, <3>1 DEF Late
    <3>3. to \in Early \cup {"attest", "quarantine", "reject"} => b \notin sidecar' \ unclean'
      BY <2>1, <3>1, <3>2 DEF Moved, Early
    <3> QED BY <1>0, <2>1, <2>5, <3>1, <3>2, <3>3, OwnBuildReady
  <2>11. CASE Unsign(p)
    <3>1. /\ pub[p].pc = "unsign" /\ UNCHANGED <<rows, active>>
          /\ \/ sidecar' = sidecar \ {b} /\ unclean' = unclean
             \/ sidecar' = sidecar /\ unclean' = unclean \cup {b}
      BY <2>11 DEF Unsign, Goes, staging
    <3>2. rows[b] = "READY" /\ b \notin sidecar' \ unclean'
      BY <2>3, <3>1 DEF Late
    <3> QED BY <1>0, <2>1, <2>5, <3>1, <3>2, OwnBuildReady
  <2> QED BY <1>2, <2>6, <2>7, <2>8, <2>9, <2>10, <2>11 DEF Publisher, Quiet
<1> QED BY <1>1, <1>2

LEMMA ReadyNext == TypeInv /\ ReadyInv /\ [Next]_vars => ReadyInv'
<1> SUFFICES ASSUME TypeInv, ReadyInv, [Next]_vars PROVE ReadyInv'
  OBVIOUS
<1>1. ASSUME NEW r \in Readers, Reader(r) PROVE ReadyInv'
  <2>1. UNCHANGED <<rows, active, sidecar, unclean, pub>>
    BY <1>1, ReaderType DEF ReaderUnchanged, staging, files
  <2> QED BY <2>1 DEF ReadyInv, ReadyAgrees
<1>2. CASE Ingest \/ Expire \/ UNCHANGED vars
  <2>1. UNCHANGED <<rows, sidecar, unclean, pub>> /\ active' \in {active, NoBuild}
    BY <1>2 DEF Ingest, Expire, vars, staging, files
  <2> QED BY <2>1 DEF ReadyInv, ReadyAgrees
<1> QED BY <1>1, <1>2, PublisherReady DEF Next

LEMMA ReadyInit == Init => ReadyInv
<1> SUFFICES ASSUME Init PROVE ReadyInv
  OBVIOUS
<1>1. \A p \in Publishers : pub[p].pc = "idle"
  BY DEF Init, Idle
<1> QED BY <1>1 DEF Init, ReadyInv, ReadyAgrees, Late, Early

\* ReadyAgrees for any number of publishers that build, fail, clean up and die in any
\* order: a signature that no failed withdrawal or raising builder left behind, and the snapshot the
\* policy row calls active, belong to builds whose staging row is READY.
THEOREM PublicationReadyAgrees == Spec => []ReadyAgrees
<1>1. Init => TypeInv /\ ReadyInv
  BY TypeInit, ReadyInit
<1>2. (TypeInv /\ ReadyInv) /\ [Next]_vars => (TypeInv /\ ReadyInv)'
  BY TypeNext, ReadyNext
<1>3. ReadyInv => ReadyAgrees
  BY DEF ReadyInv
<1> QED BY <1>1, <1>2, <1>3, PTL DEF Spec

-----------------------------------------------------------------------------
(* What a reader returns was published.                                    *)

\* The generation a build is ordered by was in staging, and before its watermarks.
OrderInv ==
  /\ \A b \in Builds : made[b].seq <= generation
  /\ \A p \in Publishers : pub[p].pc \in AfterMarks => Ordered(pub[p].build)

\* The inductive invariant of ReturnedPublished: a marker stands over a row that is
\* READY, or that a failing attempt rejected, and so does all that a reader who found
\* the marker holds.
ReturnedInv ==
  /\ \A b \in marker : Published(b)
  /\ \A r \in Readers : reader[r].pc \in {"files", "list", "strict", "returned"} =>
       reader[r].build \in 1 .. started /\ Published(reader[r].build)
  /\ \A r \in Readers : reader[r].pc \in {"list", "strict", "returned"} =>
       WatermarksAgree(reader[r].build)

\* The rows an attempt may write to: only its own, and from READY only to REJECTED.
LEMMA RowsMove ==
  ASSUME TypeInv, NEW p \in Publishers, Publisher(p), ~Begin(p), NEW c \in Builds
  PROVE  \/ rows'[c] = rows[c]
         \/ c = pub[p].build /\ (pub[p].pc \in Early \/ rows'[c] = "REJECTED")
<1>0. rows \in [Builds -> RowStates]
  BY DEF TypeInv, TypeOK
<1>1. CASE Quiet(p)
  BY <1>1, QuietKeeps
<1>2. CASE Progress(p) \/ Refuse(p) \/ PersistReady(p)
  <2>1. pub[p].pc \in Early /\ \E v : rows' = [rows EXCEPT ![pub[p].build] = v]
    BY <1>2 DEF Progress, Refuse, PersistReady, Goes, Early
  <2> QED BY <1>0, <2>1
<1>3. CASE Reject(p)
  BY <1>0, <1>3 DEF Reject, RejectedRows
<1>4. CASE Attest(p) \/ Unsign(p)
  BY <1>4 DEF Attest, Unsign, staging
<1> QED BY <1>1, <1>2, <1>3, <1>4 DEF Publisher, Quiet

\* What an attempt froze changes only before its row is READY, or is forgotten.
LEMMA MadeMoves ==
  ASSUME TypeInv, NEW p \in Publishers, Publisher(p), NEW c \in Builds
  PROVE  \/ made'[c] = made[c]
         \/ made'[c] = Nothing
         \/ c = pub[p].build /\ pub[p].pc \in Early
<1>0. made \in [Builds -> Made]
  BY DEF TypeInv, TypeOK, Made
<1>1. CASE Gate(p) \/ Watermarks(p) \/ Copy(p)
  <2>1. pub[p].pc \in Early
    BY <1>1 DEF Gate, Watermarks, Copy, Goes, Early
  <2>2. \A d \in Builds : d # pub[p].build => made'[d] = made[d]
    BY <1>0, <1>1 DEF Gate, Watermarks, Copy, Made
  <2> QED BY <2>1, <2>2
<1>2. CASE Reject(p) \/ Crash(p)
  <2>1. pub[p].build \in Builds
    BY <1>2, HasBuild DEF Reject, Goes, Crash
  <2>2. Forget(pub[p].build)
    BY <1>2 DEF Reject, Crash
  <2> QED BY <2>1, <2>2, ForgetIs DEF TypeInv
<1>3. CASE /\ ~Gate(p) /\ ~Watermarks(p) /\ ~Copy(p) /\ ~Reject(p) /\ ~Crash(p)
  <2>1. made' = made
    BY <1>3 DEF Publisher, Begin, Progress, Place, WriteManifest, PersistReady, Attest,
       WritePointer, WriteMarker, Refuse, Unmark, Unpoint, Unsign, Quarantine, StagingFails
  <2> QED BY <2>1
<1> QED BY <1>1, <1>2, <1>3

\* What the ordering compares moves only at the gate and with the watermarks.
LEMMA OrderMoves ==
  ASSUME TypeInv, NEW p \in Publishers, Publisher(p), NEW c \in Builds
  PROVE  \/ made'[c].seq = made[c].seq /\ made'[c].marks = made[c].marks
         \/ made'[c].seq = 0 /\ made'[c].marks = 0
         \/ c = pub[p].build /\ Gate(p) /\ made'[c].seq = generation
         \/ /\ c = pub[p].build /\ Watermarks(p)
            /\ made'[c].seq = made[c].seq /\ made'[c].marks = generation
<1>0. made \in [Builds -> Made] /\ Nothing.seq = 0 /\ Nothing.marks = 0
  BY DEF TypeInv, TypeOK, Made, Nothing
<1>1. CASE Gate(p)
  BY <1>0, <1>1 DEF Gate, Made
<1>2. CASE Watermarks(p)
  BY <1>0, <1>2 DEF Watermarks, Made
<1>3. CASE Copy(p)
  BY <1>0, <1>3 DEF Copy, Made
<1>4. CASE ~Gate(p) /\ ~Watermarks(p) /\ ~Copy(p)
  <2>1. made'[c] = made[c] \/ made'[c] = Nothing
    <3>1. CASE Reject(p) \/ Crash(p)
      <4>1. pub[p].build \in Builds
        BY <3>1, HasBuild DEF Reject, Goes, Crash
      <4>2. Forget(pub[p].build)
        BY <3>1 DEF Reject, Crash
      <4> QED BY <4>1, <4>2, ForgetIs DEF TypeInv
    <3>2. CASE ~Reject(p) /\ ~Crash(p)
      <4>1. made' = made
        BY <1>4, <3>2 DEF Publisher, Begin, Progress, Place, WriteManifest, PersistReady,
           Attest, WritePointer, WriteMarker, Refuse, Unmark, Unpoint, Unsign, Quarantine,
           StagingFails
      <4> QED BY <4>1
    <3> QED BY <3>1, <3>2
  <2> QED BY <1>0, <2>1
<1> QED BY <1>1, <1>2, <1>3, <1>4

\* An attempt reaches the copy only through the watermarks.
LEMMA MarksFlow ==
  ASSUME TypeOK, NEW p \in Publishers, Publisher(p), ~Begin(p), ~Watermarks(p),
         pub'[p].pc \in AfterMarks
  PROVE  pub[p].pc \in AfterMarks
<1> USE DEF AfterMarks, Steps, PubPcs, Cleanup
<1>1. CASE Progress(p) \/ Gate(p) \/ Copy(p)
  BY <1>1, GoesTo DEF Progress, Gate, Copy, Moved
<1>2. CASE Place(p) \/ WriteManifest(p) \/ PersistReady(p)
  BY <1>2, GoesTo DEF Place, WriteManifest, PersistReady, HandlerAt, Moved
<1>3. CASE Attest(p) \/ WritePointer(p) \/ WriteMarker(p)
  BY <1>3, GoesTo DEF Attest, WritePointer, WriteMarker, HandlerAt, Moved
<1>4. CASE Refuse(p) \/ Unmark(p) \/ Unpoint(p) \/ Unsign(p) \/ Quarantine(p) \/ Reject(p)
  BY <1>4, GoesTo DEF Refuse, Unmark, Unpoint, Unsign, Quarantine, Reject, Moved
<1>5. CASE StagingFails(p)
  <2>1. CASE Goes(p, "ready", HandlerAt("ready"))
    BY <2>1, GoesTo DEF HandlerAt, Moved
  <2>2. CASE pub' = [pub EXCEPT ![p].pc = "reject"]
    <3>1. Goes(p, pub[p].pc, "reject")
      BY <2>2 DEF Goes
    <3> QED BY <3>1, GoesTo DEF Moved
  <2> QED BY <1>5, <2>1, <2>2 DEF StagingFails
<1>6. CASE Crash(p)
  <2>1. Goes(p, pub[p].pc, "idle")
    BY <1>6 DEF Crash, Goes
  <2> QED BY <2>1, GoesTo DEF Moved
<1> QED BY <1>1, <1>2, <1>3, <1>4, <1>5, <1>6 DEF Publisher

LEMMA PublisherOrder ==
  ASSUME TypeInv, OrderInv, NEW p \in Publishers, Publisher(p)
  PROVE  OrderInv'
<1> DEFINE b == pub[p].build
<1>0. /\ generation \in Nat /\ generation' = generation /\ made \in [Builds -> Made]
      /\ \A c \in Builds : made[c].seq \in Nat /\ made[c].marks \in Nat
  <2>1. generation' = generation
    BY DEF Publisher, Begin, Progress, Gate, Watermarks, Copy, Place, WriteManifest,
       PersistReady, Attest, WritePointer, WriteMarker, Refuse, Unmark, Unpoint, Unsign,
       Quarantine, StagingFails, Reject, Crash, staging
  <2> QED BY <2>1, Constants DEF TypeInv, TypeOK, Made
<1>1. \A c \in Builds : made'[c].seq <= generation'
  BY <1>0, OrderMoves DEF OrderInv
<1>2. ASSUME NEW q \in Publishers, pub'[q].pc \in AfterMarks
      PROVE  made'[pub'[q].build].seq <= made'[pub'[q].build].marks
  <2>1. CASE Begin(p)
    <3>1. /\ made' = made /\ pub'[p].pc = "building"
          /\ \A s \in Publishers : s # p => pub'[s] = pub[s]
      BY <2>1, BeginIs
    <3> QED BY <1>2, <3>1 DEF OrderInv, Ordered, AfterMarks
  <2>2. CASE ~Begin(p)
    <3>1. PICK to \in PubPcs : Moved(p, to) /\ pub[p].pc # "idle"
      BY <2>2, Flow DEF TypeInv
    <3>2. b \in Builds /\ \A s \in Publishers : s # p => pub[s].build # b
      BY <3>1, HasBuild
    <3>3. CASE q # p
      <4>1. pub'[q] = pub[q] /\ pub[q].pc # "idle"
        BY <1>2, <3>1, <3>3 DEF Moved, AfterMarks
      <4>2. pub[q].build \in Builds /\ pub[q].build # b
        BY <3>2, <3>3, <4>1, HasBuild
      <4>3. made[pub[q].build].seq <= made[pub[q].build].marks
        BY <1>2, <4>1 DEF OrderInv, Ordered
      <4> QED BY <1>0, <4>1, <4>2, <4>3, OrderMoves
    <3>4. CASE q = p
      <4>1. pub'[p].build = b
        BY <1>2, <3>1, <3>4 DEF Moved, AfterMarks
      <4>2. CASE Watermarks(p)
        <5>1. made'[b].seq = made[b].seq /\ made'[b].marks = generation
          <6>1. CASE Goes(p, "watermarks", "refuse")
            BY <1>2, <3>4, <6>1, GoesTo DEF Moved, AfterMarks, PubPcs, Cleanup, TypeInv
          <6>2. CASE made' = [made EXCEPT ![pub[p].build].marks = generation]
            BY <1>0, <3>2, <6>2 DEF Made
          <6> QED BY <4>2, <6>1, <6>2 DEF Watermarks
        <5> QED BY <1>0, <3>2, <3>4, <4>1, <5>1 DEF OrderInv
      <4>3. CASE ~Watermarks(p)
        <5>1. pub[p].pc \in AfterMarks
          BY <1>2, <2>2, <3>4, <4>3, MarksFlow DEF TypeInv
        <5>2. ~Gate(p)
          BY <5>1 DEF Gate, Goes, AfterMarks
        <5>3. made[b].seq <= made[b].marks
          BY <5>1 DEF OrderInv, Ordered
        <5> QED BY <1>0, <3>2, <3>4, <4>1, <4>3, <5>2, <5>3, OrderMoves
      <4> QED BY <4>2, <4>3
    <3> QED BY <3>3, <3>4
  <2> QED BY <2>1, <2>2
<1> QED BY <1>1, <1>2 DEF OrderInv, Ordered

LEMMA OrderNext == TypeInv /\ OrderInv /\ [Next]_vars => OrderInv'
<1> SUFFICES ASSUME TypeInv, OrderInv, [Next]_vars PROVE OrderInv'
  OBVIOUS
<1>1. ASSUME NEW r \in Readers, Reader(r) PROVE OrderInv'
  <2>1. UNCHANGED <<generation, made, pub>>
    BY <1>1, ReaderType DEF ReaderUnchanged, staging
  <2> QED BY <2>1 DEF OrderInv, Ordered
<1>2. CASE Ingest
  <2>1. generation \in Nat /\ generation' = generation + 1 /\ UNCHANGED <<made, pub>>
        /\ \A b \in Builds : made[b].seq \in Nat
    BY <1>2, Constants DEF Ingest, TypeInv, TypeOK
  <2> QED BY <2>1 DEF OrderInv, Ordered
<1>3. CASE Expire \/ UNCHANGED vars
  <2>1. UNCHANGED <<generation, made, pub>>
    BY <1>3 DEF Expire, vars, staging
  <2> QED BY <2>1 DEF OrderInv, Ordered
<1> QED BY <1>1, <1>2, <1>3, PublisherOrder DEF Next

\* The handler that takes a publication back ends, or goes on doing so.
LEMMA WithdrawFlow ==
  ASSUME TypeOK, NEW p \in Publishers, Publisher(p), pub[p].pc \in Withdrawing
  PROVE  \E to \in Withdrawing \cup {"idle"} : to \in PubPcs /\ Moved(p, to)
<1> USE DEF Withdrawing, PubPcs, Cleanup
<1>1. CASE Unmark(p) \/ Unpoint(p) \/ Unsign(p) \/ Quarantine(p) \/ Reject(p)
  BY <1>1, GoesTo DEF Unmark, Unpoint, Unsign, Quarantine, Reject
<1>2. CASE Crash(p)
  <2>1. Goes(p, pub[p].pc, "idle")
    BY <1>2 DEF Crash, Goes
  <2> QED BY <2>1, GoesTo
<1> QED BY <1>1, <1>2 DEF Publisher, Begin, Progress, Gate, Watermarks, Copy, Place,
       WriteManifest, PersistReady, Attest, WritePointer, WriteMarker, Refuse, StagingFails,
       HandlerAt, Goes

LEMMA KeepsPublished ==
  ASSUME TypeInv, NEW p \in Publishers, Publisher(p), NEW c \in 1 .. started, Published(c)
  PROVE  Published(c)' /\ (WatermarksAgree(c) => WatermarksAgree(c)')
<1>0. /\ c \in Builds /\ c # NoBuild /\ started \in Nat /\ c \in Nat /\ c <= started
      /\ rows \in [Builds -> RowStates]
  BY Constants DEF TypeInv, TypeOK
<1>1. CASE Begin(p)
  <2>1. /\ rows' = [rows EXCEPT ![started + 1] = "BUILDING"] /\ made' = made
        /\ pub'[p].build = started + 1
        /\ \A q \in Publishers : q # p => pub'[q] = pub[q]
    BY <1>1, BeginIs
  <2>2. c # started + 1
    BY <1>0
  <2>3. rows'[c] = rows[c]
    BY <1>0, <2>1, <2>2
  <2>4. \A q \in Publishers : pub'[q].build = c => c \in Failing /\ pub'[q].pc \in Withdrawing
    BY <2>1, <2>2 DEF Published
  <2> QED BY <2>1, <2>3, <2>4 DEF Published, Ordered, WatermarksAgree
<1>2. CASE ~Begin(p)
  <2>1. PICK to \in PubPcs : Moved(p, to) /\ pub[p].pc # "idle"
    BY <1>2, Flow DEF TypeInv
  <2>2. c = pub[p].build => c \in Failing /\ pub[p].pc \in Withdrawing /\ pub[p].pc \notin Early
    BY DEF Published, Withdrawing, Early
  <2>3. rows'[c] = "READY" \/ (c \in Failing /\ rows'[c] = "REJECTED")
    BY <1>0, <1>2, <2>2, RowsMove DEF Published
  <2>4. \A q \in Publishers : pub'[q].build = c => c \in Failing /\ pub'[q].pc \in Withdrawing
    <3>1. CASE c = pub[p].build
      <4>1. PICK next \in Withdrawing \cup {"idle"} : Moved(p, next)
        BY <2>2, <3>1, WithdrawFlow DEF TypeInv
      <4> QED BY <1>0, <2>2, <3>1, <4>1 DEF Moved, Published
    <3>2. CASE c # pub[p].build
      BY <1>0, <2>1, <3>2 DEF Moved, Published
    <3> QED BY <3>1, <3>2
  <2>5. Nothing.copied = Nothing.marks /\ Nothing.seq <= Nothing.marks
    BY DEF Nothing
  <2>6. made'[c] = made[c] \/ made'[c] = Nothing
    BY <1>0, <2>2, MadeMoves
  <2>7. Ordered(c)' /\ (WatermarksAgree(c) => WatermarksAgree(c)')
    BY <2>5, <2>6 DEF WatermarksAgree, Ordered, Published
  <2> QED BY <2>3, <2>4, <2>7 DEF Published
<1> QED BY <1>1, <1>2

\* The last write of an attempt, over a row that is READY.
LEMMA MarkerPublishes ==
  ASSUME TypeInv, ReadyInv, OrderInv, NEW p \in Publishers, WriteMarker(p),
         NEW b, b = pub[p].build
  PROVE  Published(b)'
<1>1. /\ pub[p].pc = "marker" /\ UNCHANGED <<rows, made>>
      /\ \/ Moved(p, "idle")
         \/ Moved(p, "unmark") /\ b \in Failing
  BY GoesTo DEF WriteMarker, Goes, HandlerAt, Fault, PubPcs, Steps, Cleanup, TypeInv, staging
<1>2. b \in Builds /\ b # NoBuild /\ \A q \in Publishers : q # p => pub[q].build # b
  BY <1>1, HasBuild
<1>3. rows[b] = "READY" /\ Ordered(b)
  BY <1>1 DEF ReadyInv, Late, OrderInv, AfterMarks
<1>4. \A q \in Publishers : pub'[q].build = b => b \in Failing /\ pub'[q].pc \in Withdrawing
  BY <1>1, <1>2 DEF Moved, Withdrawing
<1>5. rows'[b] = "READY" /\ Ordered(b)'
  BY <1>1, <1>3 DEF Ordered
<1> QED BY <1>4, <1>5 DEF Published

LEMMA PublisherReturned ==
  ASSUME TypeInv, ReadyInv, OrderInv, ReturnedInv, NEW p \in Publishers, Publisher(p)
  PROVE  ReturnedInv'
<1> DEFINE b == pub[p].build
<1>0. /\ marker \subseteq 1 .. started /\ reader' = reader /\ marker' \subseteq marker \cup {b}
      /\ started \in Nat
  <2>1. reader' = reader /\ marker' \subseteq marker \cup {b}
    BY FilesMove
  <2> QED BY <2>1, Constants DEF TypeInv, OwnsBuild, TypeOK
<1>1. 1 .. started \subseteq 1 .. started'
  <2>1. started' = started \/ started' = started + 1
    BY DEF Publisher, Begin, Progress, Gate, Watermarks, Copy, Place, WriteManifest, PersistReady,
       Attest, WritePointer, WriteMarker, Refuse, Unmark, Unpoint, Unsign, Quarantine,
       StagingFails, Reject, Crash, staging
  <2> QED BY <1>0, <2>1
<1>2. ASSUME NEW c \in marker' PROVE Published(c)'
  <2>1. CASE c \in marker
    BY <1>0, <2>1, KeepsPublished DEF ReturnedInv
  <2>2. CASE c \notin marker
    <3>1. c = b /\ WriteMarker(p)
      BY <1>0, <1>2, <2>2 DEF Publisher, Begin, Progress, Gate, Watermarks, Copy, Place,
         WriteManifest, PersistReady, Attest, WritePointer, Refuse, Unmark, Unpoint, Unsign,
         Quarantine, StagingFails, Reject, Crash, files
    <3> QED BY <3>1, MarkerPublishes
  <2> QED BY <2>1, <2>2
<1>3. ASSUME NEW r \in Readers, reader'[r].pc \in {"files", "list", "strict", "returned"}
      PROVE  /\ reader'[r].build \in 1 .. started' /\ Published(reader[r].build)'
             /\ reader'[r].pc \in {"list", "strict", "returned"} => WatermarksAgree(reader[r].build)'
  <2>1. PICK c \in 1 .. started :
           /\ c = reader[r].build /\ Published(c)
           /\ reader'[r].pc \in {"list", "strict", "returned"} => WatermarksAgree(c)
    BY <1>0, <1>3 DEF ReturnedInv
  <2>2. /\ Published(c)'
        /\ reader'[r].pc \in {"list", "strict", "returned"} => WatermarksAgree(c)'
    BY <2>1, KeepsPublished
  <2> QED BY <1>0, <1>1, <2>1, <2>2 DEF Published, Ordered, WatermarksAgree
<1>4. (\A c \in marker : Published(c))'
  BY <1>2
<1>5. (\A r \in Readers : reader[r].pc \in {"files", "list", "strict", "returned"} =>
         reader[r].build \in 1 .. started /\ Published(reader[r].build))'
  BY <1>3
<1>6. (\A r \in Readers : reader[r].pc \in {"list", "strict", "returned"} =>
         WatermarksAgree(reader[r].build))'
  BY <1>3
<1> QED BY <1>4, <1>5, <1>6 DEF ReturnedInv

\* What one step of a reader does to what it holds.
ReaderStep(r) ==
  \/ reader'[r] = NoRead
  \/ /\ reader'[r].pc = "marker" /\ reader'[r].before = marker
  \/ /\ reader[r].pc = "marker" /\ reader'[r].pc = "files"
     /\ reader'[r].build = reader[r].build /\ reader'[r].before = reader[r].before
     /\ reader[r].build \in marker
  \/ /\ reader[r].pc = "files" /\ reader'[r].pc = "list"
     /\ reader'[r].build = reader[r].build /\ reader'[r].before = reader[r].before
     /\ reader[r].build \in sidecar /\ WatermarksAgree(reader[r].build)
  \/ /\ reader[r].pc = "list" /\ reader'[r].pc = "strict"
     /\ reader'[r].build = reader[r].build /\ reader'[r].before = reader[r].before
     /\ reader'[r].todo = marker
  \/ /\ reader[r].pc = "strict" /\ reader'[r].pc = "strict"
     /\ reader'[r].build = reader[r].build /\ reader'[r].before = reader[r].before
     /\ reader[r].todo \cup reader[r].listed \subseteq reader'[r].todo \cup reader'[r].listed
  \/ /\ reader[r].pc = "strict" /\ reader'[r].pc = "returned"
     /\ reader'[r].build = reader[r].build /\ reader'[r].before = {}
     /\ reader[r].todo = {} /\ IsNewest(reader[r].build, reader[r].listed)

LEMMA ReaderSteps ==
  ASSUME TypeInv, NEW r \in Readers, Reader(r)
  PROVE  ReaderStep(r)
<1> DEFINE R == [pc : {"idle", "marker", "files", "list", "strict", "returned"},
                 build : 0 .. MaxBuild, todo : SUBSET Builds, listed : SUBSET Builds,
                 before : SUBSET Builds]
<1>1. reader \in [Readers -> R] /\ reader[r] \in R
  BY DEF TypeInv, TypeOK
<1>2. /\ NoRead \in R /\ NoRead.before = {}
  BY Constants DEF NoRead
<1>3. CASE Raise(r)
  BY <1>1, <1>3 DEF Raise, ReaderStep
<1>4. CASE ReadPointer(r)
  <2>1. [NoRead EXCEPT !.pc = "marker", !.build = pointer, !.before = marker].pc = "marker"
        /\ [NoRead EXCEPT !.pc = "marker", !.build = pointer, !.before = marker].before = marker
    BY <1>2
  <2> QED BY <1>1, <1>4, <2>1 DEF ReadPointer, ReaderStep
<1>5. CASE Describe(r)
  <2>1. \/ Raise(r)
        \/ /\ reader[r].pc = "marker" /\ reader' = [reader EXCEPT ![r].pc = "files"]
           /\ reader[r].build \in marker
        \/ /\ reader[r].pc = "files" /\ reader' = [reader EXCEPT ![r].pc = "list"]
           /\ reader[r].build \in sidecar /\ WatermarksAgree(reader[r].build)
    BY <1>5 DEF Describe, Attested
  <2>2. CASE /\ reader[r].pc = "marker" /\ reader' = [reader EXCEPT ![r].pc = "files"]
             /\ reader[r].build \in marker
    <3>1. /\ reader'[r].pc = "files" /\ reader'[r].before = reader[r].before
          /\ reader'[r].build = reader[r].build
      BY <1>1, <2>2
    <3> QED BY <2>2, <3>1 DEF ReaderStep
  <2>3. CASE /\ reader[r].pc = "files" /\ reader' = [reader EXCEPT ![r].pc = "list"]
             /\ reader[r].build \in sidecar /\ WatermarksAgree(reader[r].build)
    <3>1. /\ reader'[r].pc = "list" /\ reader'[r].before = reader[r].before
          /\ reader'[r].build = reader[r].build
      BY <1>1, <2>3
    <3> QED BY <2>3, <3>1 DEF ReaderStep
  <2> QED BY <1>3, <2>1, <2>2, <2>3
<1>6. CASE List(r)
  <2>1. /\ reader[r].pc = "list" /\ reader'[r].pc = "strict"
        /\ reader'[r].build = reader[r].build /\ reader'[r].before = reader[r].before
        /\ reader'[r].todo = marker
    BY <1>1, <1>6 DEF List
  <2> QED BY <2>1 DEF ReaderStep
<1>7. CASE ListOne(r)
  <2>1. reader[r].pc = "strict"
    BY <1>7 DEF ListOne
  <2>2. PICK b \in reader[r].todo :
           \/ Raise(r)
           \/ reader' = [reader EXCEPT ![r].todo = @ \ {b}, ![r].listed = @ \cup {b}]
    BY <1>7 DEF ListOne
  <2>3. CASE reader' = [reader EXCEPT ![r].todo = @ \ {b}, ![r].listed = @ \cup {b}]
    <3>1. /\ reader'[r].pc = reader[r].pc
          /\ reader'[r].build = reader[r].build /\ reader'[r].before = reader[r].before
          /\ reader'[r].todo = reader[r].todo \ {b}
          /\ reader'[r].listed = reader[r].listed \cup {b}
      BY <1>1, <2>3
    <3>2. reader[r].todo \cup reader[r].listed \subseteq reader'[r].todo \cup reader'[r].listed
      BY <3>1
    <3> QED BY <2>1, <3>1, <3>2 DEF ReaderStep
  <2> QED BY <1>3, <2>2, <2>3
<1>8. CASE Resolve(r)
  <2> DEFINE v == [NoRead EXCEPT !.pc = "returned", !.build = reader[r].build]
  <2>1. v.pc = "returned" /\ v.build = reader[r].build /\ v.before = {}
    BY <1>1, <1>2
  <2>2. \/ Raise(r)
        \/ reader' = [reader EXCEPT ![r] = v] /\ IsNewest(reader[r].build, reader[r].listed)
    BY <1>8 DEF Resolve
  <2>3. reader[r].pc = "strict" /\ reader[r].todo = {}
    BY <1>8 DEF Resolve
  <2> HIDE DEF v
  <2>4. CASE reader' = [reader EXCEPT ![r] = v] /\ IsNewest(reader[r].build, reader[r].listed)
    <3>1. reader'[r] = v
      BY <1>1, <2>4
    <3> QED BY <2>1, <2>3, <2>4, <3>1 DEF ReaderStep
  <2> QED BY <1>3, <2>2, <2>4
<1> QED BY <1>3, <1>4, <1>5, <1>6, <1>7, <1>8 DEF Reader, Again

LEMMA ReaderReturned ==
  ASSUME TypeInv, ReturnedInv, NEW r \in Readers, Reader(r)
  PROVE  ReturnedInv'
<1>1. UNCHANGED <<rows, started, made, marker, pub>>
      /\ \A s \in Readers : s # r => reader'[s] = reader[s]
  BY ReaderType DEF ReaderUnchanged, staging, files
<1>2. \A b : (Published(b)' <=> Published(b)) /\ (WatermarksAgree(b)' <=> WatermarksAgree(b))
  BY <1>1 DEF Published, Ordered, WatermarksAgree
<1>3. \A b \in marker' : Published(b)'
  BY <1>1, <1>2 DEF ReturnedInv
<1>4. NoRead.pc = "idle" /\ marker \subseteq 1 .. started
  BY DEF NoRead, TypeInv, OwnsBuild
<1>5. reader'[r].pc \in {"files", "list", "strict", "returned"} =>
        /\ reader'[r].build \in 1 .. started /\ Published(reader'[r].build)
        /\ reader'[r].pc # "files" => WatermarksAgree(reader'[r].build)
  <2> SUFFICES ASSUME reader'[r].pc \in {"files", "list", "strict", "returned"}
               PROVE  /\ reader'[r].build \in 1 .. started /\ Published(reader'[r].build)
                      /\ reader'[r].pc # "files" => WatermarksAgree(reader'[r].build)
    OBVIOUS
  <2>1. /\ reader'[r].build = reader[r].build
        /\ \/ reader[r].pc \in {"list", "strict", "returned"}
           \/ reader[r].pc = "files" /\ WatermarksAgree(reader[r].build)
           \/ reader[r].build \in marker /\ reader'[r].pc = "files"
    BY <1>4, ReaderSteps DEF ReaderStep
  <2> QED BY <1>4, <2>1 DEF ReturnedInv
<1>6. /\ \A s \in Readers : reader'[s].pc \in {"files", "list", "strict", "returned"} =>
           reader'[s].build \in 1 .. started /\ Published(reader'[s].build)
      /\ \A s \in Readers : reader'[s].pc \in {"list", "strict", "returned"} =>
           WatermarksAgree(reader'[s].build)
  BY <1>1, <1>5 DEF ReturnedInv
<1> QED BY <1>1, <1>3, <1>6 DEF ReturnedInv, Published, Ordered, WatermarksAgree

LEMMA ReturnedNext ==
  TypeInv /\ ReadyInv /\ OrderInv /\ ReturnedInv /\ [Next]_vars => ReturnedInv'
<1> SUFFICES ASSUME TypeInv, ReadyInv, OrderInv, ReturnedInv, [Next]_vars PROVE ReturnedInv'
  OBVIOUS
<1>1. CASE Ingest \/ Expire \/ UNCHANGED vars
  <2>1. UNCHANGED <<rows, started, made, marker, pub, reader>>
    BY <1>1 DEF Ingest, Expire, vars, staging, files
  <2> QED BY <2>1 DEF ReturnedInv, Published, Ordered, WatermarksAgree
<1> QED BY <1>1, PublisherReturned, ReaderReturned DEF Next

\* ReturnedPublished for any number of publishers and readers and any writes that
\* fail: the row of a snapshot that a reader of the pointer returns is READY, or was
\* rejected by an attempt whose writes failed, and its copy holds the generation of
\* its watermarks and none older than the change_seq it is ordered by.
THEOREM PublicationReturnedPublished == Spec => []ReturnedPublished
<1> DEFINE I == TypeInv /\ ReadyInv /\ OrderInv /\ ReturnedInv
<1>1. Init => I
  <2>1. Init => ReturnedInv
    <3>1. NoRead.pc = "idle"
      BY DEF NoRead
    <3> QED BY <3>1 DEF Init, ReturnedInv
  <2>2. Init => OrderInv
    <3>1. Idle.pc = "idle" /\ Nothing.seq = 0
      BY DEF Idle, Nothing
    <3> QED BY <3>1 DEF Init, OrderInv, AfterMarks
  <2> QED BY <2>1, <2>2, TypeInit, ReadyInit
<1>2. I /\ [Next]_vars => I'
  BY TypeNext, ReadyNext, OrderNext, ReturnedNext
<1>3. I => ReturnedPublished
  <2> SUFFICES ASSUME I, NEW r \in Readers, reader[r].pc = "returned"
               PROVE  LET b == reader[r].build
                      IN /\ rows[b] = "READY" \/ (b \in Failing /\ rows[b] = "REJECTED")
                         /\ made[b].copied = made[b].marks
                         /\ made[b].seq <= made[b].copied
    BY DEF ReturnedPublished
  <2> QED BY DEF ReturnedInv, Published, Ordered, WatermarksAgree
<1> QED BY <1>1, <1>2, <1>3, PTL DEF Spec

-----------------------------------------------------------------------------
(* What a reader returns is the newest.                                    *)

\* The inductive invariant of ReturnedNewest: what an attempt has not published is in
\* no listing, and what a reader found published when it began is in its own listing
\* for as long as it is published.
ListedInv ==
  /\ \A p \in Publishers : pub[p].pc \in Steps =>
       /\ pub[p].build \notin marker
       /\ \A r \in Readers : pub[p].build \notin reader[r].before
  /\ \A r \in Readers : reader[r].pc = "strict" =>
       reader[r].before \cap marker \subseteq reader[r].todo \cup reader[r].listed

\* A publication marker is new only where the attempt is at its last step.
LEMMA MarkerMoves ==
  ASSUME NEW p, Publisher(p), marker' # marker
  PROVE  \/ pub[p].pc = "marker"
         \/ pub[p].pc = "unmark" /\ marker' = marker \ {pub[p].build}
BY DEF Publisher, Begin, Progress, Gate, Watermarks, Copy, Place, WriteManifest, PersistReady,
       Attest, WritePointer, WriteMarker, Refuse, Unmark, Unpoint, Unsign, Quarantine,
       StagingFails, Reject, Crash, files, Goes

LEMMA MarkerLast ==
  ASSUME TypeInv, NEW p \in Publishers, Publisher(p), pub[p].pc = "marker"
  PROVE  pub'[p].pc \notin Steps
<1>1. CASE WriteMarker(p)
  <2>1. Moved(p, "idle") \/ Moved(p, "unmark")
    BY <1>1, GoesTo DEF WriteMarker, HandlerAt, PubPcs, Cleanup, TypeInv
  <2> QED BY <2>1 DEF Moved, Steps
<1>2. CASE Crash(p)
  <2>1. Goes(p, pub[p].pc, "idle")
    BY <1>2 DEF Crash, Goes
  <2>2. Moved(p, "idle")
    BY <2>1, GoesTo DEF PubPcs, TypeInv
  <2> QED BY <2>2 DEF Moved, Steps
<1> QED BY <1>1, <1>2 DEF Publisher, Begin, Progress, Gate, Watermarks, Copy, Place,
       WriteManifest, PersistReady, Attest, WritePointer, Refuse, Unmark, Unpoint, Unsign,
       Quarantine, StagingFails, Reject, HandlerAt, Goes

LEMMA PublisherListed ==
  ASSUME TypeInv, ListedInv, NEW p \in Publishers, Publisher(p)
  PROVE  ListedInv'
<1> DEFINE b == pub[p].build
<1>1. reader' = reader /\ marker' \subseteq marker \cup {b}
  BY FilesMove
<1>2. /\ started \in Nat /\ marker \subseteq 1 .. started
      /\ \A r \in Readers : reader[r].before \subseteq 1 .. started
      /\ \A q \in Publishers : pub[q].pc # "idle" => pub[q].build \in 1 .. started
  BY Constants DEF TypeInv, TypeOK, OwnsBuild
<1>3. CASE Begin(p)
  <2>1. /\ marker' = marker /\ pub'[p].build = started + 1
        /\ \A q \in Publishers : q # p => pub'[q] = pub[q]
    BY <1>3, BeginIs DEF files
  <2>2. started + 1 \notin 1 .. started
    BY <1>2
  <2> QED BY <1>1, <1>2, <2>1, <2>2 DEF ListedInv
<1>4. CASE ~Begin(p)
  <2>1. PICK to \in PubPcs :
            /\ Moved(p, to) /\ pub[p].pc # "idle" /\ (to \in Steps => pub[p].pc \in Steps)
    BY <1>4, Flow DEF TypeInv
  <2>2. \A q \in Publishers : q # p => pub[q].build # b
    BY <2>1, HasBuild
  <2>3. "idle" \notin Steps /\ "unmark" \notin Steps /\ "marker" \in Steps
    BY DEF Steps
  <2>4. marker' # marker => pub'[p].pc \notin Steps
    <3> SUFFICES ASSUME marker' # marker PROVE pub'[p].pc \notin Steps
      OBVIOUS
    <3> QED BY <2>1, <2>3, MarkerMoves, MarkerLast DEF Moved
  <2>5. ASSUME NEW q \in Publishers, pub'[q].pc \in Steps
        PROVE  /\ pub'[q].build \notin marker'
               /\ \A r \in Readers : pub'[q].build \notin reader'[r].before
    <3>1. CASE q = p
      <4>1. pub'[p].build = b /\ pub[p].pc \in Steps /\ marker' = marker
        BY <2>1, <2>3, <2>4, <2>5, <3>1 DEF Moved
      <4> QED BY <1>1, <3>1, <4>1 DEF ListedInv
    <3>2. CASE q # p
      BY <1>1, <2>1, <2>2, <2>5, <3>2 DEF ListedInv, Moved
    <3> QED BY <3>1, <3>2
  <2>6. ASSUME NEW r \in Readers
        PROVE  reader[r].before \cap marker' \subseteq reader[r].before \cap marker
    <3>1. CASE marker' \subseteq marker
      BY <3>1
    <3>2. CASE ~(marker' \subseteq marker)
      <4>1. pub[p].pc = "marker"
        BY <3>2, MarkerMoves
      <4>2. b \notin reader[r].before
        BY <2>3, <4>1 DEF ListedInv
      <4> QED BY <1>1, <4>2
    <3> QED BY <3>1, <3>2
  <2>7. \A r \in Readers : reader'[r].pc = "strict" =>
           reader'[r].before \cap marker' \subseteq reader'[r].todo \cup reader'[r].listed
    BY <1>1, <2>6 DEF ListedInv
  <2> QED BY <2>5, <2>7 DEF ListedInv
<1> QED BY <1>3, <1>4

LEMMA ReaderListed ==
  ASSUME TypeInv, ListedInv, NEW r \in Readers, Reader(r)
  PROVE  ListedInv'
<1>1. UNCHANGED <<marker, pub>> /\ \A s \in Readers : s # r => reader'[s] = reader[s]
  BY ReaderType DEF ReaderUnchanged, files
<1>2. NoRead.pc = "idle" /\ NoRead.before = {}
  BY DEF NoRead
<1>3. reader'[r].before \in {reader[r].before, marker, {}}
  BY <1>2, ReaderSteps DEF ReaderStep
<1>4. reader'[r].pc = "strict" =>
        reader'[r].before \cap marker \subseteq reader'[r].todo \cup reader'[r].listed
  <2> SUFFICES ASSUME reader'[r].pc = "strict"
               PROVE  reader'[r].before \cap marker \subseteq reader'[r].todo \cup reader'[r].listed
    OBVIOUS
  <2>1. /\ reader'[r].before = reader[r].before
        /\ \/ reader'[r].todo = marker
           \/ /\ reader[r].pc = "strict"
              /\ reader[r].todo \cup reader[r].listed
                   \subseteq reader'[r].todo \cup reader'[r].listed
    BY <1>2, ReaderSteps DEF ReaderStep
  <2>2. reader[r].pc = "strict" =>
          reader[r].before \cap marker \subseteq reader[r].todo \cup reader[r].listed
    BY DEF ListedInv
  <2> QED BY <2>1, <2>2
<1>5. \A p \in Publishers : pub[p].pc \in Steps =>
        /\ pub[p].build \notin marker
        /\ \A s \in Readers : pub[p].build \notin reader'[s].before
  BY <1>1, <1>3 DEF ListedInv
<1>6. \A s \in Readers : reader'[s].pc = "strict" =>
        reader'[s].before \cap marker \subseteq reader'[s].todo \cup reader'[s].listed
  BY <1>1, <1>4 DEF ListedInv
<1> QED BY <1>1, <1>5, <1>6 DEF ListedInv

LEMMA ListedNext == TypeInv /\ ListedInv /\ [Next]_vars => ListedInv'
<1> SUFFICES ASSUME TypeInv, ListedInv, [Next]_vars PROVE ListedInv'
  OBVIOUS
<1>1. CASE Ingest \/ Expire \/ UNCHANGED vars
  <2>1. UNCHANGED <<marker, pub, reader>>
    BY <1>1 DEF Ingest, Expire, vars, files
  <2> QED BY <2>1 DEF ListedInv
<1> QED BY <1>1, PublisherListed, ReaderListed DEF Next

\* A reader that returns has listed everything it found published and is published still.
LEMMA ReturnsNewest ==
  ASSUME TypeInv, ListedInv, Next, NEW r \in Readers,
         reader[r].pc # "returned", reader'[r].pc = "returned"
  PROVE  \A b \in reader[r].before \cap marker : ~Newer(b, reader[r].build)
<1>1. Reader(r)
  <2>1. ASSUME NEW p \in Publishers, Publisher(p) PROVE FALSE
    BY <2>1, FilesMove
  <2>2. ASSUME Ingest \/ Expire PROVE FALSE
    BY <2>2 DEF Ingest, Expire
  <2>3. ASSUME NEW s \in Readers, Reader(s), s # r PROVE FALSE
    BY <2>3, ReaderType
  <2> QED BY <2>1, <2>2, <2>3 DEF Next
<1>2. /\ reader[r].pc = "strict" /\ reader[r].todo = {}
      /\ IsNewest(reader[r].build, reader[r].listed)
  <2>1. NoRead.pc = "idle"
    BY DEF NoRead
  <2> QED BY <1>1, <2>1, ReaderSteps DEF ReaderStep
<1>3. reader[r].before \cap marker \subseteq reader[r].listed
  BY <1>2 DEF ListedInv
<1> QED BY <1>2, <1>3 DEF IsNewest

\* ReturnedNewest for any number of publishers and readers: no reader returns a
\* snapshot older than one that was published when it began and still is, although
\* the pointer it followed may have been overwritten by a slower publisher.
THEOREM PublicationReturnedNewest == Spec => ReturnedNewest
<1> DEFINE I == TypeInv /\ ListedInv
<1>1. Init => I
  <2>1. Init => ListedInv
    <3>1. NoRead.pc = "idle" /\ NoRead.before = {} /\ Idle.pc = "idle" /\ "idle" \notin Steps
      BY DEF NoRead, Idle, Steps
    <3> QED BY <3>1 DEF Init, ListedInv
  <2> QED BY <2>1, TypeInit
<1>2. I /\ [Next]_vars => I'
  BY TypeNext, ListedNext
<1>3. I /\ [Next]_vars =>
        [\A r \in Readers :
           reader[r].pc # "returned" /\ reader'[r].pc = "returned" =>
             \A b \in reader[r].before \cap marker : ~Newer(b, reader[r].build)]_vars
  BY ReturnsNewest
<1> QED BY <1>1, <1>2, <1>3, PTL DEF Spec, ReturnedNewest

=============================================================================
