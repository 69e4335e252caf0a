------------------------ MODULE ControlledJobProofs ------------------------
(***************************************************************************)
(* The safety of a Controlled Pilot job for any number of containers,      *)
(* attempts, heartbeats and faults: TypeOK (with the bound of one takeover *)
(* per fault), TerminalIsQuiescent and CompletedIsClean.                   *)
(***************************************************************************)
EXTENDS ControlledJob, TLAPS

Pcs == {"idle", "take", "again", "claimed", "stage", "run", "publish",
        "put", "reread", "known", "stuck", "down"}

Boxes ==
  [pc : Pcs, watch : BOOLEAN, tries : Nat, seen : Etags, token : Tokens,
   etag : Etags, fence : Etags, lost : BOOLEAN,
   beat : {"off", "armed", "sent", "renewed"},
   stop : {"none", "timeout", "cancel", "lease_lost"},
   overdue : BOOLEAN,
   proc : {"none", "alive", "result", "error", "unknown", "killed"},
   manifest : {"NONE", "COMPLETED", "FAILED"}]

Docs ==
  [status : {"ABSENT", "CLAIMED", "TERMINAL"},
   owner : Containers \cup {Nobody}, token : Tokens,
   beat : 0 .. MaxBeats, expired : BOOLEAN,
   result : {"NONE", "COMPLETED", "FAILED"}]

\* Before the executor starts, and after wait has returned.
Early == {"idle", "take", "again", "claimed", "stage", "known"}
Closing == {"publish", "put", "reread"}

Clean(b) == b.proc = "result" /\ b.stop = "none" /\ ~b.overdue

\* What one container's record says by itself.
Local(b) ==
  /\ b.pc \in Early => /\ b.proc = "none" /\ b.stop = "none" /\ ~b.overdue
                       /\ b.beat = "off" /\ ~b.lost /\ b.tries < ClaimAttempts
  /\ b.pc \in {"idle", "stage", "run"} => b.tries = 0
  /\ b.pc = "run" => b.proc \notin {"none", "killed"}
  /\ b.pc \in Closing => /\ b.proc \in {"result", "error"} /\ b.tries < PutAttempts
                         /\ b.manifest = "COMPLETED" => Clean(b)
  /\ b.tries < ClaimAttempts + PutAttempts
  /\ b.pc = "take" => b.seen[3] # "TERMINAL"
  /\ b.beat = "sent" => /\ b.seen[3] = "CLAIMED" /\ b.seen[2] < MaxBeats
                        /\ b.seen[1] = b.token
  /\ b.beat # "off" \/ b.pc \in {"claimed", "stage"} => b.token > 0

Free(d) == d.status = "ABSENT" \/ (d.status = "CLAIMED" /\ d.expired)

\* Where a container's tokens and etags stand relative to the document: none
\* is ahead of it, the current token is its owner's alone, and an etag read for
\* a takeover that still matches is that of a document that is still free.
Behind(c, b, d) ==
  /\ b.token <= d.token
  /\ b.token = d.token /\ b.token > 0 => d.owner = c
  /\ b.pc = "take" => \/ b.seen[1] < d.token
                      \/ b.seen[1] = d.token /\ b.seen[2] <= d.beat
  /\ b.pc = "take" /\ b.seen = Etag(d) => Free(d)

\* The container whose terminal the document holds.
Stored(b, d) ==
  /\ b.pc \in Closing \cup {"down"} /\ b.token = d.token
  /\ b.proc \in {"result", "error"}
  /\ d.result = "COMPLETED" => Clean(b)

\* A claim no fault has been charged to: its owner is at work, and its next
\* conditional write will match unless its own heartbeat is in between.
Works(b, d) ==
  /\ b.token = d.token /\ ~b.lost
  /\ b.pc \in {"claimed", "stage", "run"} \cup Closing
  /\ b.pc # "claimed" /\ b.beat # "renewed" => b.etag = Etag(d)
  /\ b.beat = "sent" => b.seen = Etag(d)
  /\ b.proc # "unknown" /\ b.stop # "lease_lost"
  /\ b.pc \in Closing /\ b.tries > 0 => b.beat = "off"
  /\ b.pc = "put" /\ b.tries > 0 => b.fence = Etag(d)
  /\ b.pc = "reread" => b.tries = 0

Fits(c, b, d, n) ==
  /\ Local(b)
  /\ Behind(c, b, d)
  /\ d.status = "TERMINAL" /\ d.owner = c => Stored(b, d)
  /\ d.status = "CLAIMED" /\ d.owner = c /\ d.token = n + 1 =>
       ~d.expired /\ Works(b, d)

DocOK(d, n) ==
  /\ d.status = "ABSENT" => d.token = 0
  /\ d.status # "ABSENT" => d.owner \in Containers /\ d.token > 0
  /\ d.status # "TERMINAL" => d.result = "NONE"
  /\ d.token <= n + 1

\* The inductive invariant.
JobInv ==
  /\ lease \in Docs
  /\ faults \in 0 .. MaxFaults
  /\ box \in [Containers -> Boxes]
  /\ DocOK(lease, faults)
  /\ \A c \in Containers : Fits(c, box[c], lease, faults)

LEMMA JobInvImplies ==
  ASSUME JobInv
  PROVE  TypeOK /\ TerminalIsQuiescent /\ CompletedIsClean
<1> USE JobAssumption DEF JobInv
<1>1. TypeOK
  <2>1. ASSUME NEW c \in Containers
        PROVE  box[c].tries < IF box[c].pc \in {"publish", "put", "reread"}
                              THEN PutAttempts ELSE ClaimAttempts + PutAttempts
    <3>1. Local(box[c])
      BY DEF Fits
    <3> QED BY <3>1 DEF Local, Closing
  <2> QED BY <2>1 DEF TypeOK, Docs, Boxes, Pcs
<1>2. TerminalIsQuiescent
  BY DEF TerminalIsQuiescent, Docs, DocOK, Fits, Stored
<1>3. CompletedIsClean
  BY DEF CompletedIsClean, Docs, DocOK, Fits, Stored, Clean
<1> QED BY <1>1, <1>2, <1>3

LEMMA EtagType ==
  ASSUME NEW d \in Docs
  PROVE  /\ Etag(d) \in Etags
         /\ Etag(d)[1] = d.token /\ Etag(d)[2] = d.beat /\ Etag(d)[3] = d.status
BY DEF Etag, Etags, Docs

LEMMA NoEtagFacts ==
  NoEtag \in Etags /\ NoEtag[1] = 0 /\ NoEtag[2] = 0 /\ NoEtag[3] = "ABSENT"
<1>1. AbsentLease \in Docs
  BY JobAssumption DEF AbsentLease, Docs, Tokens
<1> QED BY <1>1, EtagType DEF NoEtag, AbsentLease

LEMMA JobInit == Init => JobInv
<1> SUFFICES ASSUME Init PROVE JobInv
  OBVIOUS
<1> USE JobAssumption
<1>1. AbsentLease \in Docs /\ DocOK(AbsentLease, 0)
  BY DEF AbsentLease, Docs, DocOK, Tokens
<1>2. Fresh \in Boxes
  BY NoEtagFacts DEF Fresh, Boxes, Pcs, Tokens
<1>3. ASSUME NEW c \in Containers
      PROVE  Fits(c, Fresh, AbsentLease, 0)
  BY DEF Fresh, AbsentLease, Fits, Local, Behind, Stored, Works, Early, Closing, Free
<1> QED BY <1>1, <1>2, <1>3 DEF Init, JobInv

\* A fault makes the claim a charged one.
LEMMA Charge ==
  ASSUME NEW t \in Int, NEW n \in Int, NEW m \in Int,
         t <= n + 1, m = n \/ m = n + 1, t = m + 1
  PROVE  m = n
OBVIOUS

\* A step that leaves the document alone.
LEMMA KeepsLease ==
  ASSUME JobInv, NEW c \in Containers, NEW nb \in Boxes,
         Become(c, nb), lease' = lease, NoFault \/ Fault,
         Fits(c, nb, lease, faults')
  PROVE  JobInv'
<1> USE JobAssumption DEF JobInv
<1>1. faults' \in 0 .. MaxFaults /\ (faults' = faults \/ faults' = faults + 1)
  BY DEF NoFault, Fault
<1>2. DocOK(lease, faults')
  BY <1>1 DEF DocOK, Docs, Tokens
<1>3. box' \in [Containers -> Boxes]
  BY DEF Become
<1>4. ASSUME NEW x \in Containers
      PROVE  Fits(x, box'[x], lease, faults')
  <2>1. CASE x = c
    BY <2>1 DEF Become
  <2>2. CASE x # c
    <3>1. box'[x] = box[x]
      BY <2>2 DEF Become
    <3>2. lease.token \in Int /\ faults \in Int /\ lease.token <= faults + 1
      BY DEF DocOK, Docs, Tokens
    <3>3. lease.token = faults' + 1 => faults' = faults
      <4>1. faults' \in Int /\ (faults' = faults \/ faults' = faults + 1)
        BY <1>1
      <4> HIDE DEF JobInv
      <4> QED BY <3>2, <4>1, Charge
    <3> QED BY <3>1, <3>3 DEF Fits
  <2> QED BY <2>1, <2>2
<1> QED BY <1>1, <1>2, <1>3, <1>4

\* After a fault no claim is uncharged.
LEMMA Faulted ==
  ASSUME JobInv, Fault
  PROVE  ~(lease.token = faults' + 1)
<1>1. lease.token \in Int /\ faults \in Int /\ lease.token <= faults + 1
  BY JobAssumption DEF JobInv, DocOK, Docs, Tokens
<1> QED BY <1>1 DEF Fault

\* The record of a container and what the invariant says of it.
LEMMA BoxFacts ==
  ASSUME JobInv, NEW c \in Containers
  PROVE  /\ box[c] \in Boxes /\ lease \in Docs /\ DocOK(lease, faults)
         /\ Fits(c, box[c], lease, faults)
         /\ faults \in Int /\ lease.token \in Int
BY JobAssumption DEF JobInv, Docs, Tokens

-----------------------------------------------------------------------------
(* The claim.                                                              *)

\* An exception before the executor started leaves an idle container behind,
\* whether or not it still watches the lease.
LEMMA RaisedFits ==
  ASSUME JobInv, NEW c \in Containers, box[c].pc \in Early, NEW n \in Int,
         NEW d \in Docs, d.status # "TERMINAL" \/ d.owner # c, d.token # n + 1,
         Behind(c, box[c], d), NEW w \in BOOLEAN
  PROVE  LET nb == [Raised(box[c]) EXCEPT !.watch = w]
         IN  nb \in Boxes /\ Fits(c, nb, d, n)
<1> USE JobAssumption
<1> DEFINE rb == Raised(box[c])
           nb == [rb EXCEPT !.watch = w]
<1>1. box[c] \in Boxes /\ Local(box[c])
  BY BoxFacts DEF Fits
<1>2. /\ rb \in Boxes /\ Local(rb) /\ rb.token = box[c].token
      /\ rb.pc = "idle"
  <2>1. /\ rb \in Boxes /\ rb.pc = "idle" /\ rb.tries = 0
        /\ rb.token = box[c].token /\ rb.proc = box[c].proc
        /\ rb.stop = box[c].stop /\ rb.overdue = box[c].overdue
        /\ rb.beat = box[c].beat /\ rb.lost = box[c].lost
    BY <1>1 DEF Raised, Boxes, Pcs
  <2> HIDE DEF rb
  <2>2. Local(rb)
    BY <1>1, <2>1 DEF Local, Early, Closing
  <2> QED BY <2>1, <2>2
<1> HIDE DEF rb
<1>3. nb \in Boxes /\ Local(nb) /\ nb.token = box[c].token /\ nb.pc = "idle"
  BY <1>2 DEF Boxes, Local, Early, Closing
<1> HIDE DEF nb
<1>4. Behind(c, nb, d)
  BY <1>3 DEF Behind
<1>5. Fits(c, nb, d, n)
  BY <1>3, <1>4 DEF Fits
<1> QED BY <1>3, <1>5 DEF nb, rb

\* What Raise makes of the container, in one form for its two outcomes.
LEMMA RaiseOutcome ==
  ASSUME JobInv, NEW c \in Containers, Raise(c)
  PROVE  /\ Fault
         /\ \E w \in BOOLEAN : Become(c, [Raised(box[c]) EXCEPT !.watch = w])
<1>1. box[c] \in Boxes
  BY BoxFacts
<1>2. CASE Become(c, Raised(box[c]))
  <2>1. Raised(box[c]) = [Raised(box[c]) EXCEPT !.watch = box[c].watch]
        /\ box[c].watch \in BOOLEAN
    BY <1>1 DEF Raised, Boxes
  <2> QED BY <1>2, <2>1 DEF Raise
<1>3. CASE Become(c, [Raised(box[c]) EXCEPT !.watch = FALSE])
  BY <1>3 DEF Raise
<1> QED BY <1>2, <1>3 DEF Raise

LEMMA RaiseStep ==
  ASSUME JobInv, NEW c \in Containers, box[c].pc \in Early, Raise(c), lease' = lease
  PROVE  JobInv'
<1>1. PICK w \in BOOLEAN : Become(c, [Raised(box[c]) EXCEPT !.watch = w])
  BY RaiseOutcome
<1> DEFINE nb == [Raised(box[c]) EXCEPT !.watch = w]
<1>2. Fault /\ faults' \in Int /\ lease.token # faults' + 1
  BY RaiseOutcome, BoxFacts, Faulted DEF Fault
<1>3. lease \in Docs /\ Behind(c, box[c], lease)
      /\ (lease.status # "TERMINAL" \/ lease.owner # c)
  BY BoxFacts DEF Fits, Stored, Early, Closing
<1>4. nb \in Boxes /\ Fits(c, nb, lease, faults')
  BY <1>2, <1>3, RaisedFits
<1> HIDE DEF nb
<1>5. Become(c, nb)
  BY <1>1 DEF nb
<1> QED BY <1>2, <1>4, <1>5, KeepsLease

LEMMA ReadLeaseStep ==
  ASSUME JobInv, NEW c \in Containers, ReadLease(c),
         box[c].pc \in {"idle", "again"}
  PROVE  JobInv'
<1> USE JobAssumption
<1> DEFINE b == box[c]
           taking == [b EXCEPT !.pc = "take", !.seen = Etag(lease)]
           watching == [b EXCEPT !.pc = "idle", !.watch = TRUE, !.tries = 0]
           blind == [b EXCEPT !.pc = "take", !.seen = NoEtag]
<1>1. b \in Boxes /\ lease \in Docs /\ Fits(c, b, lease, faults) /\ lease' = lease
  BY BoxFacts DEF ReadLease
<1>2. Etag(lease) \in Etags /\ Etag(lease)[1] = lease.token
      /\ Etag(lease)[2] = lease.beat /\ Etag(lease)[3] = lease.status
  BY <1>1, EtagType
<1>3. lease.token \in Nat /\ lease.beat \in Nat
  BY <1>1 DEF Docs, Tokens
<1>4. CASE Claimable /\ Become(c, taking) /\ NoFault
  <2>1. taking \in Boxes
    BY <1>1, <1>2 DEF Boxes, Pcs
  <2>2. Fits(c, taking, lease, faults)
    BY <1>1, <1>2, <1>3, <1>4
       DEF Fits, Local, Behind, Stored, Works, Early, Closing, Boxes, Free, Claimable
  <2> HIDE DEF taking
  <2> QED BY <1>1, <1>4, <2>1, <2>2, KeepsLease DEF NoFault
<1>5. CASE Become(c, watching) /\ NoFault
  <2>1. watching \in Boxes
    BY <1>1 DEF Boxes, Pcs
  <2>2. Fits(c, watching, lease, faults)
    BY <1>1 DEF Fits, Local, Behind, Stored, Works, Early, Closing, Boxes
  <2> HIDE DEF watching
  <2> QED BY <1>1, <1>5, <2>1, <2>2, KeepsLease DEF NoFault
<1>6. CASE Become(c, blind) /\ Fault
  <2>1. NoEtag \in Etags /\ NoEtag[1] = 0 /\ NoEtag[2] = 0 /\ NoEtag[3] = "ABSENT"
    BY NoEtagFacts
  <2>2. blind \in Boxes /\ blind.pc = "take" /\ blind.seen = NoEtag
        /\ blind.token = b.token
    BY <1>1, <2>1 DEF Boxes, Pcs
  <2>3. Local(blind)
    BY <1>1, <2>1 DEF Fits, Local, Early, Closing, Boxes
  <2> HIDE DEF blind
  <2>4. Behind(c, blind, lease)
    BY <1>1, <1>2, <1>3, <2>1, <2>2 DEF Fits, Behind, Free
  <2>5. lease.token # faults' + 1
    BY <1>6, Faulted
  <2>6. Fits(c, blind, lease, faults')
    BY <1>1, <2>3, <2>4, <2>5 DEF Fits, Stored, Closing
  <2> QED BY <1>1, <1>6, <2>2, <2>6, KeepsLease
<1>7. CASE Raise(c)
  BY <1>1, <1>7, RaiseStep DEF Early
<1> QED BY <1>4, <1>5, <1>6, <1>7 DEF ReadLease

LEMMA SubmitStep ==
  ASSUME JobInv, NEW c \in Containers, Submit(c)
  PROVE  JobInv'
<1> USE JobAssumption
<1> DEFINE b == box[c]
           known == [b EXCEPT !.pc = "known"]
<1>1. b \in Boxes /\ lease \in Docs /\ Fits(c, b, lease, faults) /\ b.pc = "idle"
  BY BoxFacts DEF Submit
<1>2. CASE Become(c, known) /\ NoFault /\ lease' = lease
  <2>1. known \in Boxes
    BY <1>1 DEF Boxes, Pcs
  <2>2. Fits(c, known, lease, faults)
    BY <1>1 DEF Fits, Local, Behind, Stored, Works, Early, Closing, Boxes
  <2> HIDE DEF known
  <2> QED BY <1>2, <2>1, <2>2, KeepsLease DEF NoFault
<1>3. CASE ReadLease(c)
  BY <1>1, <1>3, ReadLeaseStep
<1> QED BY <1>2, <1>3 DEF Submit

LEMMA ReadBackStep ==
  ASSUME JobInv, NEW c \in Containers, ReadBack(c)
  PROVE  JobInv'
<1> USE JobAssumption
<1> DEFINE b == box[c]
           nb == [b EXCEPT !.pc = "stage", !.etag = Etag(lease), !.lost = FALSE, !.tries = 0]
           without == [b EXCEPT !.pc = "stage", !.etag = NoEtag, !.lost = FALSE, !.tries = 0]
<1>1. b \in Boxes /\ lease \in Docs /\ Fits(c, b, lease, faults) /\ b.pc = "claimed"
  BY BoxFacts DEF ReadBack
<1>2. CASE Become(c, nb) /\ NoFault
  <2>1. nb \in Boxes
    BY <1>1, EtagType DEF Boxes, Pcs
  <2>2. Fits(c, nb, lease, faults)
    BY <1>1 DEF Fits, Local, Behind, Stored, Works, Early, Closing, Boxes
  <2> HIDE DEF nb
  <2> QED BY <1>2, <2>1, <2>2, KeepsLease DEF ReadBack, NoFault
<1>3. CASE Become(c, without) /\ Fault
  <2>1. without \in Boxes
    BY <1>1, NoEtagFacts DEF Boxes, Pcs
  <2>2. lease.token # faults' + 1
    BY <1>3, Faulted
  <2>3. Fits(c, without, lease, faults')
    BY <1>1, <2>2 DEF Fits, Local, Behind, Stored, Works, Early, Closing, Boxes
  <2> HIDE DEF without
  <2> QED BY <1>3, <2>1, <2>3, KeepsLease DEF ReadBack
<1>4. CASE Raise(c)
  BY <1>1, <1>4, RaiseStep DEF ReadBack, Early
<1> QED BY <1>2, <1>3, <1>4 DEF ReadBack

LEMMA WriteStageStep ==
  ASSUME JobInv, NEW c \in Containers, WriteStage(c)
  PROVE  JobInv'
<1> USE JobAssumption
<1> DEFINE b == box[c]
           nb == [b EXCEPT !.pc = "run", !.watch = FALSE, !.proc = "alive", !.beat = "armed"]
<1>1. b \in Boxes /\ lease \in Docs /\ Fits(c, b, lease, faults) /\ b.pc = "stage"
  BY BoxFacts DEF WriteStage
<1>2. CASE Become(c, nb) /\ NoFault
  <2>1. nb \in Boxes
    BY <1>1 DEF Boxes, Pcs
  <2>2. Fits(c, nb, lease, faults)
    BY <1>1 DEF Fits, Local, Behind, Stored, Works, Early, Closing, Boxes
  <2> HIDE DEF nb
  <2> QED BY <1>2, <2>1, <2>2, KeepsLease DEF WriteStage, NoFault
<1>3. CASE Raise(c)
  BY <1>1, <1>3, RaiseStep DEF WriteStage, Early
<1> QED BY <1>2, <1>3 DEF WriteStage

-----------------------------------------------------------------------------
(* The heartbeat timer.                                                    *)

\* A lost lease changes nothing a stored terminal speaks for; it is only ever
\* found with a claim that a fault was charged to.
LEMMA LostFits ==
  ASSUME JobInv, NEW c \in Containers, NEW n \in Int, box[c].beat # "off",
         ~(lease.status = "CLAIMED" /\ lease.owner = c /\ lease.token = n + 1)
  PROVE  MarkLost(box[c]) \in Boxes /\ Fits(c, MarkLost(box[c]), lease, n)
<1> USE JobAssumption
<1>1. box[c] \in Boxes /\ lease \in Docs /\ Fits(c, box[c], lease, faults)
  BY BoxFacts
<1>2. MarkLost(box[c]) \in Boxes
  BY <1>1 DEF MarkLost, Boxes, Pcs
<1>3. Fits(c, MarkLost(box[c]), lease, n)
  BY <1>1 DEF MarkLost, Fits, Local, Behind, Stored, Works, Early, Closing, Boxes, Clean
<1> QED BY <1>2, <1>3

LEMMA LostStep ==
  ASSUME JobInv, NEW c \in Containers, box[c].beat # "off",
         Become(c, MarkLost(box[c])), lease' = lease,
         \/ Fault
         \/ NoFault /\ ~(lease.status = "CLAIMED" /\ lease.owner = c
                                 /\ lease.token = faults + 1)
  PROVE  JobInv'
<1>1. faults' \in Int /\ ~(lease.status = "CLAIMED" /\ lease.owner = c
                                   /\ lease.token = faults' + 1)
  BY BoxFacts, Faulted DEF Fault, NoFault
<1>2. MarkLost(box[c]) \in Boxes /\ Fits(c, MarkLost(box[c]), lease, faults')
  BY <1>1, LostFits
<1> QED BY <1>2, KeepsLease

LEMMA BeatReadsStep ==
  ASSUME JobInv, NEW c \in Containers, BeatReads(c)
  PROVE  JobInv'
<1> USE JobAssumption
<1> DEFINE b == box[c]
           nb == [b EXCEPT !.beat = "sent", !.seen = Etag(lease)]
<1>1. b \in Boxes /\ lease \in Docs /\ Fits(c, b, lease, faults) /\ b.beat = "armed"
      /\ lease' = lease
  BY BoxFacts DEF BeatReads
<1>2. Etag(lease) \in Etags /\ Etag(lease)[1] = lease.token
      /\ Etag(lease)[2] = lease.beat /\ Etag(lease)[3] = lease.status
  BY <1>1, EtagType
<1>3. CASE /\ Holds(c) /\ lease.status = "CLAIMED" /\ ~lease.expired
           /\ lease.beat < MaxBeats /\ Become(c, nb) /\ NoFault
  <2>1. nb \in Boxes
    BY <1>1, <1>2 DEF Boxes, Pcs
  <2>2. Fits(c, nb, lease, faults)
    BY <1>1, <1>2, <1>3
       DEF Holds, Fits, Local, Behind, Stored, Works, Early, Closing, Boxes, Clean
  <2> HIDE DEF nb
  <2> QED BY <1>1, <1>3, <2>1, <2>2, KeepsLease DEF NoFault
<1>4. CASE /\ ~(Holds(c) /\ lease.status = "CLAIMED" /\ ~lease.expired)
           /\ Become(c, MarkLost(b)) /\ NoFault
  <2>1. ~(lease.status = "CLAIMED" /\ lease.owner = c /\ lease.token = faults + 1)
    BY <1>1, <1>4 DEF Fits, Works, Holds
  <2> QED BY <1>1, <1>4, <2>1, LostStep
<1>5. CASE Become(c, MarkLost(b)) /\ Fault
  BY <1>1, <1>5, LostStep
<1> QED BY <1>3, <1>4, <1>5 DEF BeatReads

LEMMA BeatReadsBackStep ==
  ASSUME JobInv, NEW c \in Containers, BeatReadsBack(c)
  PROVE  JobInv'
<1> USE JobAssumption
<1> DEFINE b == box[c]
           nb == [b EXCEPT !.etag = Etag(lease), !.beat = Rearmed(b)]
           older == [b EXCEPT !.etag = b.seen, !.beat = Rearmed(b)]
<1>1. b \in Boxes /\ lease \in Docs /\ Fits(c, b, lease, faults) /\ b.beat = "renewed"
      /\ lease' = lease
  BY BoxFacts DEF BeatReadsBack
<1>2. CASE Become(c, nb) /\ NoFault
  <2>1. nb \in Boxes
    BY <1>1, EtagType DEF Rearmed, Boxes, Pcs
  <2>2. Fits(c, nb, lease, faults)
    BY <1>1 DEF Rearmed, Fits, Local, Behind, Stored, Works, Early, Closing, Boxes, Clean
  <2> HIDE DEF nb
  <2> QED BY <1>1, <1>2, <2>1, <2>2, KeepsLease DEF NoFault
<1>3. CASE Become(c, older) /\ Fault
  <2>1. older \in Boxes
    BY <1>1 DEF Rearmed, Boxes, Pcs
  <2>2. lease.token # faults' + 1
    BY <1>3, Faulted
  <2>3. Fits(c, older, lease, faults')
    BY <1>1, <2>2
       DEF Rearmed, Fits, Local, Behind, Stored, Works, Early, Closing, Boxes, Clean
  <2> HIDE DEF older
  <2> QED BY <1>1, <1>3, <2>1, <2>3, KeepsLease
<1>4. CASE Become(c, MarkLost(b)) /\ Fault
  BY <1>1, <1>4, LostStep
<1> QED BY <1>2, <1>3, <1>4 DEF BeatReadsBack

-----------------------------------------------------------------------------
(* The executor.                                                           *)

LEMMA OverdueStep ==
  ASSUME JobInv, NEW c \in Containers, Overdue(c)
  PROVE  JobInv'
<1> USE JobAssumption
<1> DEFINE b == box[c]
           nb == [b EXCEPT !.overdue = TRUE]
<1>1. b \in Boxes /\ lease \in Docs /\ Fits(c, b, lease, faults) /\ b.pc = "run"
      /\ Become(c, nb) /\ NoFault /\ lease' = lease
  BY BoxFacts DEF Overdue
<1>2. nb \in Boxes
  BY <1>1 DEF Boxes, Pcs
<1>3. Fits(c, nb, lease, faults)
  BY <1>1 DEF Fits, Local, Behind, Stored, Works, Early, Closing, Boxes
<1> HIDE DEF nb
<1> QED BY <1>1, <1>2, <1>3, KeepsLease DEF NoFault

LEMMA RequestStopStep ==
  ASSUME JobInv, NEW c \in Containers, NEW reason \in {"timeout", "cancel"},
         RequestStop(c, reason)
  PROVE  JobInv'
<1> USE JobAssumption
<1> DEFINE b == box[c]
           nb == [b EXCEPT !.stop = reason]
<1>1. b \in Boxes /\ lease \in Docs /\ Fits(c, b, lease, faults) /\ b.pc = "run"
      /\ Become(c, nb) /\ NoFault /\ lease' = lease
  BY BoxFacts DEF RequestStop
<1>2. nb \in Boxes
  BY <1>1 DEF Boxes, Pcs
<1>3. Fits(c, nb, lease, faults)
  BY <1>1 DEF Fits, Local, Behind, Stored, Works, Early, Closing, Boxes
<1> HIDE DEF nb
<1> QED BY <1>1, <1>2, <1>3, KeepsLease DEF NoFault

LEMMA ChildEndsStep ==
  ASSUME JobInv, NEW c \in Containers, ChildEnds(c)
  PROVE  JobInv'
<1> USE JobAssumption
<1> DEFINE b == box[c]
<1>1. PICK p \in {"result", "error"} : Become(c, [b EXCEPT !.proc = p])
  BY DEF ChildEnds
<1> DEFINE nb == [b EXCEPT !.proc = p]
<1>2. b \in Boxes /\ lease \in Docs /\ Fits(c, b, lease, faults) /\ b.proc = "alive"
      /\ Become(c, nb) /\ NoFault /\ lease' = lease
  BY <1>1, BoxFacts DEF ChildEnds
<1>3. nb \in Boxes
  BY <1>2 DEF Boxes, Pcs
<1>4. Fits(c, nb, lease, faults)
  BY <1>2 DEF Fits, Local, Behind, Stored, Works, Early, Closing, Boxes, Clean
<1> HIDE DEF nb
<1> QED BY <1>2, <1>3, <1>4, KeepsLease DEF NoFault

LEMMA LivenessUnknownStep ==
  ASSUME JobInv, NEW c \in Containers, LivenessUnknown(c)
  PROVE  JobInv'
<1> USE JobAssumption
<1> DEFINE b == box[c]
           nb == [b EXCEPT !.proc = "unknown"]
<1>1. b \in Boxes /\ lease \in Docs /\ Fits(c, b, lease, faults) /\ b.proc = "alive"
      /\ Become(c, nb) /\ Fault /\ lease' = lease /\ lease.token # faults' + 1
  BY BoxFacts, Faulted DEF LivenessUnknown
<1>2. nb \in Boxes
  BY <1>1 DEF Boxes, Pcs
<1>3. Fits(c, nb, lease, faults')
  BY <1>1 DEF Fits, Local, Behind, Stored, Works, Early, Closing, Boxes, Clean
<1> HIDE DEF nb
<1> QED BY <1>1, <1>2, <1>3, KeepsLease

LEMMA ExecuteStep ==
  ASSUME JobInv, NEW c \in Containers, Execute(c)
  PROVE  JobInv'
<1> USE JobAssumption
<1> DEFINE b == box[c]
           ab == AfterWait(b)
           nb == Disarmed(ab)
<1>1. b \in Boxes /\ lease \in Docs /\ Fits(c, b, lease, faults) /\ b.pc = "run"
      /\ b.proc # "alive" /\ Become(c, nb) /\ NoFault /\ lease' = lease
  BY BoxFacts DEF Execute
<1>2. /\ ab \in Boxes
      /\ ab.token = b.token /\ ab.seen = b.seen /\ ab.etag = b.etag
      /\ ab.beat = b.beat /\ ab.lost = b.lost /\ ab.stop = b.stop
      /\ ab.overdue = b.overdue /\ ab.proc = b.proc
      /\ \/ b.proc = "unknown" /\ ab.pc = "stuck" /\ ab.tries = b.tries
         \/ b.stop = "lease_lost" /\ ab.pc = "down" /\ ab.tries = b.tries
         \/ /\ b.proc # "unknown" /\ b.stop # "lease_lost"
            /\ ab.pc = "publish" /\ ab.tries = 0
            /\ ab.manifest = "COMPLETED" => Clean(b)
  <2>1. CASE b.proc = "unknown"
    BY <1>1, <2>1 DEF AfterWait, Boxes, Pcs
  <2>2. CASE b.proc # "unknown" /\ StopOf(b) = "lease_lost"
    BY <1>1, <2>2 DEF AfterWait, StopOf, Boxes, Pcs
  <2>3. CASE b.proc # "unknown" /\ StopOf(b) # "lease_lost"
    BY <1>1, <2>3 DEF AfterWait, StopOf, Boxes, Pcs, Clean
  <2> QED BY <2>1, <2>2, <2>3
<1> HIDE DEF ab
<1>3. /\ nb \in Boxes
      /\ nb.pc = ab.pc /\ nb.tries = ab.tries /\ nb.manifest = ab.manifest
      /\ nb.token = ab.token /\ nb.seen = ab.seen /\ nb.etag = ab.etag
      /\ nb.lost = ab.lost /\ nb.stop = ab.stop
      /\ nb.overdue = ab.overdue /\ nb.proc = ab.proc
      /\ nb.beat = IF ab.beat = "armed" THEN "off" ELSE ab.beat
  BY <1>2 DEF Disarmed, Boxes
<1> HIDE DEF nb
<1>4. Local(nb)
  BY <1>1, <1>2, <1>3 DEF Fits, Local, Early, Closing, Boxes, Clean
<1>5. Fits(c, nb, lease, faults)
  BY <1>1, <1>2, <1>3, <1>4 DEF Fits, Local, Behind, Stored, Works, Closing, Boxes
<1> QED BY <1>1, <1>3, <1>5, KeepsLease DEF NoFault

LEMMA CrashStep ==
  ASSUME JobInv, NEW c \in Containers, Crash(c)
  PROVE  JobInv'
<1> USE JobAssumption
<1> DEFINE b == box[c]
           nb == [b EXCEPT !.pc = "down", !.beat = "off",
                     !.proc = IF @ \in {"alive", "unknown"} THEN "killed" ELSE @]
<1>1. b \in Boxes /\ lease \in Docs /\ Fits(c, b, lease, faults) /\ b.pc # "down"
      /\ Become(c, nb) /\ Fault /\ lease' = lease /\ lease.token # faults' + 1
  BY BoxFacts, Faulted DEF Crash
<1>2. nb \in Boxes
  BY <1>1 DEF Boxes, Pcs
<1>3. Fits(c, nb, lease, faults')
  BY <1>1 DEF Fits, Local, Behind, Stored, Works, Early, Closing, Boxes, Clean
<1> HIDE DEF nb
<1> QED BY <1>1, <1>2, <1>3, KeepsLease

-----------------------------------------------------------------------------
(* The terminal, without its write.                                        *)

LEMMA PublishStep ==
  ASSUME JobInv, NEW c \in Containers, Publish(c)
  PROVE  JobInv'
<1> USE JobAssumption
<1> DEFINE b == box[c]
           lb == MarkLost(b)
           gone == [lb EXCEPT !.pc = "down"]
           put == [b EXCEPT !.pc = "put", !.fence = b.etag]
<1>1. b \in Boxes /\ lease \in Docs /\ Fits(c, b, lease, faults) /\ b.pc = "publish"
      /\ lease' = lease
  BY BoxFacts DEF Publish
<1>2. CASE (b.lost \/ ~Holds(c)) /\ Become(c, gone) /\ NoFault
  <2>1. /\ lb \in Boxes
        /\ lb.token = b.token /\ lb.tries = b.tries /\ lb.beat = "off"
        /\ lb.pc = b.pc /\ lb.proc = b.proc /\ lb.stop = b.stop
        /\ lb.overdue = b.overdue
    BY <1>1 DEF MarkLost, Boxes
  <2> HIDE DEF lb
  <2>2. gone \in Boxes
    BY <2>1 DEF Boxes, Pcs
  <2>3. Fits(c, gone, lease, faults)
    BY <1>1, <1>2, <2>1
       DEF Holds, Fits, Local, Behind, Stored, Works, Early, Closing, Boxes, Clean
  <2> HIDE DEF gone
  <2> QED BY <1>1, <1>2, <2>2, <2>3, KeepsLease DEF NoFault
<1>3. CASE ~b.lost /\ Become(c, put) /\ (NoFault \/ Fault)
  <2>1. put \in Boxes
    BY <1>1 DEF Boxes, Pcs
  <2>2. lease.token = faults' + 1 => faults' = faults
    BY <1>3, Faulted DEF NoFault
  <2>3. Fits(c, put, lease, faults')
    BY <1>1, <2>2 DEF Fits, Local, Behind, Stored, Works, Early, Closing, Boxes, Clean
  <2> HIDE DEF put
  <2> QED BY <1>1, <1>3, <2>1, <2>3, KeepsLease
<1> QED BY <1>2, <1>3 DEF Publish

LEMMA RereadTerminalStep ==
  ASSUME JobInv, NEW c \in Containers, RereadTerminal(c)
  PROVE  JobInv'
<1> USE JobAssumption
<1> DEFINE b == box[c]
           again == [b EXCEPT !.pc = "publish", !.tries = @ + 1]
           gone == [b EXCEPT !.pc = "down"]
<1>1. b \in Boxes /\ lease \in Docs /\ Fits(c, b, lease, faults) /\ b.pc = "reread"
      /\ lease' = lease
  BY BoxFacts DEF RereadTerminal
<1>2. CASE /\ lease.status # "TERMINAL" /\ Retries(b) /\ Become(c, again)
           /\ IF b.beat = "off" THEN NoFault ELSE Fault
  <2>0. b.tries + 1 \in Nat
    BY <1>1 DEF Boxes
  <2>1. again \in Boxes
    <3> DEFINE t == b.tries + 1
    <3>1. t \in Nat /\ again = [b EXCEPT !.pc = "publish", !.tries = t]
      BY <1>1, <2>0 DEF Boxes
    <3> HIDE DEF t
    <3> QED BY <1>1, <3>1 DEF Boxes, Pcs
  <2>2. lease.token = faults' + 1 => faults' = faults /\ b.beat = "off"
    BY <1>2, Faulted DEF NoFault
  <2>3. Fits(c, again, lease, faults')
    BY <1>1, <1>2, <2>2
       DEF Retries, Fits, Local, Behind, Stored, Works, Early, Closing, Boxes, Clean
  <2> HIDE DEF again
  <2> QED BY <1>1, <1>2, <2>1, <2>3, KeepsLease
<1>3. CASE ~(lease.status # "TERMINAL" /\ Retries(b)) /\ Become(c, gone) /\ NoFault
  <2>1. gone \in Boxes
    BY <1>1 DEF Boxes, Pcs
  <2>2. Fits(c, gone, lease, faults)
    BY <1>1, <1>3
       DEF Retries, Fits, Local, Behind, Stored, Works, Early, Closing, Boxes, Clean
  <2> HIDE DEF gone
  <2> QED BY <1>1, <1>3, <2>1, <2>2, KeepsLease DEF NoFault
<1>4. CASE Retries(b) /\ Become(c, again) /\ Fault
  <2>1. again \in Boxes
    <3> DEFINE t == b.tries + 1
    <3>1. t \in Nat /\ again = [b EXCEPT !.pc = "publish", !.tries = t]
      BY <1>1 DEF Boxes
    <3> HIDE DEF t
    <3> QED BY <1>1, <3>1 DEF Boxes, Pcs
  <2>2. lease.token # faults' + 1
    BY <1>4, Faulted
  <2>3. Fits(c, again, lease, faults')
    BY <1>1, <1>4, <2>2
       DEF Retries, Fits, Local, Behind, Stored, Works, Early, Closing, Boxes, Clean
  <2> HIDE DEF again
  <2> QED BY <1>1, <1>4, <2>1, <2>3, KeepsLease
<1>5. CASE Become(c, gone) /\ Fault
  <2>1. gone \in Boxes
    BY <1>1 DEF Boxes, Pcs
  <2>2. lease.token # faults' + 1
    BY <1>5, Faulted
  <2>3. Fits(c, gone, lease, faults')
    BY <1>1, <2>2 DEF Fits, Local, Behind, Stored, Works, Early, Closing, Boxes, Clean
  <2> HIDE DEF gone
  <2> QED BY <1>1, <1>5, <2>1, <2>3, KeepsLease
<1> QED BY <1>2, <1>3, <1>4, <1>5 DEF RereadTerminal

-----------------------------------------------------------------------------
(* The conditional writes.                                                 *)

LEMMA ChangesLease ==
  ASSUME JobInv, NEW c \in Containers, NEW nb \in Boxes, NEW nd \in Docs,
         Become(c, nb), lease' = nd, NoFault \/ Fault,
         DocOK(nd, faults'), Fits(c, nb, nd, faults'),
         \A x \in Containers \ {c} : Fits(x, box[x], nd, faults')
  PROVE  JobInv'
<1>1. faults' \in 0 .. MaxFaults
  BY JobAssumption DEF JobInv, NoFault, Fault
<1>2. box' \in [Containers -> Boxes]
  BY DEF Become, JobInv
<1>3. ASSUME NEW x \in Containers
      PROVE  Fits(x, box'[x], nd, faults')
  BY DEF Become, JobInv
<1> QED BY <1>1, <1>2, <1>3 DEF JobInv

\* A claim that was read as free and still has the same etag is free, and one
\* claim more than faults is possible.
LEMMA TakenDoc ==
  ASSUME JobInv, NEW c \in Containers, box[c].pc = "take", Etag(lease) = box[c].seen
  PROVE  /\ ClaimedBy(c) \in Docs /\ lease.token \in Nat
         /\ lease.token <= faults
         /\ DocOK(ClaimedBy(c), faults)
<1> USE JobAssumption
<1>1. box[c] \in Boxes /\ lease \in Docs /\ DocOK(lease, faults)
      /\ Fits(c, box[c], lease, faults)
      /\ \A x \in Containers : Fits(x, box[x], lease, faults)
  BY BoxFacts DEF JobInv
<1>2. faults \in 0 .. MaxFaults
  BY DEF JobInv
<1>3. Free(lease)
  BY <1>1 DEF Fits, Behind
<1>4. lease.token \in Nat /\ lease.token <= faults
  BY <1>1, <1>2, <1>3 DEF Free, DocOK, Fits, Docs, Tokens
<1>5. ClaimedBy(c) \in Docs
  BY <1>2, <1>4 DEF ClaimedBy, Docs, Tokens
<1>6. DocOK(ClaimedBy(c), faults)
  BY <1>2, <1>4 DEF ClaimedBy, DocOK
<1> QED BY <1>4, <1>5, <1>6

\* A takeover leaves every other container behind.
LEMMA TakenOthers ==
  ASSUME JobInv, NEW c \in Containers, NEW x \in Containers, lease.token \in Nat,
         ClaimedBy(c) \in Docs, NEW n \in Int, x # c
  PROVE  Fits(x, box[x], ClaimedBy(c), n)
<1> USE JobAssumption
<1>1. box[x] \in Boxes /\ lease \in Docs /\ Fits(x, box[x], lease, faults)
  BY BoxFacts
<1>2. /\ ClaimedBy(c).token = lease.token + 1 /\ ClaimedBy(c).owner = c
      /\ ClaimedBy(c).status = "CLAIMED"
  BY DEF ClaimedBy
<1>3. Etag(ClaimedBy(c))[1] = lease.token + 1
  BY <1>2, EtagType
<1>4. box[x].token \in Int /\ (box[x].pc = "take" => box[x].seen[1] \in Int)
  BY <1>1 DEF Boxes, Tokens, Etags
<1>5. Behind(x, box[x], ClaimedBy(c))
  <2>1. box[x].token <= lease.token
    BY <1>1 DEF Fits, Behind
  <2>2. box[x].pc = "take" => box[x].seen[1] <= lease.token
    BY <1>1, <1>4 DEF Fits, Behind
  <2>3. box[x].pc = "take" => box[x].seen # Etag(ClaimedBy(c))
    BY <1>3, <1>4, <2>2
  <2> QED BY <1>2, <1>4, <2>1, <2>2, <2>3 DEF Behind
<1> QED BY <1>1, <1>2, <1>5 DEF Fits

LEMMA TakeStep ==
  ASSUME JobInv, NEW c \in Containers, Take(c)
  PROVE  JobInv'
<1> USE JobAssumption
<1> DEFINE b == box[c]
           mine == [b EXCEPT !.pc = "claimed", !.token = lease.token + 1]
           again == [b EXCEPT !.pc = "again", !.tries = @ + 1]
<1>1. b \in Boxes /\ lease \in Docs /\ Fits(c, b, lease, faults) /\ b.pc = "take"
      /\ faults \in Int
  BY BoxFacts DEF Take
<1>2. CASE Etag(lease) = b.seen /\ lease' = ClaimedBy(c) /\ Become(c, mine) /\ NoFault
  <2>1. /\ ClaimedBy(c) \in Docs /\ lease.token \in Nat /\ DocOK(ClaimedBy(c), faults)
    BY <1>1, <1>2, TakenDoc
  <2>2. lease.token + 1 \in Tokens
    BY <2>1 DEF ClaimedBy, Docs
  <2>3. mine \in Boxes
    BY <1>1, <2>2 DEF Boxes, Pcs
  <2>4. Fits(c, mine, ClaimedBy(c), faults)
    BY <1>1, <2>1, <2>2
       DEF ClaimedBy, Fits, Local, Behind, Stored, Works, Early, Closing, Boxes
  <2>5. \A x \in Containers \ {c} : Fits(x, box[x], ClaimedBy(c), faults)
    BY <1>1, <2>1, TakenOthers
  <2> HIDE DEF mine
  <2> QED BY <1>2, <2>1, <2>3, <2>4, <2>5, ChangesLease DEF NoFault
<1>3. CASE /\ Etag(lease) # b.seen /\ lease' = lease /\ NoFault
           /\ b.tries + 1 < ClaimAttempts /\ Become(c, again)
  <2>0. b.tries + 1 \in Nat
    BY <1>1 DEF Boxes
  <2>1. again \in Boxes
    <3> DEFINE t == b.tries + 1
    <3>1. t \in Nat /\ again = [b EXCEPT !.pc = "again", !.tries = t]
      BY <1>1, <2>0 DEF Boxes
    <3> HIDE DEF t
    <3> QED BY <1>1, <3>1 DEF Boxes, Pcs
  <2>2. Fits(c, again, lease, faults)
    BY <1>1, <1>3 DEF Fits, Local, Behind, Stored, Works, Early, Closing, Boxes
  <2> HIDE DEF again
  <2> QED BY <1>3, <2>1, <2>2, KeepsLease DEF NoFault
<1>4. CASE /\ lease' = lease /\ NoFault /\ Etag(lease) # b.seen
           /\ Become(c, Raised(b))
  <2>1. Raised(b) \in Boxes
    BY <1>1 DEF Raised, Boxes, Pcs
  <2>2. Fits(c, Raised(b), lease, faults)
    BY <1>1 DEF Raised, Fits, Local, Behind, Stored, Works, Early, Closing, Boxes
  <2> QED BY <1>4, <2>1, <2>2, KeepsLease DEF NoFault
<1>5. CASE Raise(c) /\ lease' = lease
  BY <1>1, <1>5, RaiseStep DEF Early
<1>6. CASE Raise(c) /\ Etag(lease) = b.seen /\ lease' = ClaimedBy(c)
  <2>1. /\ ClaimedBy(c) \in Docs /\ lease.token \in Nat /\ DocOK(ClaimedBy(c), faults)
        /\ lease.token <= faults
    BY <1>1, <1>6, TakenDoc
  <2>2. Fault /\ faults' = faults + 1 /\ faults' \in Int
    BY <1>1, <1>6, RaiseOutcome DEF Fault
  <2>3. DocOK(ClaimedBy(c), faults')
    BY <1>1, <2>1, <2>2 DEF DocOK, ClaimedBy
  <2>4. PICK w \in BOOLEAN : Become(c, [Raised(b) EXCEPT !.watch = w])
    BY <1>6, RaiseOutcome
  <2> DEFINE nb == [Raised(b) EXCEPT !.watch = w]
  <2>5. nb \in Boxes /\ Fits(c, nb, ClaimedBy(c), faults')
    <3>1. b.token <= lease.token /\ b.token \in Int /\ b.seen[1] \in Int
          /\ b.seen[1] <= lease.token
      BY <1>1, <1>6, EtagType DEF Fits, Behind, Boxes, Tokens, Etags
    <3>2. Etag(ClaimedBy(c))[1] = lease.token + 1 /\ ClaimedBy(c).token = lease.token + 1
          /\ ClaimedBy(c).status = "CLAIMED"
      BY <2>1, EtagType DEF ClaimedBy
    <3>3. Behind(c, b, ClaimedBy(c))
      BY <2>1, <3>1, <3>2 DEF Behind
    <3>4. ClaimedBy(c).token # faults' + 1
      BY <1>1, <2>1, <2>2, <3>2
    <3> QED BY <1>1, <2>1, <2>2, <3>2, <3>3, <3>4, RaisedFits DEF Early
  <2>6. \A x \in Containers \ {c} : Fits(x, box[x], ClaimedBy(c), faults')
    BY <1>1, <2>1, <2>2, TakenOthers
  <2> HIDE DEF nb
  <2>7. Become(c, nb)
    BY <2>4 DEF nb
  <2> QED BY <1>6, <2>1, <2>2, <2>3, <2>5, <2>6, <2>7, ChangesLease
<1> QED BY <1>2, <1>3, <1>4, <1>5, <1>6 DEF Take

\* The renewed document: only the number of heartbeats grows.
LEMMA RenewedDoc ==
  ASSUME JobInv, NEW c \in Containers, box[c].beat = "sent", Etag(lease) = box[c].seen
  PROVE  LET nd == [lease EXCEPT !.beat = @ + 1]
         IN  /\ nd \in Docs /\ nd.beat = lease.beat + 1
             /\ nd.token = lease.token /\ nd.owner = lease.owner
             /\ nd.status = lease.status /\ nd.expired = lease.expired
             /\ nd.result = lease.result
             /\ lease.owner = c /\ lease.status = "CLAIMED"
<1> USE JobAssumption
<1>1. box[c] \in Boxes /\ lease \in Docs /\ Fits(c, box[c], lease, faults)
  BY BoxFacts
<1>2. lease.beat < MaxBeats /\ lease.status = "CLAIMED" /\ lease.token = box[c].token
      /\ box[c].token > 0
  BY <1>1, EtagType DEF Fits, Local
<1>3. lease.owner = c
  BY <1>1, <1>2 DEF Fits, Behind
<1> DEFINE t == lease.beat + 1
<1>4. t \in 0 .. MaxBeats
  BY <1>1, <1>2 DEF Docs
<1> HIDE DEF t
<1>5. [lease EXCEPT !.beat = t] \in Docs
  BY <1>1, <1>4 DEF Docs
<1> QED BY <1>1, <1>2, <1>3, <1>5 DEF Docs, t

\* The renewal of one container leaves every other one behind.
LEMMA RenewedOthers ==
  ASSUME JobInv, NEW x \in Containers, NEW nd \in Docs, NEW n \in Int,
         nd.beat = lease.beat + 1, nd.token = lease.token, nd.owner = lease.owner,
         nd.status = "CLAIMED", lease.owner # x
  PROVE  Fits(x, box[x], nd, n)
<1> USE JobAssumption
<1>1. box[x] \in Boxes /\ lease \in Docs /\ Fits(x, box[x], lease, faults)
  BY BoxFacts
<1>2. lease.token \in Int /\ lease.beat \in Int /\ box[x].token \in Int
      /\ box[x].seen[1] \in Int /\ box[x].seen[2] \in Int
  BY <1>1 DEF Boxes, Docs, Tokens, Etags
<1>3. Etag(nd)[1] = lease.token /\ Etag(nd)[2] = lease.beat + 1
  BY EtagType
<1>4. Behind(x, box[x], nd)
  BY <1>1, <1>2, <1>3 DEF Fits, Behind
<1> QED BY <1>1, <1>4 DEF Fits

\* A write of the heartbeat that took effect.
LEMMA RenewedStep ==
  ASSUME JobInv, NEW c \in Containers, NEW nb \in Boxes, box[c].beat = "sent",
         Etag(lease) = box[c].seen, ~lease.expired,
         lease' = [lease EXCEPT !.beat = @ + 1], Become(c, nb),
         Local(nb), nb.token = box[c].token, nb.pc = box[c].pc,
         \/ Fault
         \/ /\ NoFault
            /\ nb.beat = "renewed" /\ nb.lost = box[c].lost /\ nb.proc = box[c].proc
            /\ nb.stop = box[c].stop /\ nb.tries = box[c].tries
  PROVE  JobInv'
<1> USE JobAssumption
<1> DEFINE b == box[c]
           nd == [lease EXCEPT !.beat = @ + 1]
<1>1. b \in Boxes /\ lease \in Docs /\ Fits(c, b, lease, faults) /\ DocOK(lease, faults)
      /\ faults \in Int /\ lease.token \in Int
  BY BoxFacts
<1>2. /\ nd \in Docs /\ nd.beat = lease.beat + 1
      /\ nd.token = lease.token /\ nd.owner = lease.owner
      /\ nd.status = lease.status /\ nd.expired = lease.expired
      /\ nd.result = lease.result
      /\ lease.owner = c /\ lease.status = "CLAIMED"
  BY RenewedDoc
<1> HIDE DEF nd
<1>3. faults' \in Int /\ (faults' = faults \/ faults' = faults + 1)
  BY <1>1 DEF NoFault, Fault
<1>4. DocOK(nd, faults')
  BY <1>1, <1>2, <1>3 DEF DocOK
<1>5. Behind(c, nb, nd)
  BY <1>1, <1>2 DEF Fits, Behind, Local, Early
<1>6. nd.token = faults' + 1 => NoFault
  BY <1>2, Faulted
<1>7. Fits(c, nb, nd, faults')
  <2>1. ASSUME nd.token = faults' + 1
        PROVE  Works(nb, nd)
    <3>1. faults' = faults /\ nb.beat = "renewed" /\ nb.lost = b.lost
          /\ nb.proc = b.proc /\ nb.stop = b.stop /\ nb.tries = b.tries
      BY <1>6, <2>1, Faulted, <1>2 DEF NoFault
    <3>2. Works(b, lease)
      BY <1>1, <1>2, <2>1, <3>1 DEF Fits
    <3>3. ~(b.pc \in Closing /\ b.tries > 0)
      BY <3>2 DEF Works
    <3> QED BY <1>2, <3>1, <3>2, <3>3 DEF Works
  <2> QED BY <1>2, <1>5, <2>1 DEF Fits
<1>8. \A x \in Containers \ {c} : Fits(x, box[x], nd, faults')
  BY <1>2, <1>3, RenewedOthers
<1> QED BY <1>2, <1>4, <1>7, <1>8, ChangesLease DEF nd

LEMMA BeatWritesStep ==
  ASSUME JobInv, NEW c \in Containers, BeatWrites(c)
  PROVE  JobInv'
<1> USE JobAssumption
<1> DEFINE b == box[c]
           nd == [lease EXCEPT !.beat = @ + 1]
           nb == [b EXCEPT !.beat = "renewed"]
           accepted == Etag(lease) = b.seen /\ ~lease.expired
<1>1. b \in Boxes /\ lease \in Docs /\ Fits(c, b, lease, faults) /\ b.beat = "sent"
      /\ faults \in Int
  BY BoxFacts DEF BeatWrites
<1>2. CASE accepted /\ lease' = nd /\ Become(c, nb) /\ NoFault
  <2>1. nb \in Boxes
    BY <1>1 DEF Boxes
  <2>2. /\ Local(nb) /\ nb.token = b.token /\ nb.pc = b.pc
        /\ nb.beat = "renewed" /\ nb.lost = b.lost /\ nb.proc = b.proc
        /\ nb.stop = b.stop /\ nb.tries = b.tries
    BY <1>1 DEF Fits, Local, Early, Closing, Boxes, Clean
  <2> HIDE DEF nb
  <2> QED BY <1>1, <1>2, <2>1, <2>2, RenewedStep
<1>3. CASE ~accepted /\ Become(c, MarkLost(b)) /\ NoFault /\ lease' = lease
  <2>1. ~(lease.status = "CLAIMED" /\ lease.owner = c /\ lease.token = faults + 1)
    BY <1>1, <1>3 DEF Fits, Works
  <2> QED BY <1>1, <1>3, <2>1, LostStep
<1>4. CASE Fault /\ Become(c, MarkLost(b)) /\ lease' = lease
  BY <1>1, <1>4, LostStep
<1>5. CASE Fault /\ Become(c, MarkLost(b)) /\ accepted /\ lease' = nd
  <2>1. MarkLost(b) \in Boxes
    BY <1>1 DEF MarkLost, Boxes, Pcs
  <2>2. Local(MarkLost(b)) /\ MarkLost(b).token = b.token /\ MarkLost(b).pc = b.pc
    BY <1>1 DEF MarkLost, Fits, Local, Early, Closing, Boxes, Clean
  <2> QED BY <1>1, <1>5, <2>1, <2>2, RenewedStep
<1> QED BY <1>2, <1>3, <1>4, <1>5 DEF BeatWrites

\* The document with the terminal of a container that may store it.
LEMMA TerminalDoc ==
  ASSUME JobInv, NEW c \in Containers, AllowsTerminal(c)
  PROVE  /\ TerminalOf(c) \in Docs
         /\ TerminalOf(c).status = "TERMINAL"
         /\ TerminalOf(c).result = box[c].manifest
         /\ TerminalOf(c).owner = c /\ lease.owner = c
         /\ TerminalOf(c).token = lease.token /\ lease.token > 0
         /\ TerminalOf(c).beat = lease.beat
<1>1. box[c] \in Boxes /\ lease \in Docs /\ DocOK(lease, faults)
  BY BoxFacts
<1>2. box[c].manifest \in {"NONE", "COMPLETED", "FAILED"}
  BY <1>1 DEF Boxes
<1> QED BY <1>1, <1>2 DEF AllowsTerminal, Holds, TerminalOf, Docs, DocOK

\* A write of the terminal that took effect.
LEMMA StoredStep ==
  ASSUME JobInv, NEW c \in Containers, NEW nb \in Boxes, box[c].pc = "put",
         AllowsTerminal(c), lease' = TerminalOf(c), Become(c, nb), NoFault \/ Fault,
         Local(nb), nb.token = box[c].token, nb.pc \in {"reread", "down"},
         nb.proc = box[c].proc, nb.stop = box[c].stop, nb.overdue = box[c].overdue
  PROVE  JobInv'
<1> USE JobAssumption
<1> DEFINE b == box[c]
           nd == TerminalOf(c)
<1>1. b \in Boxes /\ lease \in Docs /\ Fits(c, b, lease, faults) /\ DocOK(lease, faults)
      /\ faults \in Int /\ lease.token \in Int
  BY BoxFacts
<1>2. /\ nd \in Docs /\ nd.status = "TERMINAL" /\ nd.result = b.manifest
      /\ nd.owner = c /\ lease.owner = c
      /\ nd.token = lease.token /\ lease.token > 0 /\ nd.beat = lease.beat
  BY TerminalDoc
<1> HIDE DEF nd
<1>3. faults' \in Int /\ (faults' = faults \/ faults' = faults + 1)
  BY <1>1 DEF NoFault, Fault
<1>4. DocOK(nd, faults')
  BY <1>1, <1>2, <1>3 DEF DocOK
<1>5. Stored(nb, nd)
  BY <1>1, <1>2 DEF AllowsTerminal, Holds, Fits, Local, Closing, Stored, Clean
<1>6. Fits(c, nb, nd, faults')
  BY <1>1, <1>2, <1>5 DEF Fits, Behind
<1>7. ASSUME NEW x \in Containers, x # c
      PROVE  Fits(x, box[x], nd, faults')
  <2>1. box[x] \in Boxes /\ Fits(x, box[x], lease, faults)
    BY BoxFacts
  <2>2. box[x].pc = "take" => box[x].seen[3] # "TERMINAL"
    BY <2>1 DEF Fits, Local
  <2>3. Etag(nd)[3] = "TERMINAL"
    BY <1>2, EtagType
  <2>4. Behind(x, box[x], nd)
    BY <1>2, <2>1, <2>2, <2>3 DEF Fits, Behind
  <2> QED BY <1>2, <1>7, <2>1, <2>4 DEF Fits
<1>8. \A x \in Containers \ {c} : Fits(x, box[x], nd, faults')
  BY <1>7
<1> QED BY <1>2, <1>4, <1>6, <1>8, ChangesLease DEF nd

LEMMA PutTerminalStep ==
  ASSUME JobInv, NEW c \in Containers, PutTerminal(c)
  PROVE  JobInv'
<1> USE JobAssumption
<1> DEFINE b == box[c]
           down == [b EXCEPT !.pc = "down"]
           reread == [b EXCEPT !.pc = "reread"]
<1>1. b \in Boxes /\ lease \in Docs /\ Fits(c, b, lease, faults) /\ b.pc = "put"
  BY BoxFacts DEF PutTerminal
<1>2. /\ down \in Boxes /\ Local(down) /\ down.token = b.token /\ down.pc = "down"
      /\ down.proc = b.proc /\ down.stop = b.stop /\ down.overdue = b.overdue
  BY <1>1 DEF Boxes, Pcs, Fits, Local, Early, Closing
<1>3. /\ reread \in Boxes /\ Local(reread) /\ reread.token = b.token
      /\ reread.pc = "reread" /\ reread.beat = b.beat /\ reread.lost = b.lost
      /\ reread.etag = b.etag /\ reread.seen = b.seen /\ reread.tries = b.tries
      /\ reread.proc = b.proc /\ reread.stop = b.stop /\ reread.overdue = b.overdue
  BY <1>1 DEF Boxes, Pcs, Fits, Local, Early, Closing, Clean
<1> HIDE DEF down, reread
<1>4. CASE AllowsTerminal(c) /\ lease' = TerminalOf(c) /\ Become(c, down) /\ NoFault
  BY <1>1, <1>2, <1>4, StoredStep
<1>5. CASE lease.status = "TERMINAL" /\ Holds(c) /\ Become(c, down) /\ NoFault /\ lease' = lease
  <2>1. Fits(c, down, lease, faults)
    BY <1>1, <1>2, <1>5 DEF Fits, Behind, Stored, Holds, Clean
  <2> QED BY <1>2, <1>5, <2>1, KeepsLease DEF NoFault
<1>6. CASE /\ ~AllowsTerminal(c) /\ ~(lease.status = "TERMINAL" /\ Holds(c))
           /\ Become(c, reread) /\ NoFault /\ lease' = lease
  <2>1. /\ lease.status = "CLAIMED" /\ lease.owner = c /\ lease.token = faults + 1
        => ~lease.expired /\ Works(b, lease)
    BY <1>1 DEF Fits
  <2>2. lease.status = "CLAIMED" /\ lease.owner = c /\ lease.token = faults + 1
        => Works(reread, lease)
    <3> SUFFICES ASSUME lease.status = "CLAIMED", lease.owner = c, lease.token = faults + 1
                 PROVE  Works(reread, lease)
      OBVIOUS
    <3>1. b.fence # Etag(lease)
      BY <1>1, <1>6, <2>1 DEF Works, AllowsTerminal, Holds
    <3>2. b.tries = 0
      BY <1>1, <2>1, <3>1 DEF Works, Closing, Boxes
    <3> QED BY <1>1, <1>3, <2>1, <3>2 DEF Works, Closing
  <2>3. lease.status = "TERMINAL" /\ lease.owner = c => FALSE
    BY <1>1, <1>6 DEF Fits, Stored, Holds
  <2>4. Fits(c, reread, lease, faults)
    BY <1>1, <1>3, <2>1, <2>2, <2>3 DEF Fits, Behind
  <2> QED BY <1>3, <1>6, <2>4, KeepsLease DEF NoFault
<1>7. CASE Fault /\ Become(c, reread) /\ lease' = lease
  <2>1. lease.token # faults' + 1
    BY <1>7, Faulted
  <2>2. Fits(c, reread, lease, faults')
    BY <1>1, <1>3, <2>1 DEF Fits, Behind, Stored, Closing, Clean
  <2> QED BY <1>3, <1>7, <2>2, KeepsLease
<1>8. CASE Fault /\ Become(c, reread) /\ AllowsTerminal(c) /\ lease' = TerminalOf(c)
  BY <1>1, <1>3, <1>8, StoredStep
<1>9. CASE Fault /\ Become(c, down) /\ lease' = lease
  <2>1. lease.token # faults' + 1
    BY <1>9, Faulted
  <2>2. Fits(c, down, lease, faults')
    BY <1>1, <1>2, <2>1 DEF Fits, Behind, Stored, Clean
  <2> QED BY <1>2, <1>9, <2>2, KeepsLease
<1> QED BY <1>4, <1>5, <1>6, <1>7, <1>8, <1>9 DEF PutTerminal, down, reread

LEMMA ExpireStep ==
  ASSUME JobInv, Expire
  PROVE  JobInv'
<1> USE JobAssumption
<1> DEFINE nd == [lease EXCEPT !.expired = TRUE]
<1>1. lease \in Docs /\ DocOK(lease, faults) /\ faults \in 0 .. MaxFaults
      /\ box \in [Containers -> Boxes] /\ faults \in Int /\ lease.token \in Int
  BY DEF JobInv, Docs, Tokens
<1>2. /\ nd \in Docs /\ nd.token = lease.token /\ nd.owner = lease.owner
      /\ nd.status = "CLAIMED" /\ lease.status = "CLAIMED" /\ nd.beat = lease.beat
      /\ nd.expired = TRUE /\ nd.result = lease.result
      /\ lease' = nd /\ box' = box
  BY <1>1 DEF Expire, Docs
<1>3. Etag(nd) = Etag(lease)
  BY <1>2 DEF Etag
<1> HIDE DEF nd
<1>4. lease.owner \in Containers
  BY <1>1, <1>2 DEF DocOK
<1>5. Fits(lease.owner, box[lease.owner], lease, faults)
  BY <1>4 DEF JobInv
<1>6. faults' \in 0 .. MaxFaults /\ faults' \in Int
      /\ (faults' = faults \/ faults' = faults + 1)
  BY <1>1 DEF Expire, NoFault, Fault
<1>7. lease.token # faults' + 1
  <2>1. CASE Fault
    BY <2>1, Faulted
  <2>2. CASE ~Attended /\ NoFault
    <3>1. ~Works(box[lease.owner], lease)
      BY <1>4, <2>2 DEF Attended, Holds, Works, Closing
    <3> QED BY <1>2, <1>5, <2>2, <3>1 DEF Fits, NoFault
  <2> QED BY <2>1, <2>2 DEF Expire
<1>8. DocOK(nd, faults')
  BY <1>1, <1>2, <1>6 DEF DocOK
<1>9. ASSUME NEW c \in Containers
      PROVE  Fits(c, box[c], nd, faults')
  <2>1. Fits(c, box[c], lease, faults)
    BY DEF JobInv
  <2>2. Behind(c, box[c], nd)
    BY <1>2, <1>3, <2>1 DEF Fits, Behind, Free
  <2> QED BY <1>2, <1>7, <2>1, <2>2 DEF Fits
<1> QED BY <1>1, <1>2, <1>6, <1>8, <1>9 DEF JobInv

-----------------------------------------------------------------------------
LEMMA JobNext == JobInv /\ [Next]_vars => JobInv'
<1> SUFFICES ASSUME JobInv, [Next]_vars PROVE JobInv'
  OBVIOUS
<1>1. ASSUME NEW c \in Containers, MainThread(c)
      PROVE  JobInv'
  <2>1. CASE ClaimAgain(c)
    BY <2>1, ReadLeaseStep DEF ClaimAgain
  <2> QED BY <1>1, <2>1, TakeStep, ReadBackStep, WriteStageStep, ExecuteStep, PublishStep,
             PutTerminalStep, RereadTerminalStep DEF MainThread
<1>2. ASSUME NEW c \in Containers, HeartbeatThread(c)
      PROVE  JobInv'
  BY <1>2, BeatReadsStep, BeatWritesStep, BeatReadsBackStep DEF HeartbeatThread
<1>3. ASSUME NEW c \in Containers, Recover(c)
      PROVE  JobInv'
  BY <1>3, ReadLeaseStep DEF Recover
<1>4. ASSUME NEW c \in Containers, expire(c) \/ cancel(c)
      PROVE  JobInv'
  BY <1>4, RequestStopStep DEF expire, cancel
<1>5. CASE UNCHANGED vars
  BY <1>5 DEF vars, JobInv
<1> QED BY <1>1, <1>2, <1>3, <1>4, <1>5, SubmitStep, OverdueStep, ChildEndsStep,
           LivenessUnknownStep, CrashStep, ExpireStep DEF Next

\* The job, with or without fairness: JobInv holds throughout, for any number
\* of containers, heartbeats and faults and any limits on the attempts.
THEOREM JobCorrect == Spec => []JobInv
BY JobInit, JobNext, PTL DEF Spec

\* TypeOK: no counter passes its limit, and a lease is taken over at most once
\* per fault (_claim_controlled_lease, _publish_controlled_terminal): without
\* crashes, failed requests and stalls the first claim is the only one.
THEOREM JobTypeOK == Spec => []TypeOK
BY JobCorrect, JobInvImplies, PTL

\* TerminalIsQuiescent: the container whose terminal is stored has no process
\* that runs or may still run (JobProcessSupervisor.wait before _execute
\* publishes), through any takeovers.
THEOREM JobTerminalIsQuiescent == Spec => []TerminalIsQuiescent
BY JobCorrect, JobInvImplies, PTL

\* CompletedIsClean: COMPLETED is stored only for a child that returned its
\* result in time and was never stopped (_execute, the manifest).
THEOREM JobCompletedIsClean == Spec => []CompletedIsClean
BY JobCorrect, JobInvImplies, PTL

\* A stored terminal is final: no takeover, heartbeat or second terminal of any
\* container, however late its conditional write arrives, changes the document.
TerminalIsFinal == [][lease.status = "TERMINAL" => lease' = lease]_vars

LEMMA FinalStep ==
  ASSUME JobInv, [Next]_vars, lease.status = "TERMINAL"
  PROVE  lease' = lease
<1>1. ASSUME NEW c \in Containers
      PROVE  box[c] \in Boxes /\ lease \in Docs /\ Local(box[c]) /\ Etag(lease)[3] = "TERMINAL"
  BY BoxFacts, EtagType DEF Fits
<1>2. ASSUME NEW c \in Containers, Take(c)
      PROVE  lease' = lease
  <2>1. Etag(lease) # box[c].seen
    BY <1>1, <1>2 DEF Take, Local
  <2> QED BY <1>2, <2>1 DEF Take
<1>3. ASSUME NEW c \in Containers, BeatWrites(c)
      PROVE  lease' = lease
  <2>1. Etag(lease) # box[c].seen
    BY <1>1, <1>3 DEF BeatWrites, Local
  <2> QED BY <1>3, <2>1 DEF BeatWrites
<1>4. ASSUME NEW c \in Containers, PutTerminal(c)
      PROVE  lease' = lease
  BY <1>4 DEF PutTerminal, AllowsTerminal
<1>5. ASSUME NEW c \in Containers, MainThread(c)
      PROVE  lease' = lease
  BY <1>2, <1>4, <1>5 DEF MainThread, ClaimAgain, ReadLease, ReadBack, WriteStage, Execute,
                          Publish, RereadTerminal
<1>6. ASSUME NEW c \in Containers, HeartbeatThread(c)
      PROVE  lease' = lease
  BY <1>3, <1>6 DEF HeartbeatThread, BeatReads, BeatReadsBack
<1>7. ASSUME NEW c \in Containers,
             \/ Submit(c) \/ Recover(c) \/ Overdue(c) \/ expire(c) \/ cancel(c)
             \/ ChildEnds(c) \/ LivenessUnknown(c) \/ Crash(c)
      PROVE  lease' = lease
  BY <1>7 DEF Submit, Recover, ReadLease, Overdue, expire, cancel, RequestStop, ChildEnds,
              LivenessUnknown, Crash
<1>8. CASE Expire
  BY <1>8 DEF Expire
<1>9. CASE UNCHANGED vars
  BY <1>9 DEF vars
<1> QED BY <1>5, <1>6, <1>7, <1>8, <1>9 DEF Next

\* TerminalIsFinal holds for any number of containers, faults and attempts.
THEOREM JobTerminalIsFinal == Spec => TerminalIsFinal
<1>1. JobInv /\ [Next]_vars => [lease.status = "TERMINAL" => lease' = lease]_vars
  BY FinalStep
<1> QED BY <1>1, JobCorrect, PTL DEF Spec, TerminalIsFinal
============================================================================
