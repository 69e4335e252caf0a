---------------------------- MODULE ControlledJob ----------------------------
(***************************************************************************)
(* One Controlled Pilot job, run by research containers that share one     *)
(* lease document in R2:                                                   *)
(*                                                                         *)
(*   container/personal_research_service.py   JobManager                   *)
(*   container/job_process_supervisor.py      JobProcessSupervisor         *)
(*                                                                         *)
(* The lease document is changed only by conditional writes; storing the   *)
(* terminal turns the same document into TERMINAL.  An etag is the content *)
(* it stands for: fencing token, number of heartbeats and status.  Every   *)
(* read and every write of a container is a step of its own, the main      *)
(* thread and the heartbeat timer of a container interleave.  A write can  *)
(* fail before or after it took effect; a read can be refused, which       *)
(* raises, or fail, which looks like an absent document (_get_json_at).    *)
(***************************************************************************)
EXTENDS Integers, FiniteSets

CONSTANTS
    Containers,
    ClaimAttempts,  \* attempts of _claim_controlled_lease (4 in the code)
    PutAttempts,    \* _MAX_TERMINAL_PUT_ATTEMPTS (12 in the code)
    MaxBeats,       \* bound: heartbeats of one claim
    MaxFaults,      \* bound: crashes, failed requests, stalls
    Nobody

\* More than one attempt at the terminal: the first may meet a heartbeat in
\* flight, which refuses it without any fault.
ASSUME JobAssumption ==
    /\ ClaimAttempts \in Nat \ {0}
    /\ PutAttempts \in Nat \ {0, 1}
    /\ MaxBeats \in Nat
    /\ MaxFaults \in Nat
    /\ Nobody \notin Containers

VARIABLES
    lease,   \* container-lease.json
    box,     \* the JobManager of each container
    faults   \* faults so far

vars == <<lease, box, faults>>

Etag(doc) == <<doc.token, doc.beat, doc.status>>

AbsentLease == [status |-> "ABSENT", owner |-> Nobody, token |-> 0, beat |-> 0,
                expired |-> FALSE, result |-> "NONE"]

\* What a read without a document returns for the etag.
NoEtag == Etag(AbsentLease)

\* A container that was never asked for the job.
Fresh == [pc |-> "idle", watch |-> FALSE, tries |-> 0,
          seen |-> NoEtag, token |-> 0, etag |-> NoEtag, fence |-> NoEtag,
          lost |-> FALSE, beat |-> "off", stop |-> "none", overdue |-> FALSE,
          proc |-> "none", manifest |-> "NONE"]

Init ==
    /\ lease = AbsentLease
    /\ box = [c \in Containers |-> Fresh]
    /\ faults = 0

Become(c, b) == box' = [box EXCEPT ![c] = b]

Fault == faults < MaxFaults /\ faults' = faults + 1

NoFault == UNCHANGED faults

-----------------------------------------------------------------------------
(* The claim.                                                              *)

Claimable == lease.status = "ABSENT" \/ (lease.status = "CLAIMED" /\ lease.expired)

\* The document of a new claim by c: a fresh owner and the next token.
ClaimedBy(c) ==
    [status |-> "CLAIMED", owner |-> c, token |-> lease.token + 1, beat |-> 0,
     expired |-> FALSE, result |-> "NONE"]

\* The exception leaves the claim, or what follows it: submit answers with
\* the error, a recovery timer is armed again.
Raised(b) == [b EXCEPT !.pc = "idle", !.tries = 0]

\* An exception for a request that failed.  Arming the timer again reads the
\* lease as well, and when that is refused too nothing recovers any more.
Raise(c) ==
    /\ Fault
    /\ \/ Become(c, Raised(box[c]))
       \/ Become(c, [Raised(box[c]) EXCEPT !.watch = FALSE])

\* The read that begins an attempt of _claim_controlled_lease.  A lease that
\* is held, or TERMINAL, makes the container an observer; after a read that
\* failed the first claim is attempted.
ReadLease(c) ==
    /\ \/ /\ Become(c, IF Claimable
                       THEN [box[c] EXCEPT !.pc = "take", !.seen = Etag(lease)]
                       ELSE [box[c] EXCEPT !.pc = "idle", !.watch = TRUE, !.tries = 0])
          /\ NoFault
       \/ Become(c, [box[c] EXCEPT !.pc = "take", !.seen = NoEtag]) /\ Fault
       \/ Raise(c)
    /\ UNCHANGED lease

\* submit: a stored terminal is the answer; when none was found a claim is
\* attempted, although one may be stored by then.
Submit(c) ==
    /\ box[c].pc = "idle"
    /\ \/ /\ lease.status = "TERMINAL"
          /\ Become(c, [box[c] EXCEPT !.pc = "known"])
          /\ NoFault
          /\ UNCHANGED lease
       \/ ReadLease(c)

\* The recovery timer of an observer.
Recover(c) ==
    /\ box[c].pc = "idle"
    /\ box[c].watch
    /\ ReadLease(c)

ClaimAgain(c) ==
    /\ box[c].pc = "again"
    /\ ReadLease(c)

\* The conditional write: create-only for the first claim, the etag that was
\* read for a takeover.
Take(c) ==
    /\ box[c].pc = "take"
    /\ \/ /\ Etag(lease) = box[c].seen
          /\ lease' = ClaimedBy(c)
          /\ Become(c, [box[c] EXCEPT !.pc = "claimed", !.token = lease.token + 1])
          /\ NoFault
       \/ /\ Etag(lease) # box[c].seen
          /\ Become(c, IF box[c].tries + 1 < ClaimAttempts
                       THEN [box[c] EXCEPT !.pc = "again", !.tries = @ + 1]
                       ELSE Raised(box[c]))
          /\ NoFault
          /\ UNCHANGED lease
       \/ /\ Raise(c)
          /\ lease' \in {lease} \cup
                        (IF Etag(lease) = box[c].seen THEN {ClaimedBy(c)} ELSE {})

\* The etag of the claim is read back from whatever the document is by now; a
\* read that fails leaves the claim without one.
ReadBack(c) ==
    /\ box[c].pc = "claimed"
    /\ \/ /\ Become(c, [box[c] EXCEPT !.pc = "stage", !.etag = Etag(lease),
                                      !.lost = FALSE, !.tries = 0])
          /\ NoFault
       \/ /\ Become(c, [box[c] EXCEPT !.pc = "stage", !.etag = NoEtag,
                                      !.lost = FALSE, !.tries = 0])
          /\ Fault
       \/ Raise(c)
    /\ UNCHANGED lease

\* The stage is written create-only and unfenced, and one of the same request
\* is as good, so only a failed request stops it.  Then the executor starts.
WriteStage(c) ==
    /\ box[c].pc = "stage"
    /\ \/ /\ Become(c, [box[c] EXCEPT !.pc = "run", !.watch = FALSE,
                                      !.proc = "alive", !.beat = "armed"])
          /\ NoFault
       \/ Raise(c)
    /\ UNCHANGED lease

-----------------------------------------------------------------------------
(* The heartbeat timer.                                                    *)

MarkLost(b) ==
    [b EXCEPT !.lost = TRUE, !.beat = "off",
              !.stop = IF b.pc = "run" /\ @ = "none" THEN "lease_lost" ELSE @]

Holds(c) ==
    /\ lease.owner = c
    /\ lease.token = box[c].token

BeatReads(c) ==
    /\ box[c].beat = "armed"
    /\ \/ /\ Holds(c) /\ lease.status = "CLAIMED" /\ ~lease.expired
          /\ lease.beat < MaxBeats
          /\ Become(c, [box[c] EXCEPT !.beat = "sent", !.seen = Etag(lease)])
          /\ NoFault
       \/ /\ ~(Holds(c) /\ lease.status = "CLAIMED" /\ ~lease.expired)
          /\ Become(c, MarkLost(box[c]))
          /\ NoFault
       \/ Become(c, MarkLost(box[c])) /\ Fault
    /\ UNCHANGED lease

\* The renewal is a conditional write as well; any failure loses the lease,
\* also one whose write took effect.
BeatWrites(c) ==
    LET accepted == Etag(lease) = box[c].seen /\ ~lease.expired
        renewed == [lease EXCEPT !.beat = @ + 1]
    IN  /\ box[c].beat = "sent"
        /\ \/ /\ accepted
              /\ lease' = renewed
              /\ Become(c, [box[c] EXCEPT !.beat = "renewed"])
              /\ NoFault
           \/ /\ ~accepted
              /\ Become(c, MarkLost(box[c]))
              /\ NoFault
              /\ UNCHANGED lease
           \/ /\ Fault
              /\ Become(c, MarkLost(box[c]))
              /\ lease' \in {lease} \cup (IF accepted THEN {renewed} ELSE {})

\* The next heartbeat is armed while the job runs and nobody stopped it.
Rearmed(b) == IF b.pc = "run" /\ b.stop = "none" THEN "armed" ELSE "off"

\* A read that fails leaves the etag from before the renewal.
BeatReadsBack(c) ==
    /\ box[c].beat = "renewed"
    /\ \/ /\ Become(c, [box[c] EXCEPT !.etag = Etag(lease), !.beat = Rearmed(box[c])])
          /\ NoFault
       \/ /\ Become(c, [box[c] EXCEPT !.etag = box[c].seen, !.beat = Rearmed(box[c])])
          /\ Fault
       \/ Become(c, MarkLost(box[c])) /\ Fault
    /\ UNCHANGED lease

-----------------------------------------------------------------------------
(* The executor.                                                           *)

\* The absolute lifetime passes; the watchdog timer may be delivered late.
Overdue(c) ==
    /\ box[c].pc = "run" /\ ~box[c].overdue
    /\ Become(c, [box[c] EXCEPT !.overdue = TRUE])
    /\ NoFault /\ UNCHANGED lease

RequestStop(c, reason) ==
    /\ box[c].pc = "run" /\ box[c].stop = "none"
    /\ Become(c, [box[c] EXCEPT !.stop = reason])
    /\ NoFault /\ UNCHANGED lease

expire(c) == box[c].overdue /\ RequestStop(c, "timeout")

cancel(c) == RequestStop(c, "cancel")

\* The process group is gone and left a result, or an error, or no result.
ChildEnds(c) ==
    /\ box[c].proc = "alive"
    /\ \E p \in {"result", "error"} : Become(c, [box[c] EXCEPT !.proc = p])
    /\ NoFault /\ UNCHANGED lease

\* The group survives TERM and KILL, or its identity was never confirmed.
LivenessUnknown(c) ==
    /\ box[c].proc = "alive"
    /\ Become(c, [box[c] EXCEPT !.proc = "unknown"])
    /\ Fault /\ UNCHANGED lease

StopRequested(b) == b.stop

\* The stop _execute goes by: the one requested, or the deadline that passed.
StopOf(b) == IF b.stop = "none" /\ b.overdue THEN "timeout" ELSE b.stop

\* A heartbeat timer that has not fired is cancelled; one in flight goes on.
Disarmed(b) == [b EXCEPT !.beat = IF @ = "armed" THEN "off" ELSE @]

AfterWaitUnquiet(b) ==
    IF StopOf(b) = "lease_lost" THEN [b EXCEPT !.pc = "down"]
    ELSE [b EXCEPT !.pc = "publish", !.tries = 0, !.manifest = "FAILED"]

AfterWait(b) ==
    CASE b.proc = "unknown" -> [b EXCEPT !.pc = "stuck"]
      [] b.proc # "unknown" /\ StopOf(b) = "lease_lost" -> [b EXCEPT !.pc = "down"]
      [] OTHER -> [b EXCEPT !.pc = "publish", !.tries = 0,
                            !.manifest = IF StopOf(b) = "none" /\ b.proc = "result"
                                            /\ ~b.lost
                                         THEN "COMPLETED" ELSE "FAILED"]

\* _execute, once wait has returned.
Execute(c) ==
    /\ box[c].pc = "run" /\ box[c].proc # "alive"
    /\ Become(c, Disarmed(AfterWait(box[c])))
    /\ NoFault /\ UNCHANGED lease

-----------------------------------------------------------------------------
(* The terminal.                                                           *)

\* The lease is compared once more; when that read fails the one in memory
\* stands in for it.  The fencing headers are those of this moment, although
\* a heartbeat in flight may still change the etag.
Publish(c) ==
    /\ box[c].pc = "publish"
    /\ \/ /\ box[c].lost \/ ~Holds(c)
          /\ Become(c, [MarkLost(box[c]) EXCEPT !.pc = "down"])
          /\ NoFault
       \/ /\ ~box[c].lost /\ Holds(c)
          /\ Become(c, [box[c] EXCEPT !.pc = "put", !.fence = box[c].etag])
          /\ NoFault
       \/ /\ ~box[c].lost /\ ~Holds(c)
          /\ Become(c, [box[c] EXCEPT !.pc = "put", !.fence = box[c].etag])
          /\ Fault
    /\ UNCHANGED lease

\* The Worker's side: the claim of the caller, unexpired, and unchanged since
\* the etag it names, if it names one.
AllowsTerminal(c) ==
    /\ lease.status = "CLAIMED" /\ Holds(c) /\ ~lease.expired
    /\ box[c].fence \in {NoEtag, Etag(lease)}

TerminalOf(c) ==
    [lease EXCEPT !.status = "TERMINAL", !.result = box[c].manifest]

\* A refusal for the fence (409) or a failed request is retried; a denial of
\* the request itself (400, 403, 413) ends the publication.
PutTerminal(c) ==
    /\ box[c].pc = "put"
    /\ \/ /\ AllowsTerminal(c)
          /\ lease' = TerminalOf(c)
          /\ Become(c, [box[c] EXCEPT !.pc = "down"])
          /\ NoFault
       \/ /\ lease.status = "TERMINAL" /\ Holds(c)
          /\ Become(c, [box[c] EXCEPT !.pc = "down"])
          /\ NoFault /\ UNCHANGED lease
       \/ /\ ~AllowsTerminal(c) /\ ~(lease.status = "TERMINAL" /\ Holds(c))
          /\ Become(c, [box[c] EXCEPT !.pc = "reread"])
          /\ NoFault /\ UNCHANGED lease
       \/ /\ Fault
          /\ Become(c, [box[c] EXCEPT !.pc = "reread"])
          /\ lease' \in {lease} \cup
                        (IF AllowsTerminal(c) THEN {TerminalOf(c)} ELSE {})
       \/ /\ Fault
          /\ Become(c, [box[c] EXCEPT !.pc = "down"])
          /\ UNCHANGED lease

RetriesPastLimit(b) == b.tries + 1 <= PutAttempts

RetriesNever(b) == FALSE

\* One more try is left after this failed one.
Retries(b) == b.tries + 1 < PutAttempts

\* After a refused or failed write the stored terminal decides; without one
\* the write is retried, up to the limit.  A read that fails finds none, one
\* that is refused ends the publication.  The retries are spread over half a
\* minute: a heartbeat that is in flight for longer is a stalled one.
RereadTerminal(c) ==
    /\ box[c].pc = "reread"
    /\ \/ /\ lease.status # "TERMINAL" /\ Retries(box[c])
          /\ Become(c, [box[c] EXCEPT !.pc = "publish", !.tries = @ + 1])
          /\ IF box[c].beat = "off" THEN NoFault ELSE Fault
       \/ /\ ~(lease.status # "TERMINAL" /\ Retries(box[c]))
          /\ Become(c, [box[c] EXCEPT !.pc = "down"])
          /\ NoFault
       \/ /\ Retries(box[c])
          /\ Become(c, [box[c] EXCEPT !.pc = "publish", !.tries = @ + 1])
          /\ Fault
       \/ Become(c, [box[c] EXCEPT !.pc = "down"]) /\ Fault
    /\ UNCHANGED lease

-----------------------------------------------------------------------------
(* Time and crashes.                                                       *)

\* The claim in the document is one its owner is still working under.
Attended ==
    \E c \in Containers :
        /\ Holds(c)
        /\ \/ box[c].pc \in {"claimed", "stage", "publish", "put", "reread"}
           \/ box[c].pc = "run" /\ ~box[c].lost

\* A claim that is not renewed expires; an attended one only when its
\* container stalls for as long as the lease lives (half an hour, against
\* seconds for the stop of a process group, during which nothing beats).
Expire ==
    /\ lease.status = "CLAIMED" /\ ~lease.expired
    /\ lease' = [lease EXCEPT !.expired = TRUE]
    /\ IF Attended THEN Fault ELSE NoFault
    /\ UNCHANGED box

\* The container and every process in it end.
Crash(c) ==
    /\ box[c].pc # "down"
    /\ Become(c, [box[c] EXCEPT
           !.pc = "down", !.beat = "off",
           !.proc = IF @ \in {"alive", "unknown"} THEN "killed" ELSE @])
    /\ Fault /\ UNCHANGED lease

-----------------------------------------------------------------------------
MainThread(c) ==
    \/ ClaimAgain(c) \/ Take(c) \/ ReadBack(c) \/ WriteStage(c)
    \/ Execute(c) \/ Publish(c) \/ PutTerminal(c) \/ RereadTerminal(c)

HeartbeatThread(c) == BeatReads(c) \/ BeatWrites(c) \/ BeatReadsBack(c)

Killed(c) == box[c].stop # "none" /\ ChildEnds(c)

Next ==
    \/ \E c \in Containers :
           \/ Submit(c) \/ Recover(c) \/ MainThread(c) \/ HeartbeatThread(c)
           \/ Overdue(c) \/ expire(c) \/ cancel(c) \/ ChildEnds(c)
           \/ LivenessUnknown(c) \/ Crash(c)
    \/ Expire

Spec == Init /\ [][Next]_vars

\* Threads and timers of a container that runs are eventually scheduled, a
\* stopped process group ends, and time passes.  Nothing makes anyone submit
\* or cancel, nor a child end by itself.
Fairness ==
    /\ WF_vars(Expire)
    /\ \A c \in Containers :
           /\ WF_vars(MainThread(c)) /\ WF_vars(HeartbeatThread(c))
           /\ WF_vars(Recover(c))
           /\ WF_vars(Overdue(c)) /\ WF_vars(expire(c)) /\ WF_vars(Killed(c))

FairSpec == Spec /\ Fairness

-----------------------------------------------------------------------------
Tokens == 0 .. MaxFaults + 1

Etags == Tokens \X (0 .. MaxBeats) \X {"ABSENT", "CLAIMED", "TERMINAL"}

\* Types of the lease document and of a JobManager: one more token than
\* faults at most, and no counter of attempts past its limit.
TypeOK ==
    /\ lease \in [status : {"ABSENT", "CLAIMED", "TERMINAL"},
                  owner : Containers \cup {Nobody}, token : Tokens,
                  beat : 0 .. MaxBeats, expired : BOOLEAN,
                  result : {"NONE", "COMPLETED", "FAILED"}]
    /\ faults \in 0 .. MaxFaults
    /\ box \in [Containers ->
          [pc : {"idle", "take", "again", "claimed", "stage", "run", "publish",
                 "put", "reread", "known", "stuck", "down"},
           watch : BOOLEAN, tries : Nat, seen : Etags, token : Tokens,
           etag : Etags, fence : Etags, lost : BOOLEAN,
           beat : {"off", "armed", "sent", "renewed"},
           stop : {"none", "timeout", "cancel", "lease_lost"},
           overdue : BOOLEAN,
           proc : {"none", "alive", "result", "error", "unknown", "killed"},
           manifest : {"NONE", "COMPLETED", "FAILED"}]]
    /\ \A c \in Containers :
           box[c].tries < IF box[c].pc \in {"publish", "put", "reread"}
                          THEN PutAttempts ELSE ClaimAttempts + PutAttempts

\* A stored terminal speaks for a process group that is gone: the container
\* that stored it has no process that still runs or may still run, whatever
\* stops, lost leases and takeovers came in between.
TerminalIsQuiescent ==
    lease.status = "TERMINAL" =>
        box[lease.owner].proc \notin {"none", "alive", "unknown"}

\* A job is COMPLETED only by a child that returned its result under a lease
\* never found lost, before its deadline and before anyone stopped it.
CompletedIsClean ==
    lease.result = "COMPLETED" =>
        LET b == box[lease.owner]
        IN  b.proc = "result" /\ b.stop = "none" /\ ~b.overdue

\* The container is at work on the job or waits to take it over.
Engaged(c) ==
    /\ box[c].pc \notin {"known", "stuck", "down"}
    /\ box[c].pc = "idle" => box[c].watch

\* When every container is engaged, a terminal is eventually stored, although
\* all of them but one may crash, stall, lose a reply or be unable to stop
\* their process group.
SurvivesFaults ==
    (\A c \in Containers : Engaged(c)) ~> lease.status = "TERMINAL"
=============================================================================
