------------------------------ MODULE Gateway -------------------------------
(***************************************************************************)
(* The AI gateway on top of the budget ledger                              *)
(* (platform/workers/research-ai-gateway/src/index.ts): several concurrent *)
(* invocations of /v1/complete reserve budget, mark the provider as        *)
(* started, call Workers AI and settle, over RPCs whose answers may be     *)
(* lost; the Controlled Pilot reserves, finalizes and cancels paper runs   *)
(* on the same ledger.                                                     *)
(*                                                                         *)
(* An RPC either runs in the ledger and is answered, or the invocation     *)
(* sees an ambiguous failure (budget_rpc_failed and its kin) and the call  *)
(* stays in flight: it may run later, in any order, or never.  That covers *)
(* a lost request, a lost answer (it runs at once), a delayed request and  *)
(* a ledger that throws.  An invocation may die between any two steps.     *)
(***************************************************************************)
EXTENDS BudgetLedger

CONSTANTS
    PaperOwner,    \* controlledPaperOwnerCapability: derived from key and digest alone
    PaperAmounts,  \* the fixed amounts of a controlled paper reservation
    KeyOf,         \* the idempotency key an invocation was given
    DigestOf,      \* the digest of its request
    AmountsOf,     \* reserveAmounts, a function of the request digest
    MaxInflight    \* bound on the calls that are delayed at one time

\* Every invocation mints its own capability, so it is named by it.
Caller == Owner \ {PaperOwner}

ASSUME InvocationAssumption ==
    /\ KeyOf \in [Caller -> Key]
    /\ DigestOf \in [Caller -> Digest]
    /\ AmountsOf \in [Digest -> ReserveAmounts]
ASSUME PaperAssumption ==
    /\ PaperOwner \in Owner
    /\ PaperAmounts \in ReserveAmounts
    /\ MaxInflight \in Nat

VARIABLES
    inv,       \* the local state of every invocation
    inflight   \* the RPCs that were sent and neither ran nor are known lost

gvars == <<ledger, alarm, now, inv, inflight>>

Pc == {"reserve", "reserve_retry", "cancel", "cancel_retry", "mark", "mark_retry",
       "provider", "finalize", "finalize_settle", "settle", "done"}

\* run: reserved.lease_id.  bill: what the provider call used (Null before the call).
\* report: the usage evidence of a measured answer.  served: the caller got the
\* provider's answer with its budget finalized.
Invocation == [pc : Pc, run : LeaseId \cup {Null}, bill : Usage \cup {Null},
               report : Report \cup {Null}, served : BOOLEAN]

Rpc == [op : {"reserve", "cancel", "mark", "settle", "finalize"}, inv : Caller,
        run : LeaseId \cup {Null}, report : Report \cup {Null}, sent : 0..MaxTime]

GInit ==
    /\ Init
    /\ inv = [i \in Caller |-> [pc |-> "reserve", run |-> Null, bill |-> Null,
                               report |-> Null, served |-> FALSE]]
    /\ inflight = {}

-----------------------------------------------------------------------------
(* RPCs *)

\* callBudgetLedger: the operation an RPC runs in the ledger, with the input its
\* invocation sent.  A cancel that stayed in flight may have read the clock at any
\* time since it was sent; its own invocation no longer sees what it does.
Executes(i, op, run, report, sent) ==
    LET k == KeyOf[i]
        d == DigestOf[i]
    IN \/ op = "reserve" /\ \E l \in LeaseId : Reserve(k, d, i, AmountsOf[d], l)
       \/ op = "cancel" /\ \E t \in ClockReadings : sent <= t /\ CancelPreProvider(k, d, i, t)
       \/ op = "mark" /\ \E seen \in LeaseId \cup {Null} : MarkProviderStarted(k, d, i, run, seen)
       \/ op = "settle" /\ SettleUncertain(k, d, i, run)
       \/ op = "finalize" /\ FinalizeExact(k, d, i, run, report)

Goto(i, pc) == inv' = [inv EXCEPT ![i].pc = pc]

\* budgetRpc failed ambiguously and the invocation goes on at pc; the call is gone, or it
\* is only delayed.
Lost(i, op, pc) ==
    /\ LET m == [op |-> op, inv |-> i, run |-> inv[i].run, report |-> inv[i].report,
                 sent |-> IF op = "cancel" THEN now ELSE 0]
       IN \/ UNCHANGED inflight
          \/ inflight' = inflight \cup {m} /\ Cardinality(inflight') <= MaxInflight
    /\ Goto(i, pc)
    /\ UNCHANGED vars

\* A call whose answer nobody waits for any more reaches the ledger.
Deliver(m) ==
    /\ m \in inflight
    /\ inflight' = inflight \ {m}
    /\ Executes(m.inv, m.op, m.run, m.report, m.sent)
    /\ UNCHANGED inv

-----------------------------------------------------------------------------
(* handleGatewayRequest *)

\* The answer to reserveOwned: the run it names, and where the handler goes on.
ReservedRun(i, l) ==
    IF ReserveVerdict(Opened, KeyOf[i], DigestOf[i], i, AmountsOf[DigestOf[i]]) = "fresh"
    THEN l ELSE Opened.reservations[KeyOf[i]].lease_id

AfterReserve(i) ==
    LET v == ReserveVerdict(Opened, KeyOf[i], DigestOf[i], i, AmountsOf[DigestOf[i]])
        r == Opened.reservations[KeyOf[i]]
    IN IF v = "fresh" THEN "mark"
       ELSE IF v # "existing" THEN (IF inv[i].pc = "reserve_retry" THEN "cancel" ELSE "done")
       ELSE IF r.cached THEN "done"
       ELSE IF ~OwnerMatches(r, i, DigestOf[i]) THEN "done"
       ELSE "mark"

ReserveOwned(i) ==
    /\ inv[i].pc \in {"reserve", "reserve_retry"}
    /\ \E l \in LeaseId :
         /\ Reserve(KeyOf[i], DigestOf[i], i, AmountsOf[DigestOf[i]], l)
         /\ inv' = [inv EXCEPT ![i].pc = AfterReserve(i),
                               ![i].run = IF AfterReserve(i) = "mark" THEN ReservedRun(i, l)
                                          ELSE @]
    /\ UNCHANGED inflight

\* A success answer without run or lease ids is cancelled like a lost one.
ReserveMalformed(i) ==
    /\ inv[i].pc \in {"reserve", "reserve_retry"}
    /\ AfterReserve(i) = "mark"
    /\ Executes(i, "reserve", Null, Null, 0)
    /\ Goto(i, "cancel")
    /\ UNCHANGED inflight

ReserveLost(i) ==
    \/ inv[i].pc = "reserve" /\ Lost(i, "reserve", "reserve_retry")
    \/ inv[i].pc = "reserve_retry" /\ Lost(i, "reserve", "cancel")

\* cancelOwnedPreProviderReserve: one retry, and the handler ends either way.
Cancel(i) ==
    /\ inv[i].pc \in {"cancel", "cancel_retry"}
    /\ Executes(i, "cancel", Null, Null, now)
    /\ Goto(i, "done")
    /\ UNCHANGED inflight

CancelLost(i) ==
    \/ inv[i].pc = "cancel" /\ Lost(i, "cancel", "cancel_retry")
    \/ inv[i].pc = "cancel_retry" /\ Lost(i, "cancel", "done")

\* markProviderStarted is retried once on any failure, then the run is cancelled.
AfterMarkFailure(i) == IF inv[i].pc = "mark" THEN "mark_retry" ELSE "cancel"

Mark(i) ==
    /\ inv[i].pc \in {"mark", "mark_retry"}
    /\ \E seen \in LeaseId \cup {Null} :
         LET k == KeyOf[i]
             d == DigestOf[i]
             v == MarkVerdict(Opened, k, d, i, inv[i].run, seen)
         IN /\ MarkProviderStarted(k, d, i, inv[i].run, seen)
            /\ Goto(i, IF v = "started" \/ (v = "replay" /\ Opened.reservations[k].secret)
                       THEN "provider" ELSE AfterMarkFailure(i))
    /\ UNCHANGED inflight

MarkLost(i) ==
    /\ inv[i].pc \in {"mark", "mark_retry"}
    /\ Lost(i, "mark", AfterMarkFailure(i))

\* env.AI.run.  The provider uses bill; a measured answer reports it, a timeout, an
\* error or an answer without usage reports nothing.
CallProvider(i, bill, report) ==
    /\ inv[i].pc = "provider"
    /\ report # Null => report.usage = bill /\ report.result # "none"
    /\ inv' = [inv EXCEPT ![i].bill = bill, ![i].report = report,
                          ![i].pc = IF report = Null THEN "settle" ELSE "finalize"]
    /\ UNCHANGED <<vars, inflight>>

FinalizeMeasured(i) ==
    LET k == KeyOf[i]
        ok == FinalizeVerdict(Opened, k, DigestOf[i], i, inv[i].run, inv[i].report) = "ok"
    IN /\ inv[i].pc = "finalize"
       /\ Executes(i, "finalize", inv[i].run, inv[i].report, 0)
       /\ inv' = [inv EXCEPT ![i].served = ok,
                             ![i].pc = IF ok THEN "done" ELSE "finalize_settle"]
       /\ UNCHANGED inflight

FinalizeLost(i) == inv[i].pc = "finalize" /\ Lost(i, "finalize", "finalize_settle")

\* settleUncertain: after an unmeasured call, or after finalizeExact failed.
SettleUnmeasured(i) ==
    /\ inv[i].pc \in {"settle", "finalize_settle"}
    /\ Executes(i, "settle", inv[i].run, Null, 0)
    /\ Goto(i, "done")
    /\ UNCHANGED inflight

SettleLost(i) == inv[i].pc \in {"settle", "finalize_settle"} /\ Lost(i, "settle", "done")

\* The isolate is evicted, or the client's request is aborted.
Crash(i) == inv[i].pc # "done" /\ Goto(i, "done") /\ UNCHANGED <<vars, inflight>>

-----------------------------------------------------------------------------
(* GatewayService: the Controlled Pilot's paper runs *)

\* dispatchControlledPaperRpc and heartbeatControlledPaper keep no state of their own:
\* each is one call of the ledger, which runs or does not.  The lease id is the
\* caller's; queryControlledPaper only recovers (RecoverExpiredLeases).
ControlledPaper ==
    /\ \/ \E k \in Key, d \in Digest, l \in LeaseId :
             \/ Reserve(k, d, PaperOwner, PaperAmounts, l)
             \/ FinalizeOwnedPaper(k, d, PaperOwner, l)
       \/ \E k \in Key, d \in Digest, t \in ClockReadings : CancelPreProvider(k, d, PaperOwner, t)
       \/ \E l \in LeaseId : Heartbeat(l)
    /\ UNCHANGED <<inv, inflight>>

LedgerAlone == (Alarm \/ RecoverExpiredLeases \/ Throw \/ Tick) /\ UNCHANGED <<inv, inflight>>

GNext ==
    \/ \E i \in Caller :
         \/ ReserveOwned(i) \/ ReserveMalformed(i) \/ ReserveLost(i)
         \/ Cancel(i) \/ CancelLost(i)
         \/ Mark(i) \/ MarkLost(i)
         \/ \E bill \in Usage, report \in Report \cup {Null} : CallProvider(i, bill, report)
         \/ FinalizeMeasured(i) \/ FinalizeLost(i)
         \/ SettleUnmeasured(i) \/ SettleLost(i)
         \/ Crash(i)
    \/ \E m \in inflight : Deliver(m)
    \/ ControlledPaper
    \/ LedgerAlone

GSpec == GInit /\ [][GNext]_gvars

\* Fairness: the platform fires a due alarm and retries it when the handler throws; the
\* clock advances.  No caller, invocation or RPC is assumed to come back.
GFairSpec == GSpec /\ WF_gvars(Alarm /\ UNCHANGED <<inv, inflight>>)
                   /\ WF_gvars(Tick /\ UNCHANGED <<inv, inflight>>)

-----------------------------------------------------------------------------
(* Properties *)

\* The ledger, the invocations and the calls in flight keep their types.
GTypeOK ==
    /\ TypeOK
    /\ inv \in [Caller -> Invocation]
    /\ inflight \subseteq Rpc

\* One client request, one provider call: however often an idempotency key is
\* retried, lost, delayed or abandoned, Workers AI is called for it at most once.
OneCallPerKey ==
    \A i, j \in Caller :
        KeyOf[i] = KeyOf[j] /\ inv[i].bill # Null /\ inv[j].bill # Null => i = j

\* Workers AI is never called unless the ledger has persisted that usage may exist,
\* and what a call used within its reservation is always held or charged.
CallIsCovered ==
    \A i \in Caller :
        LET r == ledger.reservations[KeyOf[i]] IN
        inv[i].bill # Null =>
            /\ r # Null /\ r.lease_id = inv[i].run /\ r.started
            /\ r.status \in {"reserved", "reconciled"}
            /\ \A c \in Counter :
                 inv[i].bill[c] <= r.amounts[c] =>
                    inv[i].bill[c] <= (IF r.status = "reserved" THEN r.amounts[c]
                                       ELSE r.actual[c])

\* An answer served as a success was charged exactly what the provider reported.
ServedIsExact ==
    \A i \in Caller :
        inv[i].served =>
            /\ HasStatus(ledger, KeyOf[i], "reconciled")
            /\ ledger.reservations[KeyOf[i]].actual = inv[i].bill
            /\ ledger.reservations[KeyOf[i]].finalize_error = Null

\* An invocation that has ended does not keep budget for ever, whichever of its calls
\* were lost: what it still holds is settled or given back, as long as the stored
\* ledger can be loaded.
AbandonedIsClosed ==
    \A i \in Caller :
        (inv[i].pc = "done" /\ HasStatus(ledger, KeyOf[i], "reserved")
            /\ ledger.reservations[KeyOf[i]].owner = i)
        ~> \/ ~(HasStatus(ledger, KeyOf[i], "reserved")
                /\ ledger.reservations[KeyOf[i]].owner = i)
           \/ ~Loads(ledger)
=============================================================================
