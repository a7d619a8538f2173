--------------------------- MODULE EventProcessing ---------------------------
(***************************************************************************)
(* The worker's processing of delivered events: the claim of an event's    *)
(* row in event_processing_attempts under a lease, the receipt written     *)
(* before the handler transaction, the handler transaction itself with its *)
(* ledger, statistics and derived-event effects, the recording of a        *)
(* failure, and the deletion of the queue message.                         *)
(*                                                                         *)
(* Every database transaction is one step: each takes the row locks it     *)
(* reads under (SELECT ... FOR UPDATE) before it reads.  Between two       *)
(* transactions other workers run, the lease expires, or the process dies. *)
(* The queue is the most general one: any event may be delivered to any    *)
(* idle worker at any time, any number of times.                           *)
(***************************************************************************)
EXTENDS Integers

CONSTANTS
    Workers,      \* worker processes
    Events,       \* event identifiers (EventEnvelope.event_id)
    Sources,      \* subscriptions and gifts the events are about
    KindOf,       \* [Events -> Kinds]
    SourceOf,     \* [Events -> Sources]
    MaxAttempts,  \* max_event_attempts
    LockSeconds,  \* event_lock_seconds
    MaxClock,     \* bound on time
    MaxFaults     \* bound on crashes and transient errors

(***************************************************************************)
(* "paid" and "free" are subscription.created, "gift" is gift.sent, "ack"  *)
(* the four types acknowledged without work, "malformed" an envelope or    *)
(* payload that is refused before the receipt is written, "unknown" a type *)
(* no handler exists for.                                                  *)
(***************************************************************************)
Kinds == {"paid", "free", "gift", "ack", "malformed", "unknown"}

ASSUME ParametersAssumption ==
    /\ KindOf \in [Events -> Kinds]
    /\ SourceOf \in [Events -> Sources]
    /\ MaxAttempts \in Nat \ {0}
    /\ LockSeconds \in Nat \ {0}
    /\ MaxClock \in Nat
    /\ MaxFaults \in Nat

VARIABLES
    attempt,   \* [Events -> Attempt]: the row of each event
    worker,    \* [Workers -> Worker]: what each worker is doing
    receipts,  \* events whose receipt object exists in the artifact store
    ledger,    \* ledger_transactions: pairs <<source, source_event_id>>
    recorded,  \* ledger.transaction.recorded events enqueued, by cause
    stats,     \* daily-statistics increments applied, by event
    processed, \* sources whose gift row has status "processed"
    notices,   \* event.processing.failed events enqueued, by cause
    acked,     \* events with a message deleted from the queue
    clock,
    faults

effects == <<ledger, recorded, stats, processed>>
vars == <<attempt, worker, receipts, effects, notices, acked, clock, faults>>

Statuses == {"none", "started", "failed", "succeeded"}

\* A row.  "none" is the absence of a row; lockedUntil = 0 is NULL.
Attempt == [status      : Statuses,
            number      : Nat,
            lockedUntil : Nat,
            terminal    : BOOLEAN,   \* terminal_at IS NOT NULL
            emitted     : BOOLEAN]   \* failure_event_emitted_at IS NOT NULL

NoAttempt == [status |-> "none", number |-> 0, lockedUntil |-> 0,
              terminal |-> FALSE, emitted |-> FALSE]

Stages == {"idle", "claiming", "claimed", "prepared", "ready", "failing",
           "acking"}

\* number is the attempt_number of the _Claim; now is the clock value _claim
\* read before its transaction.
Working == [stage : Stages \ {"idle"}, event : Events, number : Nat, now : Nat]
Idle == [stage |-> "idle"]
Worker == Working \union {Idle}

HasLedger(e) == KindOf[e] \in {"paid", "gift"}
HasStats(e)  == KindOf[e] \in {"paid", "gift", "free"}
\* Mutant: the identity check is dropped.
LedgerAllowsAny(e) == e \in Events

\* The transaction that recorded source s, if one exists, was caused by e.
LedgerAllows(e) == \A row \in ledger : row[1] = SourceOf[e] => row[2] = e
InLedger(e) == <<SourceOf[e], e>> \in ledger

Init ==
    /\ attempt = [e \in Events |-> NoAttempt]
    /\ worker = [w \in Workers |-> Idle]
    /\ receipts = {}
    /\ ledger = {}
    /\ recorded = [e \in Events |-> 0]
    /\ stats = [e \in Events |-> 0]
    /\ processed = {}
    /\ notices = [e \in Events |-> 0]
    /\ acked = {}
    /\ clock = 1
    /\ faults = 0
-----------------------------------------------------------------------------
Goto(w, stage) == worker' = [worker EXCEPT ![w].stage = stage]
Release(w) == worker' = [worker EXCEPT ![w] = Idle]
Fault == faults < MaxFaults /\ faults' = faults + 1

\* The message of e is handed to w, whose _claim reads the clock.
Receive(w, e) ==
    /\ worker[w] = Idle
    /\ worker' = [worker EXCEPT ![w] = [stage |-> "claiming", event |-> e,
                                        number |-> 0, now |-> clock]]
    /\ UNCHANGED <<attempt, receipts, effects, notices, acked, clock, faults>>

\* Mutant: a lease is not looked at.
HeldWithoutLease(a, now) == a.status = "started" /\ a.lockedUntil = 0

\* The claim is held by a worker whose lease, seen from now, is running.
LeaseHeld(a, now) ==
    a.status = "started" /\ (a.lockedUntil = 0 \/ a.lockedUntil > now)

\* The row after a claim that read the clock at now.
Claimed(a, now) ==
    [a EXCEPT !.status = "started", !.number = @ + 1,
              !.lockedUntil = now + LockSeconds]

\* The transaction of _claim: insert, or lock the row and decide.
Claim(w) ==
    LET e == worker[w].event
        a == attempt[e]
    IN
    /\ worker[w].stage = "claiming"
    /\ \/ /\ a.status = "succeeded"            \* "duplicate"
          /\ Goto(w, "acking")
          /\ UNCHANGED attempt
       \/ /\ a.status # "succeeded"            \* "terminal" or in progress
          /\ a.terminal \/ LeaseHeld(a, worker[w].now)
          /\ Release(w)
          /\ UNCHANGED attempt
       \/ /\ a.status # "succeeded"
          /\ ~a.terminal
          /\ ~LeaseHeld(a, worker[w].now)
          /\ attempt' = [attempt EXCEPT ![e] = Claimed(a, worker[w].now)]
          /\ worker' = [worker EXCEPT ![w].stage = "claimed",
                                      ![w].number = a.number + 1]
    /\ UNCHANGED <<receipts, effects, notices, acked, clock, faults>>

\* The transaction of _claim meets a transient error, or commits and is not
\* seen to: the exception leaves process_mapping, and the delivery is over.
ClaimError(w) ==
    LET e == worker[w].event
        a == attempt[e]
    IN
    /\ worker[w].stage = "claiming"
    /\ \/ UNCHANGED attempt
       \/ /\ a.status # "succeeded"
          /\ ~a.terminal
          /\ ~LeaseHeld(a, worker[w].now)
          /\ attempt' = [attempt EXCEPT ![e] = Claimed(a, worker[w].now)]
    /\ Release(w)
    /\ Fault
    /\ UNCHANGED <<receipts, effects, notices, acked, clock>>

\* The event passes every check of _prepare_receipt.
Preparable(e) ==
    /\ KindOf[e] # "malformed"
    /\ HasLedger(e) => LedgerAllows(e)

\* The version check and _prepare_receipt with its own transaction.
Prepare(w) ==
    LET e == worker[w].event IN
    /\ worker[w].stage = "claimed"
    /\ \/ /\ Preparable(e)
          /\ Goto(w, IF HasLedger(e) THEN "prepared" ELSE "ready")
          /\ UNCHANGED faults
       \/ ~Preparable(e) /\ Goto(w, "failing") /\ UNCHANGED faults
       \/ Goto(w, "failing") /\ Fault          \* a transient error
    /\ UNCHANGED <<attempt, receipts, effects, notices, acked, clock>>

\* put_receipt is write-once and idempotent; it may also raise, before or
\* after the object exists.
PutReceipt(w) ==
    LET e == worker[w].event IN
    /\ worker[w].stage = "prepared"
    /\ \/ /\ receipts' = receipts \union {e}
          /\ Goto(w, "ready")
          /\ UNCHANGED faults
       \/ /\ receipts' \in {receipts, receipts \union {e}}
          /\ Goto(w, "failing")
          /\ Fault
    /\ UNCHANGED <<attempt, effects, notices, acked, clock>>

\* _write_ledger and what follows it: nothing when the row of e exists.
WriteLedger(e) ==
    IF InLedger(e)
    THEN UNCHANGED effects
    ELSE /\ ledger' = ledger \union {<<SourceOf[e], e>>}
         /\ recorded' = [recorded EXCEPT ![e] = @ + 1]
         /\ stats' = [stats EXCEPT ![e] = @ + 1]
         /\ processed' = IF KindOf[e] = "gift"
                         THEN processed \union {SourceOf[e]} ELSE processed

\* What _dispatch does to the database when it raises nothing.
Dispatch(e) ==
    \/ KindOf[e] = "ack" /\ UNCHANGED effects
    \/ /\ KindOf[e] = "free"
       /\ stats' = [stats EXCEPT ![e] = @ + 1]
       /\ UNCHANGED <<ledger, recorded, processed>>
    \/ HasLedger(e) /\ LedgerAllows(e) /\ WriteLedger(e)

Dispatchable(e) ==
    KindOf[e] \in {"ack", "free"} \/ (HasLedger(e) /\ LedgerAllows(e))

\* Mutant: the handler transaction does not look at the row's status.
ClaimStandsAlways(e) == attempt[e].status \in Statuses

\* The handler transaction refuses a row that is not "started".
ClaimStands(e) == attempt[e].status = "started"

\* The handler transaction commits.  The worker learns of it, or the
\* connection breaks after the commit and the worker sees an error.
HandleCommit(w) ==
    LET e == worker[w].event IN
    /\ worker[w].stage = "ready"
    /\ ClaimStands(e)
    /\ Dispatch(e)
    /\ attempt' = [attempt EXCEPT ![e].status = "succeeded",
                                  ![e].lockedUntil = 0]
    /\ \/ Goto(w, "acking") /\ UNCHANGED faults
       \/ Goto(w, "failing") /\ Fault
    /\ UNCHANGED <<receipts, notices, acked, clock>>

\* Mutant: a lost claim counts as handled.
HandleAbortAcked(w) ==
    LET e == worker[w].event IN
    /\ worker[w].stage = "ready"
    /\ \/ ~ClaimStands(e) /\ Goto(w, "acking") /\ UNCHANGED faults
       \/ ClaimStands(e) /\ ~Dispatchable(e) /\ Goto(w, "failing") /\ UNCHANGED faults
       \/ Goto(w, "failing") /\ Fault
    /\ UNCHANGED <<attempt, receipts, effects, notices, acked, clock>>

\* The handler transaction rolls back: a lost claim ends the delivery
\* (EventInProgressError), any other error goes to _record_failure.
HandleAbort(w) ==
    LET e == worker[w].event IN
    /\ worker[w].stage = "ready"
    /\ \/ ~ClaimStands(e) /\ Release(w) /\ UNCHANGED faults
       \/ /\ ClaimStands(e)
          /\ ~Dispatchable(e)
          /\ Goto(w, "failing")
          /\ UNCHANGED faults
       \/ Goto(w, "failing") /\ Fault
    /\ UNCHANGED <<attempt, receipts, effects, notices, acked, clock>>

\* The row after a failure of the claim numbered n.
Failed(a, n) ==
    [a EXCEPT !.status = "failed", !.lockedUntil = 0,
              !.terminal = @ \/ n >= MaxAttempts,
              !.emitted = @ \/ n >= MaxAttempts]

\* Mutant: a failure is recorded over a success.
RecordFailureOverSuccess(w) ==
    LET e == worker[w].event
        a == attempt[e]
        n == worker[w].number
    IN
    /\ worker[w].stage = "failing"
    /\ Release(w)
    /\ attempt' = [attempt EXCEPT ![e] = Failed(a, n)]
    /\ notices' = IF n >= MaxAttempts /\ ~a.emitted
                  THEN [notices EXCEPT ![e] = @ + 1] ELSE notices
    /\ UNCHANGED <<receipts, effects, acked, clock, faults>>

\* _record_failure: its transaction, or an error in it that is swallowed.
RecordFailure(w) ==
    LET e == worker[w].event
        a == attempt[e]
        n == worker[w].number
    IN
    /\ worker[w].stage = "failing"
    /\ Release(w)
    /\ \/ /\ a.status = "succeeded"
          /\ UNCHANGED <<attempt, notices, faults>>
       \/ /\ a.status # "succeeded"
          /\ attempt' = [attempt EXCEPT ![e] = Failed(a, n)]
          /\ notices' = IF n >= MaxAttempts /\ ~a.emitted
                        THEN [notices EXCEPT ![e] = @ + 1] ELSE notices
          /\ UNCHANGED faults
       \/ Fault /\ UNCHANGED <<attempt, notices>>
    /\ UNCHANGED <<receipts, effects, acked, clock>>

\* consume_once deletes the message of a succeeded or duplicate delivery.
Delete(w) ==
    /\ worker[w].stage = "acking"
    /\ acked' = acked \union {worker[w].event}
    /\ Release(w)
    /\ UNCHANGED <<attempt, receipts, effects, notices, clock, faults>>

\* The worker process dies and restarts; its open transaction is gone.
Crash(w) ==
    /\ worker[w] # Idle
    /\ Release(w)
    /\ Fault
    /\ UNCHANGED <<attempt, receipts, effects, notices, acked, clock>>

\* Neither succeeded nor terminal: a delivery of e may still claim it.
Undecided(e) == attempt[e].status # "succeeded" /\ ~attempt[e].terminal

\* A lease that runs, or that a claim under way is about to take, ends
\* after now.  Time that passes otherwise changes no outcome.
LeaseAhead ==
    \/ \E e \in Events : attempt[e].lockedUntil > clock
    \/ \E w \in Workers : /\ worker[w].stage = "claiming"
                          /\ Undecided(worker[w].event)
                          /\ worker[w].now + LockSeconds > clock

\* Time passes.
Tick ==
    /\ clock < MaxClock
    /\ LeaseAhead
    /\ clock' = clock + 1
    /\ UNCHANGED <<attempt, worker, receipts, effects, notices, acked, faults>>

Advance(w) ==
    \/ Claim(w) \/ ClaimError(w) \/ Prepare(w) \/ PutReceipt(w)
    \/ HandleCommit(w) \/ HandleAbort(w) \/ RecordFailure(w) \/ Delete(w)

Next ==
    \/ \E w \in Workers : (\E e \in Events : Receive(w, e)) \/ Advance(w) \/ Crash(w)
    \/ Tick

Spec == Init /\ [][Next]_vars
-----------------------------------------------------------------------------
TypeOK ==
    /\ attempt \in [Events -> Attempt]
    /\ worker \in [Workers -> Worker]
    /\ receipts \subseteq Events
    /\ ledger \subseteq Sources \X Events
    /\ recorded \in [Events -> Nat]
    /\ stats \in [Events -> Nat]
    /\ processed \subseteq Sources
    /\ notices \in [Events -> Nat]
    /\ acked \subseteq Events
    /\ clock \in Nat
    /\ faults \in Nat

Succeeded(e) == attempt[e].status = "succeeded"
OnceIf(b) == IF b THEN 1 ELSE 0

\* The effects of an event are in the database exactly once when its row is
\* "succeeded" and not at all otherwise, whatever was redelivered, retried,
\* taken over or interrupted (docs/SPEC.md:323, processor.py _process).
EffectsExactlyOnce ==
    \A e \in Events :
        /\ InLedger(e) <=> Succeeded(e) /\ HasLedger(e)
        /\ recorded[e] = OnceIf(Succeeded(e) /\ HasLedger(e))
        /\ stats[e] = OnceIf(Succeeded(e) /\ HasStats(e))
        /\ Succeeded(e) /\ KindOf[e] = "gift" => SourceOf[e] \in processed

\* No subscription or gift is charged twice in the ledger, even when two
\* events name it (UNIQUE(source_type, source_id), _write_ledger).
OneLedgerTransactionPerSource ==
    \A r1, r2 \in ledger : r1[1] = r2[1] => r1 = r2

\* A ledger transaction refers to a receipt that exists
\* (receipt_artifact_key; the receipt is stored before the transaction).
ReceiptBeforeLedger == \A row \in ledger : row[2] \in receipts

\* An event is terminal only as a failure of a claim numbered MaxAttempts or
\* more, it never also succeeds, and event.processing.failed was enqueued
\* exactly once for it (_record_failure, docs/SPEC.md:325).
OneNoticePerTerminalEvent ==
    \A e \in Events :
        /\ attempt[e].terminal =>
             attempt[e].status = "failed" /\ attempt[e].number >= MaxAttempts
        /\ notices[e] = OnceIf(attempt[e].terminal)
        /\ attempt[e].emitted = attempt[e].terminal

Claims(w, e) ==
    worker[w].stage \in {"claimed", "prepared", "ready", "failing"}
        /\ worker[w].event = e

\* No two workers ever hold the same claim of an event: each claim has a
\* number of its own, at most the row's (_claim).
ClaimNumbersDistinct ==
    \A e \in Events : \A w \in Workers : Claims(w, e) =>
        /\ worker[w].number \in 1 .. attempt[e].number
        /\ \A v \in Workers \ {w} :
               Claims(v, e) => worker[v].number # worker[w].number

\* A message is deleted only after its event's effects are committed
\* (queue.py consume_once, docs/SPEC.md:324).
DeletedOnlyAfterSuccess == \A e \in acked : Succeeded(e)

\* A started row is taken over only once its lease has run out, although the
\* clock is read before the row is locked (_claim).
TakeoverOnlyAfterLease ==
    [][\A e \in Events :
          attempt[e].status = "started" /\ attempt'[e].number # attempt[e].number
              => clock >= attempt[e].lockedUntil]_vars

\* What a worker's stage says of the event it works on; with the invariants
\* above it is inductive.
StageOK(w) ==
    /\ worker[w].stage = "prepared" => HasLedger(worker[w].event)
    /\ worker[w].stage = "ready" /\ HasLedger(worker[w].event)
         => worker[w].event \in receipts
    /\ worker[w].stage = "acking" => Succeeded(worker[w].event)

StageInv == \A w \in Workers : StageOK(w)

\* The inductive invariant of the safety proofs.
SafetyInv ==
    /\ EffectsExactlyOnce
    /\ OneLedgerTransactionPerSource
    /\ ReceiptBeforeLedger
    /\ OneNoticePerTerminalEvent
    /\ DeletedOnlyAfterSuccess
    /\ StageInv

\* A worker read the clock before now.
ClockInv ==
    \A w \in Workers : worker[w].stage = "claiming" => worker[w].now <= clock

\* The abstract promise, with the row of an event read as its verdict.
VerdictOf(a) == IF a.status = "succeeded" THEN "done"
                ELSE IF a.terminal THEN "terminal" ELSE "pending"

Outcome == INSTANCE EventOutcome WITH
    Ledgered <- {e \in Events : HasLedger(e)},
    Counted <- {e \in Events : HasStats(e)},
    Gifts <- {e \in Events : KindOf[e] = "gift"},
    Refused <- {e \in Events : KindOf[e] \in {"malformed", "unknown"}},
    verdict <- [e \in Events |-> VerdictOf(attempt[e])]

\* Every step of the workers is a step of the promise or changes nothing of
\* it: all effects of an event appear in one atomic step, and a verdict is
\* never revised, not by a stale worker either.
OutcomeSpec == Outcome!Spec
=============================================================================
