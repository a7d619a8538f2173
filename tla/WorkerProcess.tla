---------------------------- MODULE WorkerProcess ----------------------------
(***************************************************************************)
(* What the worker processes do in either mode: an outbox poller and an    *)
(* event processor that share one database, one clock and one bound on     *)
(* faults.  An event is the row of the outbox it comes from; the events    *)
(* that the worker itself commits (ledger.transaction.recorded and         *)
(* event.processing.failed) are rows of the same outbox.                   *)
(*                                                                         *)
(* ProcessSpec leaves open how a published event gets to a processor: any  *)
(* event may be handed to any idle one.  Pipeline (_run_aws) and           *)
(* LocalWorker (_run_local) say how it does.                               *)
(***************************************************************************)
EXTENDS Integers, FiniteSets

CONSTANTS
    Workers, Events, Sources, KindOf, SourceOf, MaxAttempts, LockSeconds,
    MaxClock, MaxFaults,
    Commands,         \* events committed by the API
    RecordedRow,      \* [subset of Events -> Events]: ledger.transaction.recorded
    NoticeRow,        \* [subset of Events -> Events]: event.processing.failed
    BatchSize,        \* poll_batch_size
    RetryBase, OutboxAttempts

VARIABLES
    attempt, worker, receipts, ledger, recorded, stats, processed, notices, acked,
    row, poller, sent,
    clock, faults,
    turn      \* where each process is in its loop

W == INSTANCE EventProcessing
O == INSTANCE Outbox WITH
    Rows <- Events, Routable <- Events, WellFormed <- Events, Pollers <- Workers,
    MaxAttempts <- OutboxAttempts

workerVars == <<attempt, worker, receipts, ledger, recorded, stats, processed,
                notices, acked>>
outboxVars == <<row, poller, sent>>
processVars == <<workerVars, outboxVars, clock, faults>>

\* The events that follow another one are new: each is enqueued under an id
\* of its own (enqueue_worker_event).
ASSUME ProcessAssumption ==
    /\ W!ParametersAssumption
    /\ O!OutboxAssumption
    /\ IsFiniteSet(Events)
    /\ Commands \subseteq Events
    /\ DOMAIN RecordedRow \subseteq Events
    /\ DOMAIN NoticeRow \subseteq Events
    /\ \A e \in DOMAIN RecordedRow :
          /\ RecordedRow[e] \in Events \ Commands
          /\ \A d \in DOMAIN RecordedRow : RecordedRow[d] = RecordedRow[e] => d = e
          /\ \A d \in DOMAIN NoticeRow : NoticeRow[d] # RecordedRow[e]
    /\ \A e \in DOMAIN NoticeRow :
          /\ NoticeRow[e] \in Events \ Commands
          /\ \A d \in DOMAIN NoticeRow : NoticeRow[d] = NoticeRow[e] => d = e

ProcessInit == W!Init /\ O!Init
-----------------------------------------------------------------------------
GoesTo(p, t) == turn' = [turn EXCEPT ![p] = t]

\* The API commits a command with its event.
Commits(e) ==
    /\ e \in Commands
    /\ O!Enqueue(e)
    /\ UNCHANGED workerVars

\* poll_once
Polls(p) ==
    /\ O!Begin(p) \/ O!Step(p)
    /\ UNCHANGED workerVars

\* An event is handed to process_mapping.
HandedTo(p, e) ==
    /\ W!Receive(p, e)
    /\ UNCHANGED outboxVars

\* The derived events that a transaction of the worker commits with its effects:
\* ledger.transaction.recorded, and event.processing.failed.
RecordedNow ==
    {RecordedRow[e] : e \in {d \in DOMAIN RecordedRow : recorded'[d] > recorded[d]}}

NoticedNow ==
    {NoticeRow[e] : e \in {d \in DOMAIN NoticeRow : notices'[d] > notices[d]}}

\* Mutant: the failure notice is not enqueued.
FollowUpsOfLedger == RecordedNow

FollowUps == RecordedNow \union NoticedNow

\* The steps of process_mapping.
Works(p) ==
    /\ \/ W!Claim(p) \/ W!ClaimError(p) \/ W!Prepare(p) \/ W!PutReceipt(p)
       \/ W!HandleCommit(p) \/ W!HandleAbort(p) \/ W!RecordFailure(p)
    /\ row' = [e \in Events |-> IF e \in FollowUps THEN [row[e] EXCEPT !.status = "pending"]
                               ELSE row[e]]
    /\ UNCHANGED <<poller, sent>>

\* process_mapping has returned; where a queue is, its message is deleted.
Returns(p) ==
    /\ worker[p].stage = "acking"
    /\ acked' \in {acked, acked \union {worker[p].event}}
    /\ W!Release(p)
    /\ UNCHANGED <<attempt, receipts, ledger, recorded, stats, processed, notices,
                   outboxVars, clock, faults>>

\* The process dies wherever it is: its transactions are rolled back.
Dies(p) ==
    /\ O!Fault
    /\ worker' = [worker EXCEPT ![p] = W!Idle]
    /\ poller' = [poller EXCEPT ![p] = O!IdlePoller]
    /\ UNCHANGED <<attempt, receipts, ledger, recorded, stats, processed, notices,
                   acked, row, sent, clock>>

\* Time passes, or something fails outside of the processes.
Passes ==
    /\ clock < MaxClock
    /\ clock' = clock + 1
    /\ UNCHANGED <<workerVars, outboxVars, faults>>

FailsElsewhere == O!Fault /\ UNCHANGED <<workerVars, outboxVars, clock>>

ProcessNext ==
    \/ \E e \in Events : Commits(e)
    \/ \E p \in Workers :
          \/ Polls(p) \/ Works(p) \/ Returns(p) \/ Dies(p)
          \/ \E e \in Events : HandedTo(p, e)
    \/ Passes
    \/ FailsElsewhere

ProcessSpec == ProcessInit /\ [][ProcessNext]_processVars
-----------------------------------------------------------------------------
InOutbox(e) == row[e].status # "absent"

\* What became of an event is announced as it is: ledger.transaction.recorded
\* is in the outbox exactly when the ledger transaction exists, and
\* event.processing.failed exactly when the event is terminal.
OutcomeAnnounced ==
    /\ \A e \in DOMAIN RecordedRow : InOutbox(RecordedRow[e]) <=> W!InLedger(e)
    /\ \A e \in DOMAIN NoticeRow : InOutbox(NoticeRow[e]) <=> attempt[e].terminal

\* The inductive invariant of a process: what holds of the processor and of
\* the poller alone still holds when one database, one clock and one bound on
\* faults serve both, and the outbox tells the outcomes.
ProcessInv ==
    /\ W!TypeOK /\ W!ClaimNumbersDistinct /\ W!SafetyInv
    /\ O!TypeOK /\ O!OutboxInv
    /\ faults <= MaxFaults
    /\ OutcomeAnnounced

\* The processors keep the promise of EventOutcome.
OutcomeKept == W!OutcomeSpec
=============================================================================
