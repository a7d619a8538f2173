-------------------------- MODULE WorkerProcessProofs --------------------------
(***************************************************************************)
(* Proofs about the processes of the worker for every number of workers    *)
(* and events and every setting: what the processor and the outbox poller  *)
(* keep on their own they keep together (ProcessInv), the cloud pipeline   *)
(* and the local loop are such processes, and neither loses or repeats an  *)
(* event otherwise than Pipeline and LocalWorker say.                      *)
(*                                                                         *)
(* WP and OP are the proof modules of the two parts, whose lemmas are used *)
(* here; the first lemmas restate in terms of W and O what is needed.  The *)
(* stores of WP and the history of OP play no part here.                   *)
(***************************************************************************)
EXTENDS Pipeline, LocalWorker, FiniteSetTheorems, TLAPS

WP == INSTANCE EventProcessingProofs WITH
    store <- "s3", object <- receipts, call <- receipts
OP == INSTANCE OutboxProofs WITH
    Rows <- Events, Routable <- Events, WellFormed <- Events, Pollers <- Workers,
    MaxAttempts <- OutboxAttempts, tries <- sent

-----------------------------------------------------------------------------
(* The parts. *)

LEMMA WorkerTypes == (W!TypeOK <=> WP!TypeOK) /\ (W!TypeOK' <=> WP!TypeOK')
BY DEF W!TypeOK, WP!TypeOK, W!Attempt, WP!Attempt, W!Statuses, WP!Statuses,
       W!Worker, WP!Worker, W!Working, WP!Working, W!Idle, WP!Idle, W!Stages, WP!Stages

LEMMA WorkerNumbers ==
    /\ W!ClaimNumbersDistinct <=> WP!ClaimNumbersDistinct
    /\ W!ClaimNumbersDistinct' <=> WP!ClaimNumbersDistinct'
BY DEF W!ClaimNumbersDistinct, WP!ClaimNumbersDistinct, W!Claims, WP!Claims

LEMMA WorkerSafety == (W!SafetyInv <=> WP!SafetyInv) /\ (W!SafetyInv' <=> WP!SafetyInv')
BY DEF W!SafetyInv, WP!SafetyInv, W!EffectsExactlyOnce, WP!EffectsExactlyOnce,
       W!OneLedgerTransactionPerSource, WP!OneLedgerTransactionPerSource,
       W!ReceiptBeforeLedger, WP!ReceiptBeforeLedger,
       W!OneNoticePerTerminalEvent, WP!OneNoticePerTerminalEvent,
       W!DeletedOnlyAfterSuccess, WP!DeletedOnlyAfterSuccess,
       W!StageInv, WP!StageInv, W!StageOK, WP!StageOK, W!Succeeded, WP!Succeeded,
       W!OnceIf, WP!OnceIf, W!InLedger, WP!InLedger, W!HasLedger, WP!HasLedger,
       W!HasStats, WP!HasStats

LEMMA WorkerSteps == W!Next => WP!Next
BY DEF W!Next, WP!Next, W!Tick, WP!Tick, W!Advance, WP!Advance, W!Claim, WP!Claim,
       W!ClaimError, WP!ClaimError,
       W!Prepare, WP!Prepare, W!PutReceipt, WP!PutReceipt, W!HandleCommit, WP!HandleCommit,
       W!HandleAbort, WP!HandleAbort, W!RecordFailure, WP!RecordFailure, W!Delete,
       WP!Delete, W!Crash, WP!Crash, W!Receive, WP!Receive, W!LeaseAhead, WP!LeaseAhead,
       W!Undecided, WP!Undecided, W!Goto, WP!Goto, W!Release, WP!Release, W!Fault,
       WP!Fault, W!effects, WP!effects, W!Idle, WP!Idle, W!LeaseHeld, WP!LeaseHeld,
       W!Claimed, WP!Claimed, W!Failed, WP!Failed, W!ClaimStands, WP!ClaimStands,
       W!Dispatch, WP!Dispatch, W!Dispatchable, WP!Dispatchable, W!WriteLedger,
       WP!WriteLedger, W!InLedger, WP!InLedger, W!LedgerAllows, WP!LedgerAllows,
       W!HasLedger, WP!HasLedger, W!Preparable, WP!Preparable

LEMMA WorkerInit == W!Init => WP!Init
BY DEF W!Init, WP!Init, W!NoAttempt, WP!NoAttempt, W!Idle, WP!Idle

LEMMA OutboxTypes == (O!TypeOK <=> OP!TypeOK) /\ (O!TypeOK' <=> OP!TypeOK')
BY DEF O!TypeOK, OP!TypeOK, O!Row, OP!Row, O!Poller, OP!Poller

LEMMA OutboxSafety == (O!OutboxInv <=> OP!OutboxInv) /\ (O!OutboxInv' <=> OP!OutboxInv')
BY DEF O!OutboxInv, OP!OutboxInv, O!OnePollPerRow, OP!OnePollPerRow,
       O!PublishedWasSent, OP!PublishedWasSent, O!PollsOK, OP!PollsOK, O!CopiesOK,
       OP!CopiesOK, O!Counted, OP!Counted, O!AttemptsBounded, OP!AttemptsBounded,
       O!UntriedOK, OP!UntriedOK

LEMMA OutboxInitial == O!Init => OP!Init /\ OP!TypeOK
BY DEF O!Init, OP!Init, O!NoRow, OP!NoRow, O!IdlePoller, OP!IdlePoller, OP!TypeOK,
       OP!Row, OP!Poller

LEMMA Counts == ASSUME NEW S PROVE O!Cardinality(S) = OP!Cardinality(S)
BY Zenon DEF OP!Cardinality, O!Cardinality

LEMMA Selects == ASSUME NEW p \in Workers, O!Select(p) PROVE OP!Select(p)
BY Counts, Zenon DEF O!Select, OP!Select, O!Due, OP!Due, O!Locked, OP!Locked,
       O!FirstOf, OP!FirstOf, O!IdlePoller, OP!IdlePoller

\* What a poll does is a step of Outbox.
LEMMA OutboxSteps ==
    ASSUME NEW p \in Workers, O!Begin(p) \/ O!Step(p)
    PROVE  OP!Next
<1>1. O!Begin(p) => OP!Begin(p)
  BY DEF O!Begin, OP!Begin
<1>2. O!Step(p) => OP!Step(p)
  <2>1. O!Commit(p) => OP!Commit(p)
    BY DEF O!Commit, OP!Commit, O!Todo, OP!Todo, O!Marked, OP!Marked, O!Retried,
           OP!Retried, O!RetryDelay, OP!RetryDelay, O!IdlePoller, OP!IdlePoller
  <2>2. ASSUME NEW r \in Events
        PROVE  /\ O!PublishOk(p, r) => OP!PublishOk(p, r)
               /\ O!PublishError(p, r) => OP!PublishError(p, r)
    BY DEF O!PublishOk, OP!PublishOk, O!PublishError, OP!PublishError, O!Todo,
           OP!Todo, O!Fault, OP!Fault
  <2>3. QED
    BY <2>1, <2>2, Selects DEF O!Step, OP!Step
<1>3. QED
  BY <1>1, <1>2 DEF OP!Next

LEMMA Settings == WP!ParametersAssumption /\ OP!OutboxAssumption
BY ProcessAssumption DEF W!ParametersAssumption, WP!ParametersAssumption, W!Kinds,
   WP!Kinds, O!OutboxAssumption, OP!OutboxAssumption

LEMMA SamePromise ==
    [WP!Outcome!Next]_(WP!Outcome!vars) => [W!Outcome!Next]_(W!Outcome!vars)
BY DEF W!Outcome!Next, WP!Outcome!Next, W!Outcome!vars, WP!Outcome!vars,
       W!Outcome!Complete, WP!Outcome!Complete, W!Outcome!GiveUp, WP!Outcome!GiveUp,
       W!VerdictOf, WP!VerdictOf, W!HasLedger, WP!HasLedger, W!HasStats, WP!HasStats

\* The processor on its own: what a step keeps, and what it promises.
LEMMA ProcessorStep ==
    ASSUME W!TypeOK, W!ClaimNumbersDistinct, W!SafetyInv, W!Next
    PROVE  /\ W!TypeOK' /\ W!ClaimNumbersDistinct' /\ W!SafetyInv'
           /\ [W!Outcome!Next]_(W!Outcome!vars)
<1>1. WP!TypeOK /\ WP!ClaimNumbersDistinct /\ WP!SafetyInv /\ WP!Next
  BY WorkerTypes, WorkerNumbers, WorkerSafety, WorkerSteps
<1>2. WP!TypeOK' /\ WP!ClaimNumbersDistinct' /\ WP!SafetyInv'
  BY <1>1, Settings, WP!StepsKeepTypes, WP!StepsKeepNumbers, WP!StepsKeepSafety
     DEF WP!ParametersAssumption, WP!Kinds
<1>3. [WP!Outcome!Next]_(WP!Outcome!vars)
  BY <1>1, Settings, WP!StepsKeepPromise DEF WP!ParametersAssumption, WP!Kinds
<1>4. QED
  BY <1>2, <1>3, WorkerTypes, WorkerNumbers, WorkerSafety, SamePromise

\* The processor is not disturbed when a worker is released without having
\* done anything, when time passes or when faults are counted elsewhere.
LEMMA OutsideKeepsProcessor ==
    ASSUME W!TypeOK, W!ClaimNumbersDistinct, W!SafetyInv,
           \A p \in Workers : worker'[p] \in {worker[p], W!Idle},
           worker' \in [Workers -> W!Worker], clock' \in Nat, faults' \in Nat,
           UNCHANGED <<attempt, receipts, ledger, recorded, stats, processed,
                       notices, acked>>
    PROVE  /\ W!TypeOK' /\ W!ClaimNumbersDistinct' /\ W!SafetyInv'
           /\ UNCHANGED W!Outcome!vars
<1>1. W!TypeOK'
  BY DEF W!TypeOK
<1>2. W!ClaimNumbersDistinct'
  BY DEF W!ClaimNumbersDistinct, W!Claims, W!Idle
<1>3. W!EffectsExactlyOnce' /\ W!OneNoticePerTerminalEvent'
  BY DEF W!SafetyInv, W!EffectsExactlyOnce, W!OneNoticePerTerminalEvent, W!InLedger,
         W!Succeeded, W!OnceIf
<1>4. /\ W!OneLedgerTransactionPerSource' /\ W!ReceiptBeforeLedger'
      /\ W!DeletedOnlyAfterSuccess'
  BY DEF W!SafetyInv, W!OneLedgerTransactionPerSource, W!ReceiptBeforeLedger,
         W!DeletedOnlyAfterSuccess, W!Succeeded
<1>5. W!StageInv'
  BY DEF W!SafetyInv, W!StageInv, W!StageOK, W!Succeeded, W!Idle
<1>6. UNCHANGED W!Outcome!vars
  BY DEF W!Outcome!vars
<1>7. QED
  BY <1>1, <1>2, <1>3, <1>4, <1>5, <1>6 DEF W!SafetyInv

\* The poller on its own.
LEMMA PollStep ==
    ASSUME O!TypeOK, O!OutboxInv, NEW p \in Workers, O!Begin(p) \/ O!Step(p)
    PROVE  O!TypeOK' /\ O!OutboxInv'
<1>1. OP!TypeOK /\ OP!OutboxInv /\ OP!Next
  BY OutboxTypes, OutboxSafety, OutboxSteps
<1>2. OP!TypeOK' /\ OP!OutboxInv'
  BY <1>1, Settings, OP!StepsKeepTypes, OP!StepsKeepOutbox DEF OP!OutboxAssumption
<1>3. QED
  BY <1>2, OutboxTypes, OutboxSafety

LEMMA OutsideKeepsPolls ==
    ASSUME O!TypeOK, O!TypeOK', O!OutboxInv, UNCHANGED <<poller, sent>>,
           clock <= clock', faults <= faults',
           \A e \in Events :
              \/ row'[e] = row[e]
              \/ row[e].status = "absent" /\ row'[e] = [row[e] EXCEPT !.status = "pending"]
    PROVE  O!OutboxInv'
<1>1. OP!TypeOK /\ OP!TypeOK' /\ OP!OutboxInv
  BY OutboxTypes, OutboxSafety
<1>2. OP!OutboxInv'
  BY <1>1, Settings, OP!OutsideKeepsOutbox DEF OP!OutboxAssumption
<1>3. QED
  BY <1>2, OutboxSafety

LEMMA DeathKeepsPolls ==
    ASSUME O!TypeOK, O!TypeOK', O!OutboxInv, NEW p \in Workers, O!Fault,
           poller' = [poller EXCEPT ![p] = O!IdlePoller],
           UNCHANGED <<row, sent, clock>>
    PROVE  O!OutboxInv'
<1>1. OP!TypeOK /\ OP!TypeOK' /\ OP!OutboxInv
  BY OutboxTypes, OutboxSafety
<1>2. OP!Fault /\ poller' = [poller EXCEPT ![p] = OP!IdlePoller]
  BY DEF O!Fault, OP!Fault, O!IdlePoller, OP!IdlePoller
<1>3. OP!OutboxInv'
  BY <1>1, <1>2, Settings, OP!Crashed DEF OP!OutboxAssumption
<1>4. QED
  BY <1>3, OutboxSafety
-----------------------------------------------------------------------------
(* The processes. *)

\* A worker that is not idle works on an event.
LEMMA AtWork ==
    ASSUME W!TypeOK, NEW p \in Workers, worker[p].stage # "idle"
    PROVE  worker[p] \in W!Working /\ worker[p].event \in Events
BY DEF W!TypeOK, W!Worker, W!Working, W!Idle

\* No step of the processor takes an effect or a verdict back.
LEMMA VerdictsStay ==
    ASSUME W!TypeOK, W!Next
    PROVE  /\ ledger \subseteq ledger'
           /\ \A e \in Events : /\ attempt[e].terminal => attempt'[e].terminal
                                /\ W!Succeeded(e) => W!Succeeded(e)'
<1>1. CASE UNCHANGED <<attempt, ledger>>
  BY <1>1 DEF W!Succeeded
<1>2. ASSUME NEW p \in Workers, W!Claim(p) \/ W!ClaimError(p)
      PROVE  UNCHANGED ledger /\ \A e \in Events :
                /\ attempt[e].terminal => attempt'[e].terminal
                /\ W!Succeeded(e) => W!Succeeded(e)'
  BY <1>2 DEF W!Claim, W!ClaimError, W!Succeeded, W!effects, W!TypeOK
<1>3. ASSUME NEW p \in Workers, W!RecordFailure(p)
      PROVE  UNCHANGED ledger /\ \A e \in Events :
                /\ attempt[e].terminal => attempt'[e].terminal
                /\ W!Succeeded(e) => W!Succeeded(e)'
  <2>1. ASSUME NEW a \in W!Attempt, NEW n PROVE a.terminal => W!Failed(a, n).terminal
    BY DEF W!Failed, W!Attempt
  <2>2. QED
    BY <1>3, <2>1 DEF W!RecordFailure, W!Succeeded, W!effects, W!TypeOK
<1>4. ASSUME NEW p \in Workers, W!HandleCommit(p)
      PROVE  ledger \subseteq ledger' /\ \A e \in Events :
                /\ attempt[e].terminal => attempt'[e].terminal
                /\ W!Succeeded(e) => W!Succeeded(e)'
  <2>1. ledger \subseteq ledger'
    BY <1>4 DEF W!HandleCommit, W!Dispatch, W!WriteLedger, W!effects
  <2>2. QED
    BY <1>4, <2>1 DEF W!HandleCommit, W!Succeeded, W!TypeOK, W!Attempt
<1>5. QED
  BY <1>1, <1>2, <1>3, <1>4 DEF W!Next, W!Advance, W!Receive, W!Prepare,
     W!PutReceipt, W!HandleAbort, W!Delete, W!Crash, W!Tick, W!effects

\* A poll commits rows of its batch only, which are in the outbox and stay.
LEMMA PollsKeepRows ==
    ASSUME O!TypeOK, O!OutboxInv, NEW p \in Workers, O!Begin(p) \/ O!Step(p),
           NEW e \in Events
    PROVE  /\ InOutbox(e)' <=> InOutbox(e)
           /\ row[e].status = "published" => row'[e].status = "published"
<1>1. CASE UNCHANGED row
  BY <1>1 DEF InOutbox
<1>2. CASE O!Commit(p)
  <2>1. e \in poller[p].ok \union poller[p].failed => e \in poller[p].batch
    BY DEF O!OutboxInv, O!PollsOK
  <2>2. e \in poller[p].batch => row[e].status \in {"pending", "failed"}
    BY DEF O!OutboxInv, O!OnePollPerRow
  <2>3. CASE e \in poller[p].ok
    BY <1>2, <2>1, <2>2, <2>3 DEF O!Commit, O!Marked, InOutbox
  <2>4. CASE e \notin poller[p].ok /\ e \in poller[p].failed
    BY <1>2, <2>1, <2>2, <2>4 DEF O!Commit, O!Retried, InOutbox
  <2>5. CASE e \notin poller[p].ok \union poller[p].failed
    BY <1>2, <2>5 DEF O!Commit, InOutbox
  <2>6. QED
    BY <2>3, <2>4, <2>5
<1>3. QED
  BY <1>1, <1>2 DEF O!Begin, O!Step, O!Select, O!PublishOk, O!PublishError

\* What a transaction of the processor enqueues is new, and tells its outcome.
LEMMA OutcomesFollow ==
    ASSUME ProcessInv, W!Next, W!SafetyInv',
           row' = [e \in Events |-> IF e \in FollowUps
                                    THEN [row[e] EXCEPT !.status = "pending"] ELSE row[e]]
    PROVE  OutcomeAnnounced' /\ \A e \in FollowUps : e \in Events /\ ~InOutbox(e)
<1>1. \A e \in Events :
         /\ recorded'[e] > recorded[e] <=> W!InLedger(e)' /\ ~W!InLedger(e)
         /\ notices'[e] > notices[e] <=> attempt'[e].terminal /\ ~attempt[e].terminal
         /\ W!InLedger(e) => W!InLedger(e)'
         /\ attempt[e].terminal => attempt'[e].terminal
  <2> SUFFICES ASSUME NEW e \in Events
               PROVE  /\ recorded'[e] > recorded[e] <=> W!InLedger(e)' /\ ~W!InLedger(e)
                      /\ notices'[e] > notices[e]
                            <=> attempt'[e].terminal /\ ~attempt[e].terminal
                      /\ W!InLedger(e) => W!InLedger(e)'
                      /\ attempt[e].terminal => attempt'[e].terminal
    OBVIOUS
  <2>1. /\ W!InLedger(e) => W!InLedger(e)'
        /\ attempt[e].terminal => attempt'[e].terminal
    BY VerdictsStay DEF ProcessInv, W!InLedger
  <2>2. /\ recorded[e] = IF W!InLedger(e) THEN 1 ELSE 0
        /\ recorded'[e] = IF W!InLedger(e)' THEN 1 ELSE 0
    BY DEF ProcessInv, W!SafetyInv, W!EffectsExactlyOnce, W!OnceIf
  <2>3. /\ notices[e] = IF attempt[e].terminal THEN 1 ELSE 0
        /\ notices'[e] = IF attempt'[e].terminal THEN 1 ELSE 0
    BY DEF ProcessInv, W!SafetyInv, W!OneNoticePerTerminalEvent, W!OnceIf
  <2>4. QED
    BY <2>1, <2>2, <2>3
<1>2. /\ \A e \in DOMAIN RecordedRow : e \in Events /\ RecordedRow[e] \in Events
      /\ \A e \in DOMAIN NoticeRow : e \in Events /\ NoticeRow[e] \in Events
  BY ProcessAssumption
<1>3. \A e \in DOMAIN RecordedRow :
         RecordedRow[e] \in FollowUps <=> recorded'[e] > recorded[e]
  BY ProcessAssumption DEF FollowUps, RecordedNow, NoticedNow
<1>4. \A e \in DOMAIN NoticeRow :
         NoticeRow[e] \in FollowUps <=> notices'[e] > notices[e]
  BY ProcessAssumption DEF FollowUps, RecordedNow, NoticedNow
<1>5. \A e \in Events :
         InOutbox(e)' <=> InOutbox(e) \/ e \in FollowUps
  <2> SUFFICES ASSUME NEW e \in Events
               PROVE  InOutbox(e)' <=> InOutbox(e) \/ e \in FollowUps
    OBVIOUS
  <2>1. row[e] \in O!Row
    BY DEF ProcessInv, O!TypeOK
  <2>2. QED
    BY <2>1 DEF InOutbox, O!Row
<1>6. OutcomeAnnounced'
  BY <1>1, <1>2, <1>3, <1>4, <1>5 DEF ProcessInv, OutcomeAnnounced
<1>7. ASSUME NEW e \in FollowUps PROVE e \in Events /\ ~InOutbox(e)
  <2>1. CASE \E d \in DOMAIN RecordedRow : e = RecordedRow[d]
    BY <1>1, <1>2, <1>3, <2>1 DEF ProcessInv, OutcomeAnnounced
  <2>2. CASE \E d \in DOMAIN NoticeRow : e = NoticeRow[d]
    BY <1>1, <1>2, <1>4, <2>2 DEF ProcessInv, OutcomeAnnounced
  <2>3. QED
    BY <2>1, <2>2 DEF FollowUps, RecordedNow, NoticedNow
<1>8. QED
  BY <1>6, <1>7

\* What the bound on faults leaves a step.
LEMMA FaultsBounded ==
    ASSUME ProcessInv, O!Fault \/ UNCHANGED faults
    PROVE  faults' \in Nat /\ faults <= faults' /\ faults' <= MaxFaults
BY ProcessAssumption DEF ProcessInv, W!TypeOK, O!Fault, W!ParametersAssumption

\* The verdicts only grow.
VerdictsKept ==
    /\ [W!Outcome!Next]_(W!Outcome!vars)
    /\ \A e \in Events : W!Succeeded(e) => W!Succeeded(e)'
    /\ \A e \in Events : row[e].status = "published" => row'[e].status = "published"

LEMMA CommitKeeps ==
    ASSUME ProcessInv, NEW e \in Events, Commits(e)
    PROVE  ProcessInv' /\ VerdictsKept
<1>1. /\ row' = [row EXCEPT ![e].status = "pending"] /\ row[e].status = "absent"
      /\ UNCHANGED <<workerVars, poller, sent, clock, faults>>
  BY DEF Commits, O!Enqueue
<1>2. row \in [Events -> O!Row]
  BY DEF ProcessInv, O!TypeOK
<1>3. O!TypeOK'
  <2>1. [row[e] EXCEPT !.status = "pending"] \in O!Row
    BY <1>2 DEF O!Row
  <2>2. QED
    BY <1>1, <1>2, <2>1 DEF ProcessInv, O!TypeOK
<1>4. O!OutboxInv'
  <2>1. clock <= clock' /\ faults <= faults'
    BY <1>1 DEF ProcessInv, W!TypeOK
  <2>2. QED
    BY <1>1, <1>2, <1>3, <2>1, OutsideKeepsPolls DEF ProcessInv
<1>5. /\ W!TypeOK' /\ W!ClaimNumbersDistinct' /\ W!SafetyInv'
      /\ UNCHANGED W!Outcome!vars
  <2>1. /\ worker' \in [Workers -> W!Worker] /\ clock' \in Nat /\ faults' \in Nat
        /\ \A p \in Workers : worker'[p] = worker[p]
    BY <1>1 DEF ProcessInv, W!TypeOK, workerVars
  <2>2. QED
    BY <1>1, <2>1, OutsideKeepsProcessor DEF ProcessInv, workerVars
<1>6. OutcomeAnnounced'
  <2>1. \A d \in Events \ {e} : InOutbox(d)' <=> InOutbox(d)
    BY <1>1, <1>2 DEF InOutbox
  <2>2. /\ \A d \in DOMAIN RecordedRow : RecordedRow[d] \in Events \ {e}
        /\ \A d \in DOMAIN NoticeRow : NoticeRow[d] \in Events \ {e}
    BY ProcessAssumption DEF Commits
  <2>3. QED
    BY <1>1, <2>1, <2>2 DEF ProcessInv, OutcomeAnnounced, W!InLedger, workerVars
<1>7. VerdictsKept
  BY <1>1, <1>2, <1>5 DEF VerdictsKept, W!Succeeded, workerVars
<1>8. QED
  BY <1>1, <1>3, <1>4, <1>5, <1>6, <1>7 DEF ProcessInv

LEMMA PollKeeps ==
    ASSUME ProcessInv, NEW p \in Workers, Polls(p)
    PROVE  ProcessInv' /\ VerdictsKept
<1>1. /\ O!Begin(p) \/ O!Step(p)
      /\ UNCHANGED <<workerVars, clock>>
      /\ O!Fault \/ UNCHANGED faults
  BY DEF Polls, O!Begin, O!Step, O!Select, O!PublishOk, O!PublishError, O!Commit
<1>2. O!TypeOK' /\ O!OutboxInv'
  BY <1>1, PollStep DEF ProcessInv
<1>3. /\ W!TypeOK' /\ W!ClaimNumbersDistinct' /\ W!SafetyInv'
      /\ UNCHANGED W!Outcome!vars
  <2>1. /\ worker' \in [Workers -> W!Worker] /\ clock' \in Nat /\ faults' \in Nat
        /\ \A q \in Workers : worker'[q] = worker[q]
    BY <1>1, FaultsBounded DEF ProcessInv, W!TypeOK, workerVars
  <2>2. QED
    BY <1>1, <2>1, OutsideKeepsProcessor DEF ProcessInv, workerVars
<1>4. \A e \in Events :
         /\ InOutbox(e)' <=> InOutbox(e)
         /\ row[e].status = "published" => row'[e].status = "published"
  BY <1>1, PollsKeepRows DEF ProcessInv
<1>5. OutcomeAnnounced'
  BY <1>1, <1>4, ProcessAssumption
     DEF ProcessInv, OutcomeAnnounced, W!InLedger, workerVars
<1>6. VerdictsKept
  BY <1>1, <1>3, <1>4 DEF VerdictsKept, W!Succeeded, workerVars
<1>7. QED
  BY <1>1, <1>2, <1>3, <1>5, <1>6, FaultsBounded DEF ProcessInv

LEMMA HandOverKeeps ==
    ASSUME ProcessInv, NEW p \in Workers, NEW e \in Events, HandedTo(p, e)
    PROVE  ProcessInv' /\ VerdictsKept
<1>1. W!Next /\ UNCHANGED <<attempt, ledger, outboxVars, clock, faults>>
  BY DEF HandedTo, W!Next, W!Receive, W!effects
<1>2. /\ W!TypeOK' /\ W!ClaimNumbersDistinct' /\ W!SafetyInv'
      /\ [W!Outcome!Next]_(W!Outcome!vars)
  BY <1>1, ProcessorStep DEF ProcessInv
<1>3. O!TypeOK'
  BY <1>1 DEF ProcessInv, O!TypeOK, outboxVars
<1>4. O!OutboxInv'
  <2>1. clock <= clock' /\ faults <= faults'
    BY <1>1 DEF ProcessInv, W!TypeOK
  <2>2. QED
    BY <1>1, <1>3, <2>1, OutsideKeepsPolls DEF ProcessInv, outboxVars
<1>5. OutcomeAnnounced'
  BY <1>1 DEF ProcessInv, OutcomeAnnounced, InOutbox, W!InLedger, outboxVars
<1>6. VerdictsKept
  BY <1>1, <1>2 DEF VerdictsKept, W!Succeeded, outboxVars
<1>7. QED
  BY <1>1, <1>2, <1>3, <1>4, <1>5, <1>6 DEF ProcessInv

LEMMA WorkKeeps ==
    ASSUME ProcessInv, NEW p \in Workers, Works(p)
    PROVE  ProcessInv' /\ VerdictsKept
<1>1. /\ \/ W!Claim(p) \/ W!ClaimError(p) \/ W!Prepare(p) \/ W!PutReceipt(p)
         \/ W!HandleCommit(p) \/ W!HandleAbort(p) \/ W!RecordFailure(p)
      /\ row' = [e \in Events |-> IF e \in FollowUps
                                 THEN [row[e] EXCEPT !.status = "pending"] ELSE row[e]]
      /\ UNCHANGED <<poller, sent>>
  BY DEF Works
<1>2. W!Next
  BY <1>1 DEF W!Next, W!Advance
<1>3. UNCHANGED clock /\ (O!Fault \/ UNCHANGED faults)
  BY <1>1 DEF W!Claim, W!ClaimError, W!Prepare, W!PutReceipt, W!HandleCommit,
              W!HandleAbort, W!RecordFailure, W!Fault, O!Fault
<1>4. /\ W!TypeOK' /\ W!ClaimNumbersDistinct' /\ W!SafetyInv'
      /\ [W!Outcome!Next]_(W!Outcome!vars)
  BY <1>2, ProcessorStep DEF ProcessInv
<1>5. OutcomeAnnounced' /\ \A e \in FollowUps : e \in Events /\ ~InOutbox(e)
  BY <1>1, <1>2, <1>4, OutcomesFollow
<1>6. \A e \in Events :
         \/ row'[e] = row[e]
         \/ row[e].status = "absent" /\ row'[e] = [row[e] EXCEPT !.status = "pending"]
  BY <1>1, <1>5 DEF InOutbox
<1>7. faults' \in Nat /\ faults <= faults' /\ faults' <= MaxFaults
  BY <1>3, FaultsBounded
<1>8. O!TypeOK'
  <2>1. \A e \in Events : [row[e] EXCEPT !.status = "pending"] \in O!Row
    BY DEF ProcessInv, O!TypeOK, O!Row
  <2>2. row' \in [Events -> O!Row]
    BY <1>1, <2>1 DEF ProcessInv, O!TypeOK
  <2>3. QED
    BY <1>1, <1>3, <1>7, <2>2 DEF ProcessInv, O!TypeOK
<1>9. O!OutboxInv'
  <2>1. clock <= clock'
    BY <1>3 DEF ProcessInv, W!TypeOK
  <2>2. QED
    BY <1>1, <1>6, <1>7, <1>8, <2>1, OutsideKeepsPolls DEF ProcessInv
<1>10. VerdictsKept
  <2>1. \A e \in Events : W!Succeeded(e) => W!Succeeded(e)'
    BY <1>2, VerdictsStay DEF ProcessInv
  <2>2. \A e \in Events : row[e].status = "published" => row'[e].status = "published"
    BY <1>6
  <2>3. QED
    BY <1>4, <2>1, <2>2 DEF VerdictsKept
<1>11. QED
  BY <1>4, <1>5, <1>7, <1>8, <1>9, <1>10 DEF ProcessInv

\* A step outside of the outbox, and of what it announces.
LEMMA RestKeeps ==
    ASSUME ProcessInv, W!TypeOK', W!ClaimNumbersDistinct', W!SafetyInv',
           [W!Outcome!Next]_(W!Outcome!vars),
           UNCHANGED <<attempt, ledger, outboxVars>>,
           clock <= clock', O!Fault \/ UNCHANGED faults
    PROVE  ProcessInv' /\ VerdictsKept
<1>1. faults' \in Nat /\ faults <= faults' /\ faults' <= MaxFaults
  BY FaultsBounded
<1>2. O!TypeOK'
  BY DEF ProcessInv, O!TypeOK, W!TypeOK, outboxVars
<1>3. O!OutboxInv'
  BY <1>1, <1>2, OutsideKeepsPolls DEF ProcessInv, outboxVars
<1>4. OutcomeAnnounced'
  BY DEF ProcessInv, OutcomeAnnounced, InOutbox, W!InLedger, outboxVars
<1>5. VerdictsKept
  BY DEF VerdictsKept, W!Succeeded, outboxVars
<1>6. QED
  BY <1>1, <1>2, <1>3, <1>4, <1>5 DEF ProcessInv

LEMMA ReturnKeeps ==
    ASSUME ProcessInv, NEW p \in Workers, Returns(p)
    PROVE  ProcessInv' /\ VerdictsKept
<1>1. /\ acked' \in {acked, acked \union {worker[p].event}}
      /\ worker' = [worker EXCEPT ![p] = W!Idle]
      /\ UNCHANGED <<attempt, receipts, ledger, recorded, stats, processed, notices,
                     outboxVars, clock, faults>>
  BY DEF Returns, W!Release
<1>2. CASE acked' = acked
  <2>1. /\ worker' \in [Workers -> W!Worker] /\ clock' \in Nat /\ faults' \in Nat
        /\ \A q \in Workers : worker'[q] \in {worker[q], W!Idle}
    BY <1>1 DEF ProcessInv, W!TypeOK, W!Worker
  <2>2. /\ W!TypeOK' /\ W!ClaimNumbersDistinct' /\ W!SafetyInv'
        /\ UNCHANGED W!Outcome!vars
    BY <1>1, <1>2, <2>1, OutsideKeepsProcessor DEF ProcessInv
  <2>3. clock <= clock'
    BY <1>1 DEF ProcessInv, W!TypeOK
  <2>4. QED
    BY <1>1, <2>2, <2>3, RestKeeps
<1>3. CASE acked' = acked \union {worker[p].event}
  <2>1. W!Next
    BY <1>1, <1>3 DEF Returns, W!Next, W!Advance, W!Delete, W!effects
  <2>2. /\ W!TypeOK' /\ W!ClaimNumbersDistinct' /\ W!SafetyInv'
        /\ [W!Outcome!Next]_(W!Outcome!vars)
    BY <2>1, ProcessorStep DEF ProcessInv
  <2>3. clock <= clock'
    BY <1>1 DEF ProcessInv, W!TypeOK
  <2>4. QED
    BY <1>1, <2>2, <2>3, RestKeeps
<1>4. QED
  BY <1>1, <1>2, <1>3

LEMMA DeathKeeps ==
    ASSUME ProcessInv, NEW p \in Workers, Dies(p)
    PROVE  ProcessInv' /\ VerdictsKept
<1>1. /\ O!Fault
      /\ worker' = [worker EXCEPT ![p] = W!Idle]
      /\ poller' = [poller EXCEPT ![p] = O!IdlePoller]
      /\ UNCHANGED <<attempt, receipts, ledger, recorded, stats, processed, notices,
                     acked, row, sent, clock>>
  BY DEF Dies
<1>2. faults' \in Nat /\ faults <= faults' /\ faults' <= MaxFaults
  BY <1>1, FaultsBounded
<1>3. /\ W!TypeOK' /\ W!ClaimNumbersDistinct' /\ W!SafetyInv'
      /\ UNCHANGED W!Outcome!vars
  <2>1. /\ worker' \in [Workers -> W!Worker] /\ clock' \in Nat
        /\ \A q \in Workers : worker'[q] \in {worker[q], W!Idle}
    BY <1>1 DEF ProcessInv, W!TypeOK, W!Worker
  <2>2. QED
    BY <1>1, <1>2, <2>1, OutsideKeepsProcessor DEF ProcessInv
<1>4. O!TypeOK'
  <2>1. O!IdlePoller \in O!Poller
    BY DEF O!IdlePoller, O!Poller
  <2>2. QED
    BY <1>1, <1>2, <2>1 DEF ProcessInv, O!TypeOK
<1>5. O!OutboxInv'
  BY <1>1, <1>4, DeathKeepsPolls DEF ProcessInv
<1>6. OutcomeAnnounced'
  BY <1>1 DEF ProcessInv, OutcomeAnnounced, InOutbox, W!InLedger
<1>7. VerdictsKept
  BY <1>1, <1>3 DEF VerdictsKept, W!Succeeded
<1>8. QED
  BY <1>2, <1>3, <1>4, <1>5, <1>6, <1>7 DEF ProcessInv

\* Time passes, a fault happens elsewhere, or nothing happens.
LEMMA WorldKeeps ==
    ASSUME ProcessInv, Passes \/ FailsElsewhere \/ UNCHANGED processVars
    PROVE  ProcessInv' /\ VerdictsKept
<1>1. /\ UNCHANGED <<workerVars, outboxVars>>
      /\ clock' \in Nat /\ clock <= clock'
      /\ O!Fault \/ UNCHANGED faults
  BY DEF Passes, FailsElsewhere, processVars, ProcessInv, W!TypeOK
<1>2. /\ W!TypeOK' /\ W!ClaimNumbersDistinct' /\ W!SafetyInv'
      /\ UNCHANGED W!Outcome!vars
  <2>1. /\ worker' \in [Workers -> W!Worker] /\ faults' \in Nat
        /\ \A q \in Workers : worker'[q] = worker[q]
    BY <1>1, FaultsBounded DEF ProcessInv, W!TypeOK, workerVars
  <2>2. QED
    BY <1>1, <2>1, OutsideKeepsProcessor DEF ProcessInv, workerVars
<1>3. QED
  BY <1>1, <1>2, RestKeeps DEF workerVars

\* Whatever the processes do, each on its own database transactions, the
\* invariant is kept and no verdict is revised.
LEMMA ProcessStepsKeep ==
    ProcessInv /\ [ProcessNext]_processVars => ProcessInv' /\ VerdictsKept
BY CommitKeeps, PollKeeps, HandOverKeeps, WorkKeeps, ReturnKeeps, DeathKeeps, WorldKeeps
   DEF ProcessNext

LEMMA ProcessInitIsSafe == ProcessInit => ProcessInv /\ W!Outcome!Init
<1> SUFFICES ASSUME ProcessInit PROVE ProcessInv /\ W!Outcome!Init
  OBVIOUS
<1>1. W!TypeOK /\ W!ClaimNumbersDistinct /\ W!SafetyInv
  <2>1. WP!TypeOK /\ WP!ClaimNumbersDistinct /\ WP!SafetyInv
    BY Settings, WorkerInit, WP!InitIsSafe DEF ProcessInit, WP!ParametersAssumption, WP!Kinds
  <2>2. QED
    BY <2>1, WorkerTypes, WorkerNumbers, WorkerSafety
<1>2. O!TypeOK /\ O!OutboxInv
  <2>1. OP!TypeOK /\ OP!OutboxInv
    BY Settings, OutboxInitial, OP!InitIsSafe DEF ProcessInit, OP!OutboxAssumption
  <2>2. QED
    BY <2>1, OutboxTypes, OutboxSafety
<1>3. faults <= MaxFaults
  BY ProcessAssumption DEF ProcessInit, W!Init, W!ParametersAssumption
<1>4. OutcomeAnnounced
  <2>1. \A e \in Events : /\ ~InOutbox(e)
                          /\ ~W!InLedger(e)
                          /\ ~attempt[e].terminal
    BY DEF ProcessInit, W!Init, O!Init, InOutbox, W!InLedger, O!NoRow, W!NoAttempt
  <2>2. QED
    BY <2>1, ProcessAssumption DEF OutcomeAnnounced
<1>5. W!Outcome!Init
  BY DEF ProcessInit, W!Init, W!Outcome!Init, W!VerdictOf, W!NoAttempt
<1>6. QED
  BY <1>1, <1>2, <1>3, <1>4, <1>5 DEF ProcessInv

\* The invariant of the processes: the processor, the poller and what they
\* commit together stay consistent, however events get from one to the other.
THEOREM ProcessSafety == ProcessSpec => []ProcessInv
BY ProcessInitIsSafe, ProcessStepsKeep, PTL DEF ProcessSpec

\* ledger.transaction.recorded is in the outbox exactly when the ledger
\* transaction exists, event.processing.failed exactly when the event is
\* terminal.
COROLLARY OutcomesAreAnnounced == ProcessSpec => []OutcomeAnnounced
BY ProcessSafety, PTL DEF ProcessInv

\* The processes implement the atomic promise of EventOutcome: every event
\* takes all its effects in one step or is given up in one, for ever.
THEOREM ProcessesKeepPromise == ProcessSpec => OutcomeKept
<1>1. VerdictsKept => [W!Outcome!Next]_(W!Outcome!vars)
  BY DEF VerdictsKept
<1>2. QED
  BY <1>1, ProcessInitIsSafe, ProcessStepsKeep, ProcessSafety, PTL
     DEF ProcessSpec, OutcomeKept, W!OutcomeSpec, W!Outcome!Spec
-----------------------------------------------------------------------------
(* The cloud pipeline. *)

\* A step of the processor leaves its worker at its event, or releases it,
\* and no other worker moves.
LEMMA WorksOnItsEvent ==
    ASSUME W!TypeOK, NEW p \in Workers, Works(p)
    PROVE  /\ worker[p] \in W!Working
           /\ \/ worker'[p] = W!Idle
              \/ worker'[p].stage \notin {"idle", "claiming"} /\ worker'[p].event = worker[p].event
           /\ \A q \in Workers \ {p} : worker'[q] = worker[q]
<1>1. worker[p].stage # "idle"
  BY DEF Works, W!Claim, W!ClaimError, W!Prepare, W!PutReceipt, W!HandleCommit,
         W!HandleAbort, W!RecordFailure
<1>2. worker[p] \in W!Working /\ worker \in [Workers -> W!Worker]
  BY <1>1, AtWork DEF W!TypeOK
<1>3. \/ W!Release(p)
      \/ \E t \in {"acking", "claimed", "prepared", "ready", "failing"} : W!Goto(p, t)
      \/ \E n : worker' = [worker EXCEPT ![p].stage = "claimed", ![p].number = n]
  BY DEF Works, W!Claim, W!ClaimError, W!Prepare, W!PutReceipt, W!HandleCommit,
         W!HandleAbort, W!RecordFailure
<1>4. CASE W!Release(p)
  BY <1>2, <1>4 DEF W!Release
<1>5. CASE \E t \in {"acking", "claimed", "prepared", "ready", "failing"} : W!Goto(p, t)
  BY <1>2, <1>5 DEF W!Goto, W!Working
<1>6. CASE \E n : worker' = [worker EXCEPT ![p].stage = "claimed", ![p].number = n]
  BY <1>2, <1>6 DEF W!Working
<1>7. QED
  BY <1>2, <1>3, <1>4, <1>5, <1>6

\* Every step of the pipeline is one of the processes, or one of the bus and
\* the queue, which they do not see.
LEMMA PipelineSteps ==
    QueueTypeOK /\ [Next]_vars => [ProcessNext]_processVars
<1> SUFFICES ASSUME QueueTypeOK, [Next]_vars PROVE ProcessNext \/ UNCHANGED processVars
  OBVIOUS
<1>1. ASSUME NEW e \in Events, Enqueue(e) PROVE ProcessNext
  BY <1>1 DEF Enqueue, ProcessNext
<1>2. ASSUME NEW p \in Workers,
             Begin(p) \/ Select(p) \/ (\E e \in Events : Publish(p, e)) \/ CommitPoll(p)
      PROVE  ProcessNext
  <2>1. Polls(p)
    BY <1>2 DEF Begin, Select, Publish, CommitPoll, Polls, O!Step
  <2>2. QED
    BY <2>1 DEF ProcessNext
<1>3. ASSUME NEW p \in Workers, NEW h \in inbox[p], Start(p, h) PROVE ProcessNext
  <2>1. h[1][1] \in Events
    BY DEF QueueTypeOK, Handle, Copies
  <2>2. HandedTo(p, h[1][1])
    BY <1>3 DEF Start, HandedTo
  <2>3. QED
    BY <2>1, <2>2 DEF ProcessNext
<1>4. ASSUME NEW p \in Workers, Process(p) PROVE ProcessNext
  BY <1>4 DEF Process, ProcessNext
<1>5. ASSUME NEW p \in Workers, Delete(p) PROVE ProcessNext
  <2>1. Returns(p)
    BY <1>5 DEF Delete, W!Delete, Returns, W!effects
  <2>2. QED
    BY <2>1 DEF ProcessNext
<1>6. ASSUME NEW p \in Workers, Crash(p) PROVE ProcessNext
  BY <1>6 DEF Crash, ProcessNext
<1>7. ASSUME NEW p \in Workers, Loop(p) \/ ReceiveBatch(p) PROVE UNCHANGED processVars
  BY <1>7 DEF Loop, ReceiveBatch, Receive, processVars
<1>8. ASSUME NEW m \in Copies, Deliver(m) \/ Redrive(m) PROVE UNCHANGED processVars
  BY <1>8 DEF Deliver, Redrive, processVars
<1>9. ASSUME NEW m \in Copies, GiveUp(m) PROVE ProcessNext
  BY <1>9 DEF GiveUp, ProcessNext
<1>10. CASE Tick
  BY <1>10 DEF Tick, ProcessNext
<1>11. CASE UNCHANGED vars
  BY <1>11 DEF vars
<1>12. QED
  BY <1>1, <1>2, <1>3, <1>4, <1>5, <1>6, <1>7, <1>8, <1>9, <1>10, <1>11
     DEF Next, Advance

\* A message is moved.
LEMMA Placed ==
    ASSUME QueueTypeOK, NEW m \in Copies,
           NEW where \in {"bus", "queue", "deleted", "dead", "undelivered"},
           Place(m, where)
    PROVE  /\ msg' \in [Copies -> Message]
           /\ msg'[m].place = where
           /\ \A n \in Copies \ {m} : msg'[n] = msg[n]
<1>1. msg \in [Copies -> Message] /\ msg[m] \in Message
  BY DEF QueueTypeOK
<1>2. [msg[m] EXCEPT !.place = where] \in Message
  BY <1>1 DEF Message
<1>3. msg' = [msg EXCEPT ![m] = [msg[m] EXCEPT !.place = where]]
  BY DEF Place
<1>4. QED
  BY <1>1, <1>2, <1>3 DEF Message

Kept(m) == msg[m].place \notin {"unsent", "deleted"}

\* The copies of an event stay if no kept copy is lost before the event's
\* effects are committed and what the bus takes is kept.
LEMMA CopiesKept ==
    ASSUME CopiesStay, VerdictsKept,
           \A e \in Events : sent'[e] # sent[e] => \E m \in CopiesOf(e) : Kept(m)',
           \A m \in Copies : Kept(m) => Kept(m)' \/ W!Succeeded(m[1])
    PROVE  CopiesStay'
<1> SUFFICES ASSUME NEW e \in Events, sent'[e] > 0, ~W!Succeeded(e)'
             PROVE  \E m \in CopiesOf(e) : Kept(m)'
  BY DEF CopiesStay, Kept, CopiesOf, Copies
<1>1. ~W!Succeeded(e)
  BY DEF VerdictsKept
<1>2. CASE sent'[e] = sent[e]
  <2>1. PICK m \in CopiesOf(e) : Kept(m)
    BY <1>1, <1>2 DEF CopiesStay, Kept
  <2>2. m \in Copies /\ m[1] = e
    BY DEF CopiesOf
  <2>3. QED
    BY <1>1, <2>1, <2>2
<1>3. QED
  BY <1>2

\* A handle stays good for the worker that holds it.
LEMMA HandlesKept ==
    ASSUME QueueTypeOK, HandlesOK,
           \A p \in Workers : worker'[p] # W!Idle =>
              /\ worker[p] # W!Idle
              /\ worker'[p].event = worker[p].event
              /\ handle'[p] = handle[p]
    PROVE  HandlesOK'
BY DEF HandlesOK, Handle

\* The bus has a copy for every publication it takes.
LEMMA CopyIsNew ==
    ASSUME ProcessInv, ProcessInv', NEW e \in Events, sent'[e] # sent[e],
           sent'[e] >= sent[e]
    PROVE  <<e, sent'[e]>> \in Copies
<1>1. /\ sent[e] \in Nat /\ sent'[e] \in Nat /\ faults' \in Nat /\ MaxFaults \in Nat
  BY ProcessAssumption DEF ProcessInv, O!TypeOK, W!TypeOK, W!ParametersAssumption
<1>2. sent'[e] <= faults' + 1 /\ faults' <= MaxFaults
  BY <1>1 DEF ProcessInv, O!OutboxInv, O!CopiesOK
<1>3. QED
  BY <1>1, <1>2 DEF Copies

LEMMA PublishKeepsQueue ==
    ASSUME ProcessInv, ProcessInv', VerdictsKept, QueueInv,
           NEW p \in Workers, NEW e \in Events, Publish(p, e)
    PROVE  QueueInv'
<1>1. /\ UNCHANGED <<worker, inbox, handle, turn>>
      /\ IF sent'[e] # sent[e] THEN Place(<<e, sent'[e]>>, "bus") ELSE UNCHANGED msg
  BY DEF Publish, workerVars
<1>2. /\ \A d \in Events \ {e} : sent'[d] = sent[d]
      /\ sent'[e] >= sent[e]
  BY DEF Publish, O!PublishOk, O!PublishError, ProcessInv, O!TypeOK
<1>3. HandlesOK'
  BY <1>1, HandlesKept DEF QueueInv
<1>4. CASE UNCHANGED msg /\ sent'[e] = sent[e]
  <2>1. CopiesStay'
    BY <1>2, <1>4, CopiesKept DEF QueueInv, Kept
  <2>2. QED
    BY <1>1, <1>3, <1>4, <2>1 DEF QueueInv, QueueTypeOK
<1>5. CASE sent'[e] # sent[e]
  <2>1. PICK m \in Copies : m = <<e, sent'[e]>>
    BY <1>2, <1>5, CopyIsNew
  <2>2. Place(m, "bus") /\ m[1] = e
    BY <1>1, <1>5, <2>1
  <2>3. /\ msg' \in [Copies -> Message]
        /\ msg'[m].place = "bus"
        /\ \A n \in Copies \ {m} : msg'[n] = msg[n]
    BY <2>1, <2>2, Placed DEF QueueInv
  <2>4. CopiesStay'
    <3>1. Kept(m)' /\ \A n \in Copies : Kept(n) => Kept(n)'
      BY <2>3 DEF Kept
    <3>2. \A d \in Events : sent'[d] # sent[d] => \E n \in CopiesOf(d) : Kept(n)'
      BY <1>2, <2>2, <3>1 DEF CopiesOf
    <3>3. QED
      BY <3>1, <3>2, CopiesKept DEF QueueInv
  <2>5. QED
    BY <1>1, <1>3, <2>3, <2>4 DEF QueueInv, QueueTypeOK
<1>6. QED
  BY <1>1, <1>4, <1>5

\* The bus, the redrive policy or the last error moves a message that it has.
LEMMA TransportKeepsQueue ==
    ASSUME QueueInv, VerdictsKept, NEW m \in Copies,
           Deliver(m) \/ GiveUp(m) \/ Redrive(m)
    PROVE  QueueInv'
<1>1. /\ UNCHANGED <<worker, sent, inbox, handle, turn>>
      /\ \E where \in {"queue", "undelivered", "dead"} : Place(m, where)
  BY DEF Deliver, GiveUp, Redrive, FailsElsewhere, workerVars, outboxVars
<1>2. PICK where \in {"queue", "undelivered", "dead"} : Place(m, where)
  BY <1>1
<1>3. /\ msg' \in [Copies -> Message]
      /\ msg'[m].place = where
      /\ \A n \in Copies \ {m} : msg'[n] = msg[n]
  BY <1>2, Placed DEF QueueInv
<1>4. CopiesStay'
  BY <1>1, <1>3, CopiesKept DEF QueueInv, Kept
<1>5. HandlesOK'
  BY <1>1, HandlesKept DEF QueueInv
<1>6. QED
  BY <1>1, <1>3, <1>4, <1>5 DEF QueueInv, QueueTypeOK

LEMMA ReceiveKeepsQueue ==
    ASSUME ProcessInv, QueueInv, VerdictsKept,
           NEW p \in Workers, NEW S \in SUBSET Receivable, Receive(p, S)
    PROVE  QueueInv'
<1>1. /\ msg' = [m \in Copies |->
                   IF m \in S THEN [msg[m] EXCEPT !.receives = @ + 1,
                                                  !.hiddenUntil = clock + Visibility]
                   ELSE msg[m]]
      /\ inbox' = [inbox EXCEPT ![p] = {<<m, msg[m].receives + 1>> : m \in S}]
      /\ turn' = [turn EXCEPT ![p] = "process"]
      /\ UNCHANGED <<worker, sent, handle>>
  BY DEF Receive, GoesTo, workerVars, outboxVars
<1>2. clock + Visibility \in Nat
  BY PipelineAssumption DEF ProcessInv, W!TypeOK
<1>3. \A m \in Copies : msg'[m] \in Message /\ msg'[m].place = msg[m].place
  <2> SUFFICES ASSUME NEW m \in Copies
               PROVE  msg'[m] \in Message /\ msg'[m].place = msg[m].place
    OBVIOUS
  <2>1. msg[m] \in Message
    BY DEF QueueInv, QueueTypeOK
  <2>2. \A c \in Message : /\ [c EXCEPT !.receives = @ + 1] \in Message
                           /\ [c EXCEPT !.receives = @ + 1].place = c.place
    BY DEF Message
  <2>3. \A c \in Message, t \in Nat : /\ [c EXCEPT !.hiddenUntil = t] \in Message
                                     /\ [c EXCEPT !.hiddenUntil = t].place = c.place
    BY DEF Message
  <2>4. PICK c \in Message : c = [msg[m] EXCEPT !.receives = @ + 1] /\ c.place = msg[m].place
    BY <2>1, <2>2
  <2>5. msg'[m] = IF m \in S THEN [c EXCEPT !.hiddenUntil = clock + Visibility] ELSE msg[m]
    BY <1>1, <2>4, Zenon
  <2>6. c.place = msg[m].place
    BY <2>4, Zenon
  <2>7. /\ [c EXCEPT !.hiddenUntil = clock + Visibility] \in Message
        /\ [c EXCEPT !.hiddenUntil = clock + Visibility].place = msg[m].place
    BY <1>2, <2>3, <2>6
  <2>8. QED
    BY <2>1, <2>5, <2>7
<1>4. msg' \in [Copies -> Message]
  BY <1>1, <1>3
<1>5. {<<m, msg[m].receives + 1>> : m \in S} \in SUBSET Handle
  <2>1. \A m \in S : m \in Copies /\ msg[m].receives + 1 \in Nat
    BY DEF Receivable, QueueInv, QueueTypeOK, Message
  <2>2. QED
    BY <2>1 DEF Handle
<1>6. QueueTypeOK'
  BY <1>1, <1>4, <1>5 DEF QueueInv, QueueTypeOK, Turns
<1>7. CopiesStay'
  BY <1>1, <1>3, CopiesKept DEF QueueInv, Kept
<1>8. HandlesOK'
  BY <1>1, HandlesKept DEF QueueInv
<1>9. QED
  BY <1>6, <1>7, <1>8 DEF QueueInv

\* The next message is taken in hand; it stays where it is.
LEMMA StartKeepsQueue ==
    ASSUME ProcessInv, QueueInv, VerdictsKept,
           NEW p \in Workers, NEW h \in inbox[p], Start(p, h)
    PROVE  QueueInv'
<1>1. /\ inbox' = [inbox EXCEPT ![p] = @ \ {h}]
      /\ handle' = [handle EXCEPT ![p] = h]
      /\ UNCHANGED <<sent, msg, turn>>
  BY DEF Start, outboxVars
<1>2. h \in Handle
  BY DEF QueueInv, QueueTypeOK
<1>3. /\ worker'[p].event = h[1][1]
      /\ \A q \in Workers \ {p} : worker'[q] = worker[q]
  BY DEF Start, W!Receive, ProcessInv, W!TypeOK
<1>4. QueueTypeOK'
  BY <1>1, <1>2 DEF QueueInv, QueueTypeOK
<1>5. HandlesOK'
  BY <1>1, <1>2, <1>3 DEF QueueInv, QueueTypeOK, HandlesOK
<1>6. CopiesStay'
  BY <1>1, CopiesKept DEF QueueInv, Kept
<1>7. QED
  BY <1>4, <1>5, <1>6 DEF QueueInv

LEMMA ProcessKeepsQueue ==
    ASSUME ProcessInv, QueueInv, VerdictsKept, NEW p \in Workers, Process(p)
    PROVE  QueueInv'
<1>1. /\ handle' = IF worker'[p] = W!Idle THEN [handle EXCEPT ![p] = NoHandle]
                   ELSE handle
      /\ UNCHANGED <<sent, inbox, msg, turn>>
  BY DEF Process, Works
<1>2. /\ worker[p] # W!Idle
      /\ worker'[p] = W!Idle \/ worker'[p].event = worker[p].event
      /\ \A q \in Workers \ {p} : worker'[q] = worker[q]
  BY WorksOnItsEvent DEF Process, ProcessInv, W!Working, W!Idle
<1>3. QueueTypeOK'
  BY <1>1 DEF QueueInv, QueueTypeOK
<1>4. HandlesOK'
  BY <1>1, <1>2, HandlesKept DEF QueueInv, QueueTypeOK
<1>5. CopiesStay'
  BY <1>1, CopiesKept DEF QueueInv, Kept
<1>6. QED
  BY <1>3, <1>4, <1>5 DEF QueueInv

\* The message that is deleted is one of the event that the worker has just
\* found applied.
LEMMA DeleteKeepsQueue ==
    ASSUME ProcessInv, QueueInv, VerdictsKept, NEW p \in Workers, Delete(p)
    PROVE  QueueInv'
<1>1. /\ worker[p].stage = "acking" /\ worker' = [worker EXCEPT ![p] = W!Idle]
      /\ handle' = [handle EXCEPT ![p] = NoHandle]
      /\ UNCHANGED <<sent, inbox, turn>>
      /\ Place(handle[p][1], "deleted") \/ UNCHANGED msg
  BY DEF Delete, W!Delete, W!Release, outboxVars
<1>2. handle[p] \in Handle /\ handle[p][1][1] = worker[p].event
  BY <1>1 DEF QueueInv, HandlesOK, W!Idle
<1>3. PICK m \in Copies : m = handle[p][1] /\ m[1] = worker[p].event
  BY <1>2 DEF Handle
<1>4. W!Succeeded(m[1])
  BY <1>1, <1>3 DEF ProcessInv, W!SafetyInv, W!StageInv, W!StageOK
<1>5. /\ msg' \in [Copies -> Message]
      /\ \A n \in Copies \ {m} : msg'[n] = msg[n]
  BY <1>1, <1>3, Placed DEF QueueInv, QueueTypeOK
<1>6. QueueTypeOK'
  BY <1>1, <1>5 DEF QueueInv, QueueTypeOK
<1>7. HandlesOK'
  <2>1. \A q \in Workers : worker'[q] # W!Idle =>
           worker[q] = worker'[q] /\ handle'[q] = handle[q]
    BY <1>1 DEF QueueInv, QueueTypeOK, ProcessInv, W!TypeOK
  <2>2. QED
    BY <2>1, HandlesKept DEF QueueInv
<1>8. CopiesStay'
  BY <1>1, <1>4, <1>5, CopiesKept DEF QueueInv, Kept
<1>9. QED
  BY <1>6, <1>7, <1>8 DEF QueueInv

LEMMA CrashKeepsQueue ==
    ASSUME ProcessInv, QueueInv, VerdictsKept, NEW p \in Workers, Crash(p)
    PROVE  QueueInv'
<1>1. /\ worker' = [worker EXCEPT ![p] = W!Idle]
      /\ turn' = [turn EXCEPT ![p] = "poll"]
      /\ inbox' = [inbox EXCEPT ![p] = {}]
      /\ handle' = [handle EXCEPT ![p] = NoHandle]
      /\ UNCHANGED <<sent, msg>>
  BY DEF Crash, Dies, GoesTo
<1>2. QueueTypeOK'
  BY <1>1 DEF QueueInv, QueueTypeOK, Turns
<1>3. HandlesOK'
  <2>1. \A q \in Workers : worker'[q] # W!Idle =>
           worker[q] = worker'[q] /\ handle'[q] = handle[q]
    BY <1>1 DEF QueueInv, QueueTypeOK, ProcessInv, W!TypeOK
  <2>2. QED
    BY <2>1, HandlesKept DEF QueueInv
<1>4. CopiesStay'
  BY <1>1, CopiesKept DEF QueueInv, Kept
<1>5. QED
  BY <1>2, <1>3, <1>4 DEF QueueInv

\* Other steps touch neither a message nor a worker.
LEMMA OtherStepsKeepQueue ==
    ASSUME QueueInv, VerdictsKept,
           UNCHANGED <<worker, sent, queueVars>>, turn' \in [Workers -> Turns]
    PROVE  QueueInv'
<1>1. QueueTypeOK'
  BY DEF QueueInv, QueueTypeOK, queueVars
<1>2. HandlesOK'
  BY HandlesKept DEF QueueInv, queueVars
<1>3. CopiesStay'
  BY CopiesKept DEF QueueInv, Kept, queueVars
<1>4. QED
  BY <1>1, <1>2, <1>3 DEF QueueInv

LEMMA PipelineStepsKeep ==
    ProcessInv /\ QueueInv /\ [Next]_vars => ProcessInv' /\ QueueInv'
<1> SUFFICES ASSUME ProcessInv, QueueInv, [Next]_vars PROVE ProcessInv' /\ QueueInv'
  OBVIOUS
<1>1. ProcessInv' /\ VerdictsKept
  BY PipelineSteps, ProcessStepsKeep DEF QueueInv
<1>2. ASSUME NEW p \in Workers, NEW e \in Events, Publish(p, e) PROVE QueueInv'
  BY <1>1, <1>2, PublishKeepsQueue
<1>3. ASSUME NEW m \in Copies, Deliver(m) \/ GiveUp(m) \/ Redrive(m) PROVE QueueInv'
  BY <1>1, <1>3, TransportKeepsQueue
<1>4. ASSUME NEW p \in Workers, ReceiveBatch(p) PROVE QueueInv'
  BY <1>1, <1>4, ReceiveKeepsQueue DEF ReceiveBatch
<1>5. ASSUME NEW p \in Workers,
             (\E h \in inbox[p] : Start(p, h)) \/ Process(p) \/ Delete(p) \/ Crash(p)
      PROVE  QueueInv'
  BY <1>1, <1>5, StartKeepsQueue, ProcessKeepsQueue, DeleteKeepsQueue, CrashKeepsQueue
<1>6. ASSUME NEW p \in Workers, Begin(p) \/ Select(p) \/ CommitPoll(p) \/ Loop(p)
      PROVE  QueueInv'
  <2>1. UNCHANGED <<worker, sent, queueVars>> /\ turn' \in [Workers -> Turns]
    BY <1>6 DEF Begin, Select, CommitPoll, Loop, O!Begin, O!Select, O!Commit, GoesTo,
                workerVars, outboxVars, QueueInv, QueueTypeOK, Turns
  <2>2. QED
    BY <1>1, <2>1, OtherStepsKeepQueue
<1>7. CASE Tick \/ (\E e \in Events : Enqueue(e)) \/ UNCHANGED vars
  <2>1. UNCHANGED <<worker, sent, queueVars, turn>>
    BY <1>7 DEF Tick, Passes, Enqueue, Commits, O!Enqueue, vars, processVars, workerVars,
                outboxVars
  <2>2. QED
    BY <1>1, <2>1, OtherStepsKeepQueue DEF QueueInv, QueueTypeOK
<1>8. QED
  BY <1>1, <1>2, <1>3, <1>4, <1>5, <1>6, <1>7 DEF Next, Advance

\* The invariant of the cloud pipeline.
THEOREM PipelineSafety == Spec => [](ProcessInv /\ QueueInv)
<1>1. Init => ProcessInv /\ QueueInv
  <2> SUFFICES ASSUME Init PROVE QueueInv
    BY ProcessInitIsSafe DEF Init
  <2>1. QueueTypeOK
    BY DEF Init, QueueTypeOK, Turns, Message
  <2>2. HandlesOK
    BY DEF Init, ProcessInit, W!Init, HandlesOK
  <2>3. CopiesStay
    BY DEF Init, ProcessInit, O!Init, CopiesStay
  <2>4. QED
    BY <2>1, <2>2, <2>3 DEF QueueInv
<1>2. QED
  BY <1>1, PipelineStepsKeep, PTL DEF Spec

\* The cloud pipeline is an implementation of the processes: between the bus,
\* the queue, redelivery and crashes a worker only ever does what they may do.
THEOREM PipelineImplementsProcess == Spec => ProcessSpec
<1>1. Init => ProcessInit
  BY DEF Init
<1>2. QueueInv /\ [Next]_vars => [ProcessNext]_processVars
  BY PipelineSteps DEF QueueInv
<1>3. QED
  BY <1>1, <1>2, PipelineSafety, PTL DEF Spec, ProcessSpec

\* No published event disappears on its way before its effects are committed,
\* whoever crashes, retries or deletes with an old handle (_run_aws).
THEOREM PipelineLosesNothing == Spec => []NothingLost
<1>1. ProcessInv /\ QueueInv => NothingLost
  <2> SUFFICES ASSUME ProcessInv, QueueInv, NEW e \in Events,
                      row[e].status = "published", ~W!Succeeded(e)
               PROVE  \E m \in CopiesOf(e) : msg[m].place \notin {"unsent", "deleted"}
    BY DEF NothingLost
  <2>1. sent[e] > 0
    BY DEF ProcessInv, O!OutboxInv, O!PublishedWasSent
  <2>2. QED
    BY <2>1 DEF QueueInv, CopiesStay
<1>2. QED
  BY <1>1, PipelineSafety, PTL

\* The pipeline announces what became of an event as it is.
THEOREM PipelineAnnounces == Spec => []OutcomeAnnounced
BY PipelineSafety, PTL DEF ProcessInv

\* The pipeline keeps the atomic promise of EventOutcome.
THEOREM PipelineKeepsPromise == Spec => OutcomeKept
BY PipelineImplementsProcess, ProcessesKeepPromise, PTL
-----------------------------------------------------------------------------
(* The local loop. *)

\* Every step of the local loop is one of the processes.
LEMMA LocalSteps ==
    LocalTypeOK /\ [LocalNext]_localVars => [ProcessNext]_processVars
<1> SUFFICES ASSUME LocalTypeOK, [LocalNext]_localVars
             PROVE  ProcessNext \/ UNCHANGED processVars
  OBVIOUS
<1>1. ASSUME NEW e \in Events, LocalEnqueue(e) PROVE ProcessNext
  BY <1>1 DEF LocalEnqueue, ProcessNext
<1>2. ASSUME NEW p \in Workers,
             \/ LocalBegin(p) \/ LocalSelect(p)
             \/ (\E e \in Events : Collect(p, e)) \/ LocalCommit(p)
      PROVE  ProcessNext
  <2>1. Polls(p)
    BY <1>2 DEF LocalBegin, LocalSelect, Collect, LocalCommit, Polls, O!Step
  <2>2. QED
    BY <2>1 DEF ProcessNext
<1>3. ASSUME NEW p \in Workers, HandOver(p) PROVE ProcessNext
  <2>1. Head(current[p]) \in Events
    BY <1>3 DEF HandOver, LocalTypeOK
  <2>2. HandedTo(p, Head(current[p]))
    BY <1>3 DEF HandOver, HandedTo
  <2>3. QED
    BY <2>1, <2>2 DEF ProcessNext
<1>4. ASSUME NEW p \in Workers, LocalProcess(p) \/ Return(p) \/ LocalCrash(p)
      PROVE  ProcessNext
  BY <1>4 DEF LocalProcess, Return, LocalCrash, ProcessNext
<1>5. ASSUME NEW p \in Workers, LocalLoop(p) \/ Restart(p) PROVE UNCHANGED processVars
  BY <1>5 DEF LocalLoop, Restart, processVars
<1>6. CASE LocalTick
  BY <1>6 DEF LocalTick, ProcessNext
<1>7. CASE UNCHANGED localVars
  BY <1>7 DEF localVars
<1>8. QED
  BY <1>1, <1>2, <1>3, <1>4, <1>5, <1>6, <1>7 DEF LocalNext, LocalAdvance

\* The lists of a process.
LEMMA AppendedRange ==
    ASSUME NEW s \in Seq(Events), NEW e \in Events
    PROVE  /\ Append(s, e) \in Seq(Events)
           /\ Range(Append(s, e)) = Range(s) \union {e}
           /\ IsInjective(s) /\ e \notin Range(s) => IsInjective(Append(s, e))
<1> DEFINE t == Append(s, e)
<1>1. /\ t \in Seq(Events) /\ Len(s) \in Nat
      /\ DOMAIN s = 1 .. Len(s) /\ DOMAIN t = 1 .. (Len(s) + 1)
      /\ t[Len(s) + 1] = e /\ \A i \in 1 .. Len(s) : t[i] = s[i]
  OBVIOUS
<1> HIDE DEF t
<1>2. Range(t) \subseteq Range(s) \union {e}
  <2> SUFFICES ASSUME NEW i \in DOMAIN t PROVE t[i] \in Range(s) \union {e}
    BY DEF Range
  <2>1. i = Len(s) + 1 \/ i \in DOMAIN s
    BY <1>1
  <2>2. QED
    BY <1>1, <2>1 DEF Range
<1>3. Range(s) \union {e} \subseteq Range(t)
  <2>1. e \in Range(t)
    BY <1>1 DEF Range
  <2>2. \A i \in DOMAIN s : i \in DOMAIN t /\ t[i] = s[i]
    BY <1>1
  <2>3. QED
    BY <2>1, <2>2 DEF Range
<1>4. ASSUME IsInjective(s), e \notin Range(s) PROVE IsInjective(t)
  <2>1. \A i \in DOMAIN t : i = Len(s) + 1 \/ (i \in DOMAIN s /\ t[i] \in Range(s))
    BY <1>1 DEF Range
  <2>2. QED
    BY <1>1, <1>4, <2>1 DEF IsInjective
<1>5. QED
  BY <1>1, <1>2, <1>3, <1>4 DEF t

LEMMA TakenRange ==
    ASSUME NEW s \in Seq(Events), s # <<>>
    PROVE  /\ Head(s) \in Events /\ Tail(s) \in Seq(Events)
           /\ Range(s) = {Head(s)} \union Range(Tail(s))
           /\ IsInjective(s) => IsInjective(Tail(s)) /\ Head(s) \notin Range(Tail(s))
<1>1. /\ Head(s) \in Events /\ Tail(s) \in Seq(Events)
      /\ Len(s) \in Nat \ {0} /\ DOMAIN s = 1 .. Len(s) /\ Head(s) = s[1]
      /\ DOMAIN Tail(s) = 1 .. (Len(s) - 1)
      /\ \A i \in 1 .. (Len(s) - 1) : Tail(s)[i] = s[i + 1]
  OBVIOUS
<1>2. Range(s) = {Head(s)} \union Range(Tail(s))
  <2>1. Range(s) \subseteq {Head(s)} \union Range(Tail(s))
    <3> SUFFICES ASSUME NEW i \in DOMAIN s PROVE s[i] \in {Head(s)} \union Range(Tail(s))
      BY DEF Range
    <3>1. i = 1 \/ (i - 1 \in DOMAIN Tail(s) /\ Tail(s)[i - 1] = s[i])
      BY <1>1
    <3>2. QED
      BY <1>1, <3>1 DEF Range
  <2>2. Range(Tail(s)) \subseteq Range(s)
    <3> SUFFICES ASSUME NEW i \in DOMAIN Tail(s) PROVE Tail(s)[i] \in Range(s)
      BY DEF Range
    <3>1. i + 1 \in DOMAIN s /\ Tail(s)[i] = s[i + 1]
      BY <1>1
    <3>2. QED
      BY <3>1 DEF Range
  <2>3. Head(s) \in Range(s)
    BY <1>1 DEF Range
  <2>4. QED
    BY <2>1, <2>2, <2>3
<1>3. ASSUME IsInjective(s) PROVE IsInjective(Tail(s)) /\ Head(s) \notin Range(Tail(s))
  BY <1>1, <1>3 DEF IsInjective, Range
<1>4. QED
  BY <1>1, <1>2, <1>3

LEMMA EmptyList == Range(<<>>) = {} /\ IsInjective(<<>>) /\ <<>> \in Seq(Events)
BY DEF Range, IsInjective

LEMMA EmptyRange ==
    ASSUME NEW s \in Seq(Events), Range(s) = {}
    PROVE  s = <<>>
<1>1. DOMAIN s = 1 .. Len(s) /\ Len(s) \in Nat
  OBVIOUS
<1>2. DOMAIN s = {}
  BY DEF Range
<1>3. Len(s) = 0
  BY <1>1, <1>2
<1>4. QED
  BY <1>3

\* Outside of a poll the publisher's list is empty.
LEMMA ListsAtTurn ==
    ASSUME LocalTypeOK, NEW p \in Workers, LoopOK(p), turn[p] # "polling"
    PROVE  published[p] = <<>>
<1>1. Range(published[p]) = {} /\ published[p] \in Seq(Events)
  BY DEF LoopOK, LocalTypeOK, O!IdlePoller
<1>2. QED
  BY <1>1, EmptyRange

LEMMA ConcatRange ==
    ASSUME NEW s \in Seq(Events), NEW t \in Seq(Events), NEW e \in Events
    PROVE  (\E i \in DOMAIN (s \o t) : (s \o t)[i] = e) <=> e \in Range(s) \/ e \in Range(t)
<1>1. /\ s \o t \in Seq(Events) /\ Len(s) \in Nat /\ Len(t) \in Nat
      /\ DOMAIN (s \o t) = 1 .. (Len(s) + Len(t))
      /\ DOMAIN s = 1 .. Len(s) /\ DOMAIN t = 1 .. Len(t)
      /\ \A i \in 1 .. (Len(s) + Len(t)) :
            (s \o t)[i] = IF i <= Len(s) THEN s[i] ELSE t[i - Len(s)]
  OBVIOUS
<1>2. ASSUME NEW i \in DOMAIN (s \o t), (s \o t)[i] = e
      PROVE  e \in Range(s) \/ e \in Range(t)
  <2>1. i \in 1 .. Len(s) \/ i - Len(s) \in 1 .. Len(t)
    BY <1>1
  <2>2. QED
    BY <1>1, <1>2, <2>1 DEF Range
<1>3. ASSUME NEW i \in DOMAIN s, s[i] = e
      PROVE  \E j \in DOMAIN (s \o t) : (s \o t)[j] = e
  BY <1>1, <1>3
<1>4. ASSUME NEW i \in DOMAIN t, t[i] = e
      PROVE  \E j \in DOMAIN (s \o t) : (s \o t)[j] = e
  <2>1. i + Len(s) \in DOMAIN (s \o t) /\ (s \o t)[i + Len(s)] = e
    BY <1>1, <1>4
  <2>2. QED
    BY <2>1
<1>5. QED
  BY <1>2, <1>3, <1>4 DEF Range

\* What a process holds is in its lists or in the hands of its processor.
LEMMA HoldsIs ==
    ASSUME NEW p \in Workers, NEW e \in Events
    PROVE  /\ LocalTypeOK => (Holds(p, e) <=> InHand(p, e) \/ e \in Range(published[p])
                                                \/ e \in Range(current[p]))
           /\ LocalTypeOK' => (Holds(p, e)' <=> InHand(p, e)' \/ e \in Range(published'[p])
                                                  \/ e \in Range(current'[p]))
<1>1. ASSUME LocalTypeOK
      PROVE  Holds(p, e) <=> InHand(p, e) \/ e \in Range(published[p])
                               \/ e \in Range(current[p])
  <2>1. PICK s \in Seq(Events), t \in Seq(Events) : s = published[p] /\ t = current[p]
    BY <1>1 DEF LocalTypeOK
  <2>2. (\E i \in DOMAIN (s \o t) : (s \o t)[i] = e) <=> e \in Range(s) \/ e \in Range(t)
    BY ConcatRange
  <2>3. QED
    BY <2>1, <2>2 DEF Holds, Listed
<1>2. ASSUME LocalTypeOK'
      PROVE  Holds(p, e)' <=> InHand(p, e)' \/ e \in Range(published'[p])
                                \/ e \in Range(current'[p])
  <2>1. PICK s \in Seq(Events), t \in Seq(Events) : s = published'[p] /\ t = current'[p]
    BY <1>2 DEF LocalTypeOK
  <2>2. (\E i \in DOMAIN (s \o t) : (s \o t)[i] = e) <=> e \in Range(s) \/ e \in Range(t)
    BY ConcatRange
  <2>3. QED
    BY <2>1, <2>2 DEF Holds, Listed
<1>3. QED
  BY <1>1, <1>2

\* The invariants of the local loop, kept by every action below.
LocalSafe == LocalInv /\ LossesNeedDeaths

LEMMA OthersLoop ==
    ASSUME LocalInv, NEW p \in Workers, LoopOK(p)',
           \A q \in Workers \ {p} :
              /\ worker'[q] = worker[q] /\ poller'[q] = poller[q] /\ turn'[q] = turn[q]
              /\ published'[q] = published[q] /\ current'[q] = current[q]
    PROVE  \A q \in Workers : LoopOK(q)'
<1>1. ASSUME NEW q \in Workers \ {p} PROVE LoopOK(q)'
  BY DEF LocalInv, LoopOK
<1>2. QED
  BY <1>1

\* No event is claimed and nobody new is to claim one.
LEMMA ClaimsKept ==
    ASSUME ClaimedOnce, VerdictsKept,
           \A e \in Events : attempt'[e].number = attempt[e].number,
           \A p \in Workers, e \in Events :
              /\ Awaits(p, e)' => Awaits(p, e)
              /\ Claimant(p, e)' /\ e \in Range(current'[p])
                    => Claimant(p, e) /\ e \in Range(current[p])
    PROVE  ClaimedOnce'
BY DEF ClaimedOnce, VerdictsKept

LEMMA FiniteHeld ==
    ASSUME NEW S, NEW n \in Nat, S \subseteq Events, Cardinality(S) <= n,
           NEW T, T \subseteq S
    PROVE  IsFiniteSet(T) /\ Cardinality(T) <= n
<1>1. IsFiniteSet(S)
  BY FS_Subset, ProcessAssumption
<1>2. Cardinality(S) \in Nat
  BY <1>1, FS_CardinalityType
<1>3. /\ IsFiniteSet(T) /\ Cardinality(T) \in Nat /\ Cardinality(T) <= Cardinality(S)
  BY <1>1, FS_Subset, FS_CardinalityType
<1>4. QED
  BY <1>2, <1>3

LEMMA BatchKept ==
    ASSUME ProcessInv, HoldsABatch,
           \A p \in Workers : poller'[p].batch \subseteq poller[p].batch,
           \A p \in Workers, e \in Events : Holds(p, e)' => Holds(p, e)
    PROVE  HoldsABatch'
<1> SUFFICES ASSUME NEW p \in Workers
             PROVE  /\ Cardinality(poller'[p].batch) <= BatchSize
                    /\ Cardinality(Held(p)') <= BatchSize
  BY DEF HoldsABatch
<1>1. BatchSize \in Nat
  BY ProcessAssumption DEF O!OutboxAssumption
<1>2. poller[p].batch \subseteq Events /\ Held(p) \subseteq Events
  BY DEF ProcessInv, O!TypeOK, O!Poller, Held
<1>3. Held(p)' \subseteq Held(p)
  BY DEF Held
<1>4. QED
  BY <1>1, <1>2, <1>3, FiniteHeld DEF HoldsABatch

LostEvents == {e \in Events : Lost(e)}

LEMMA LossesKept ==
    ASSUME LossesNeedDeaths, VerdictsKept, deaths' = deaths, deaths \in Nat,
           \A e \in Events : row'[e].status = "published" =>
              row[e].status = "published" \/ \E p \in Workers : Holds(p, e)',
           \A p \in Workers, e \in Events :
              Holds(p, e) => Holds(p, e)' \/ W!Succeeded(e)'
    PROVE  LossesNeedDeaths'
<1>1. deaths * BatchSize \in Nat
  BY ProcessAssumption DEF O!OutboxAssumption
<1>2. LostEvents' \subseteq LostEvents /\ LostEvents \subseteq Events
  BY DEF LostEvents, Lost, VerdictsKept
<1>3. Cardinality(LostEvents) <= deaths * BatchSize
  BY DEF LossesNeedDeaths, LostEvents
<1>4. Cardinality(LostEvents') <= deaths * BatchSize
  BY <1>1, <1>2, <1>3, FiniteHeld
<1>5. QED
  BY <1>4 DEF LossesNeedDeaths, LostEvents

\* A process that ends loses at most what it holds.
LEMMA LossesAtDeath ==
    ASSUME ProcessInv, LocalSafe, VerdictsKept, NEW p \in Workers, deaths' = deaths + 1,
           \A e \in Events : row'[e].status = "published" => row[e].status = "published",
           \A q \in Workers \ {p}, e \in Events : Holds(q, e) => Holds(q, e)'
    PROVE  LossesNeedDeaths'
<1>1. deaths \in Nat /\ BatchSize \in Nat
  BY ProcessAssumption DEF O!OutboxAssumption, LocalSafe, LocalInv, LocalTypeOK
<1>2. /\ LostEvents' \subseteq LostEvents \union Held(p)
      /\ LostEvents \subseteq Events /\ Held(p) \subseteq Events
  BY DEF LostEvents, Lost, Held, VerdictsKept
<1>3. Cardinality(LostEvents) <= deaths * BatchSize /\ Cardinality(Held(p)) <= BatchSize
  BY DEF LocalSafe, LocalInv, HoldsABatch, LossesNeedDeaths, LostEvents
<1>4. IsFiniteSet(LostEvents) /\ IsFiniteSet(Held(p))
  BY <1>2, FS_Subset, ProcessAssumption
<1>5. /\ IsFiniteSet(LostEvents \union Held(p))
      /\ Cardinality(LostEvents \union Held(p))
           <= Cardinality(LostEvents) + Cardinality(Held(p))
  <2>1. /\ Cardinality(LostEvents \union Held(p)) =
             Cardinality(LostEvents) + Cardinality(Held(p))
               - Cardinality(LostEvents \intersect Held(p))
        /\ IsFiniteSet(LostEvents \union Held(p))
    BY <1>4, FS_Union
  <2>2. Cardinality(LostEvents \intersect Held(p)) \in Nat
    BY <1>4, FS_Subset, FS_CardinalityType
  <2>3. Cardinality(LostEvents) \in Nat /\ Cardinality(Held(p)) \in Nat
    BY <1>4, FS_CardinalityType
  <2>4. QED
    BY <2>1, <2>2, <2>3
<1>6. /\ Cardinality(LostEvents') <= Cardinality(LostEvents \union Held(p))
      /\ Cardinality(LostEvents') \in Nat
      /\ Cardinality(LostEvents \union Held(p)) \in Nat
      /\ Cardinality(LostEvents) \in Nat /\ Cardinality(Held(p)) \in Nat
  BY <1>2, <1>4, <1>5, FS_Subset, FS_CardinalityType
<1>7. deaths * BatchSize \in Nat /\ deaths' * BatchSize = deaths * BatchSize + BatchSize
  BY <1>1
<1>8. Cardinality(LostEvents') <= deaths' * BatchSize
  BY <1>1, <1>3, <1>5, <1>6, <1>7
<1>9. QED
  BY <1>8 DEF LossesNeedDeaths, LostEvents

\* A step that changes neither what the processes hold nor what is claimed.
LEMMA QuietKeeps ==
    ASSUME ProcessInv, LocalSafe, VerdictsKept,
           UNCHANGED <<worker, attempt, lists, deaths>>,
           turn' \in [Workers -> LocalTurns], \A p \in Workers : LoopOK(p)',
           \A p \in Workers : Cardinality(poller'[p].batch) <= BatchSize,
           \A e \in Events : row'[e].status = "published" => row[e].status = "published"
    PROVE  LocalSafe'
<1>1. LocalTypeOK'
  BY DEF LocalSafe, LocalInv, LocalTypeOK, lists
<1>2. \A p \in Workers, e \in Events : /\ Holds(p, e)' <=> Holds(p, e)
                                       /\ Awaits(p, e)' <=> Awaits(p, e)
                                       /\ Claimant(p, e)' <=> Claimant(p, e)
  BY DEF Holds, InHand, Listed, Awaits, Claimant, lists
<1>3. ClaimedOnce'
  BY <1>2, ClaimsKept DEF LocalSafe, LocalInv, lists
<1>4. HoldsABatch'
  <2>1. \A p \in Workers : Held(p)' = Held(p)
    BY <1>2 DEF Held
  <2>2. QED
    BY <2>1 DEF LocalSafe, LocalInv, HoldsABatch
<1>5. LossesNeedDeaths'
  BY <1>2, LossesKept DEF LocalSafe, LocalInv, LocalTypeOK
<1>6. QED
  BY <1>1, <1>3, <1>4, <1>5 DEF LocalSafe, LocalInv

LEMMA EnqueueKeepsLocal ==
    ASSUME ProcessInv, LocalSafe, VerdictsKept, NEW e \in Events, LocalEnqueue(e)
    PROVE  LocalSafe'
<1>1. /\ UNCHANGED <<worker, attempt, lists, deaths, turn, poller>>
      /\ row' = [row EXCEPT ![e].status = "pending"]
  BY DEF LocalEnqueue, Commits, O!Enqueue, workerVars
<1>2. \A d \in Events : row'[d].status = "published" => row[d].status = "published"
  BY <1>1 DEF ProcessInv, O!TypeOK, O!Row
<1>3. \A p \in Workers : LoopOK(p)'
  BY <1>1 DEF LocalSafe, LocalInv, LoopOK, lists
<1>4. QED
  BY <1>1, <1>2, <1>3, QuietKeeps DEF LocalSafe, LocalInv, LocalTypeOK, HoldsABatch

LEMMA BeginKeepsLocal ==
    ASSUME ProcessInv, LocalSafe, VerdictsKept, NEW p \in Workers, LocalBegin(p)
    PROVE  LocalSafe'
<1>1. /\ turn[p] = "poll" /\ turn' = [turn EXCEPT ![p] = "polling"]
      /\ poller' = [poller EXCEPT ![p].stage = "polling", ![p].now = clock]
      /\ UNCHANGED <<worker, attempt, lists, deaths, row>>
  BY DEF LocalBegin, O!Begin, GoesTo, workerVars
<1>2. /\ poller \in [Workers -> O!Poller] /\ turn \in [Workers -> LocalTurns]
      /\ LoopOK(p)
  BY DEF ProcessInv, O!TypeOK, LocalSafe, LocalInv, LocalTypeOK
<1>3. /\ poller'[p].batch = poller[p].batch /\ poller'[p].ok = poller[p].ok
      /\ poller'[p].failed = poller[p].failed /\ turn'[p] = "polling"
      /\ \A q \in Workers \ {p} : poller'[q] = poller[q] /\ turn'[q] = turn[q]
  BY <1>1, <1>2 DEF O!Poller
<1>4. LoopOK(p)'
  BY <1>1, <1>2, <1>3 DEF LoopOK, lists
<1>5. \A q \in Workers : LoopOK(q)'
  BY <1>1, <1>3, <1>4, OthersLoop DEF LocalSafe, lists
<1>6. turn' \in [Workers -> LocalTurns]
  BY <1>1, <1>2 DEF LocalTurns
<1>7. QED
  BY <1>1, <1>3, <1>5, <1>6, QuietKeeps DEF LocalSafe, LocalInv, HoldsABatch

LEMMA LoopKeepsLocal ==
    ASSUME ProcessInv, LocalSafe, VerdictsKept, NEW p \in Workers,
           LocalLoop(p) \/ Restart(p)
    PROVE  LocalSafe'
<1>1. /\ turn[p] # "polling" /\ turn' = [turn EXCEPT ![p] = "poll"]
      /\ worker[p] = W!Idle /\ current[p] = <<>>
      /\ UNCHANGED <<worker, attempt, lists, deaths, row, poller>>
  BY DEF LocalLoop, Restart, GoesTo, workerVars, outboxVars, LocalSafe, LocalInv, LoopOK
<1>2. turn \in [Workers -> LocalTurns] /\ LoopOK(p)
  BY DEF LocalSafe, LocalInv, LocalTypeOK
<1>3. LoopOK(p)'
  BY <1>1, <1>2 DEF LoopOK, lists
<1>4. \A q \in Workers : LoopOK(q)'
  BY <1>1, <1>2, <1>3, OthersLoop DEF LocalSafe, lists
<1>5. turn' \in [Workers -> LocalTurns]
  BY <1>1, <1>2 DEF LocalTurns
<1>6. QED
  BY <1>1, <1>4, <1>5, QuietKeeps DEF LocalSafe, LocalInv, HoldsABatch

LEMMA TickKeepsLocal ==
    ASSUME ProcessInv, LocalSafe, VerdictsKept, LocalTick \/ UNCHANGED localVars
    PROVE  LocalSafe'
<1>1. UNCHANGED <<worker, attempt, lists, deaths, turn, poller, row>>
  BY DEF LocalTick, Passes, localVars, processVars, workerVars, outboxVars
<1>2. \A p \in Workers : LoopOK(p)'
  BY <1>1 DEF LocalSafe, LocalInv, LoopOK, lists
<1>3. QED
  BY <1>1, <1>2, QuietKeeps DEF LocalSafe, LocalInv, LocalTypeOK, HoldsABatch

\* A process at its poll.
LEMMA AtPoll ==
    ASSUME LocalSafe, ProcessInv, NEW p \in Workers, poller[p] # O!IdlePoller
    PROVE  /\ turn[p] = "polling" /\ worker[p] = W!Idle /\ current[p] = <<>>
           /\ published[p] \in Seq(Events) /\ IsInjective(published[p])
           /\ Range(published[p]) = poller[p].ok /\ poller[p].failed = {}
           /\ poller[p].ok \subseteq poller[p].batch /\ poller[p].batch \subseteq Events
           /\ Cardinality(poller[p].batch) <= BatchSize
BY DEF LocalSafe, LocalInv, LoopOK, LocalTypeOK, HoldsABatch, ProcessInv, O!OutboxInv,
       O!PollsOK, O!TypeOK, O!Poller

\* The publisher appends to its list what the poll has in its batch.
LEMMA CollectKeepsLocal ==
    ASSUME ProcessInv, LocalSafe, VerdictsKept, NEW p \in Workers, NEW e \in Events,
           Collect(p, e)
    PROVE  LocalSafe'
<1>1. /\ e \in poller[p].batch /\ e \notin poller[p].ok
      /\ poller' = [poller EXCEPT ![p].ok = @ \union {e}]
      /\ published' = [published EXCEPT ![p] = Append(@, e)]
      /\ UNCHANGED <<worker, attempt, row, current, turn, deaths>>
  BY DEF Collect, O!PublishOk, O!Todo, workerVars
<1>2. /\ poller \in [Workers -> O!Poller]
      /\ published \in [Workers -> Seq(Events)]
  BY DEF ProcessInv, O!TypeOK, LocalSafe, LocalInv, LocalTypeOK
<1>3. poller[p] # O!IdlePoller
  BY <1>1 DEF O!IdlePoller
<1>4. /\ poller'[p].ok = poller[p].ok \union {e} /\ poller'[p].batch = poller[p].batch
      /\ poller'[p].failed = poller[p].failed
      /\ published'[p] = Append(published[p], e)
      /\ \A q \in Workers \ {p} : poller'[q] = poller[q] /\ published'[q] = published[q]
  BY <1>1, <1>2 DEF O!Poller
<1>5. /\ Append(published[p], e) \in Seq(Events)
      /\ Range(published'[p]) = Range(published[p]) \union {e}
      /\ IsInjective(published'[p])
  BY <1>1, <1>3, <1>4, AtPoll, AppendedRange
<1>6. LoopOK(p)'
  BY <1>1, <1>3, <1>4, <1>5, AtPoll DEF LoopOK, LocalSafe, LocalInv
<1>7. \A q \in Workers : LoopOK(q)'
  BY <1>1, <1>4, <1>6, OthersLoop DEF LocalSafe
<1>8. LocalTypeOK'
  BY <1>1, <1>2, <1>5 DEF LocalSafe, LocalInv, LocalTypeOK
<1>9. ClaimedOnce'
  BY <1>1, ClaimsKept DEF LocalSafe, LocalInv, Awaits, Claimant, InHand
<1>10. \A q \in Workers, d \in Events :
          /\ Holds(q, d) => Holds(q, d)'
          /\ q # p => (Holds(q, d)' => Holds(q, d))
          /\ Holds(p, d)' => d \in poller[p].batch
  <2> SUFFICES ASSUME NEW q \in Workers, NEW d \in Events
               PROVE  /\ Holds(q, d) => Holds(q, d)'
                      /\ q # p => (Holds(q, d)' => Holds(q, d))
                      /\ Holds(p, d)' => d \in poller[p].batch
    OBVIOUS
  <2>1. Holds(q, d) <=> \/ InHand(q, d)
                        \/ d \in Range(published[q])
                        \/ d \in Range(current[q])
    BY HoldsIs DEF LocalSafe, LocalInv
  <2>2. /\ Holds(q, d)' <=> \/ InHand(q, d)'
                            \/ d \in Range(published'[q])
                            \/ d \in Range(current'[q])
        /\ Holds(p, d)' <=> \/ InHand(p, d)'
                            \/ d \in Range(published'[p])
                            \/ d \in Range(current'[p])
    BY <1>8, HoldsIs
  <2>3. InHand(q, d)' <=> InHand(q, d)
    BY <1>1 DEF InHand
  <2>4. ~InHand(p, d)' /\ current'[p] = <<>>
    BY <1>1, <1>3, AtPoll DEF InHand
  <2>5. QED
    BY <1>1, <1>3, <1>4, <1>5, <2>1, <2>2, <2>3, <2>4, AtPoll, EmptyList
<1>11. HoldsABatch'
  <2>1. BatchSize \in Nat
    BY ProcessAssumption DEF O!OutboxAssumption
  <2>2. Cardinality(Held(p)') <= BatchSize /\ Cardinality(poller'[p].batch) <= BatchSize
    <3>1. Held(p)' \subseteq poller[p].batch
      BY <1>10 DEF Held
    <3>2. QED
      BY <1>3, <1>4, <2>1, <3>1, AtPoll, FiniteHeld
  <2>3. \A q \in Workers \ {p} : Held(q)' = Held(q)
    BY <1>10 DEF Held
  <2>4. QED
    BY <1>4, <2>2, <2>3 DEF HoldsABatch, LocalSafe, LocalInv
<1>12. LossesNeedDeaths'
  BY <1>1, <1>10, LossesKept DEF LocalSafe, LocalInv, LocalTypeOK
<1>13. QED
  BY <1>7, <1>8, <1>9, <1>11, <1>12 DEF LocalSafe, LocalInv

LEMMA SameCount == ASSUME NEW S PROVE O!Cardinality(S) = Cardinality(S)
BY Zenon DEF Cardinality, O!Cardinality

\* A poll takes at most BatchSize rows.
LEMMA BatchTaken ==
    ASSUME NEW p \in Workers, O!Select(p)
    PROVE  \E T \in SUBSET Events :
              /\ Cardinality(T) <= BatchSize
              /\ poller' = IF T = {} THEN [poller EXCEPT ![p] = O!IdlePoller]
                           ELSE [poller EXCEPT ![p].batch = T]
<1>1. PICK S \in SUBSET Events, T \in SUBSET Events :
         /\ O!FirstOf(T, S)
         /\ poller' = IF T = {} THEN [poller EXCEPT ![p] = O!IdlePoller]
                      ELSE [poller EXCEPT ![p].batch = T]
  <2> DEFINE due == {r \in Events : O!Due(r, poller[p].now)} \ O!Locked
  <2>1. PICK T \in SUBSET due :
           /\ O!FirstOf(T, due)
           /\ poller' = IF T = {} THEN [poller EXCEPT ![p] = O!IdlePoller]
                        ELSE [poller EXCEPT ![p].batch = T]
    BY DEF O!Select
  <2>2. due \in SUBSET Events
    OBVIOUS
  <2> HIDE DEF due
  <2>3. QED
    BY <2>1, <2>2
<1>2. Cardinality(T) = BatchSize \/ (T = S /\ Cardinality(S) < BatchSize)
  BY <1>1, SameCount, Zenon DEF O!FirstOf
<1>3. BatchSize \in Nat
  BY ProcessAssumption DEF O!OutboxAssumption
<1>4. IsFiniteSet(T) /\ Cardinality(T) \in Nat
  BY FS_Subset, FS_CardinalityType, ProcessAssumption
<1>5. Cardinality(T) <= BatchSize
  BY <1>2, <1>3, <1>4
<1>6. QED
  BY <1>1, <1>5

\* A poll that finds nothing hands over an empty list.
LEMMA SelectKeepsLocal ==
    ASSUME ProcessInv, LocalSafe, VerdictsKept, NEW p \in Workers, LocalSelect(p)
    PROVE  LocalSafe'
<1>1. PICK T \in SUBSET Events :
         /\ Cardinality(T) <= BatchSize
         /\ poller' = IF T = {} THEN [poller EXCEPT ![p] = O!IdlePoller]
                      ELSE [poller EXCEPT ![p].batch = T]
  BY BatchTaken DEF LocalSelect
<1>2. /\ poller[p].stage = "polling" /\ poller[p].batch = {}
      /\ poller \in [Workers -> O!Poller] /\ turn \in [Workers -> LocalTurns]
      /\ published \in [Workers -> Seq(Events)] /\ current \in [Workers -> Seq(Events)]
      /\ UNCHANGED <<worker, attempt, row, deaths>>
  BY DEF LocalSelect, O!Select, workerVars, ProcessInv, O!TypeOK, LocalSafe, LocalInv,
         LocalTypeOK
<1>3. poller[p] # O!IdlePoller
  BY <1>2 DEF O!IdlePoller
<1>4. /\ turn[p] = "polling" /\ worker[p] = W!Idle /\ current[p] = <<>>
      /\ poller[p].ok = {} /\ poller[p].failed = {} /\ published[p] = <<>>
  BY <1>2, <1>3, AtPoll, EmptyRange
<1>5. /\ UNCHANGED lists
      /\ turn' = IF poller'[p] = O!IdlePoller THEN [turn EXCEPT ![p] = "process"] ELSE turn
  BY <1>2, <1>4 DEF LocalSelect, Take, GoesTo, lists
<1>6. CASE T = {}
  <2>1. /\ poller'[p] = O!IdlePoller /\ turn' = [turn EXCEPT ![p] = "process"]
        /\ \A q \in Workers \ {p} : poller'[q] = poller[q] /\ turn'[q] = turn[q]
    BY <1>1, <1>2, <1>5, <1>6
  <2>2. LoopOK(p)'
    BY <1>2, <1>4, <1>5, <2>1, EmptyList DEF LoopOK, lists, O!IdlePoller
  <2>3. \A q \in Workers : LoopOK(q)'
    BY <1>2, <1>5, <2>1, <2>2, OthersLoop DEF LocalSafe, lists
  <2>4. \A q \in Workers : Cardinality(poller'[q].batch) <= BatchSize
    BY <1>1, <1>2, <1>6, <2>1 DEF LocalSafe, LocalInv, HoldsABatch, O!IdlePoller
  <2>5. turn' \in [Workers -> LocalTurns]
    BY <1>2, <2>1 DEF LocalTurns
  <2>6. QED
    BY <1>2, <1>5, <2>3, <2>4, <2>5, QuietKeeps
<1>7. CASE T # {}
  <2>1. /\ poller'[p].batch = T /\ poller'[p].ok = {} /\ poller'[p].failed = {}
        /\ poller'[p].stage = "polling"
        /\ \A q \in Workers \ {p} : poller'[q] = poller[q]
    BY <1>1, <1>2, <1>4, <1>7 DEF O!Poller
  <2>2. turn' = turn
    BY <1>5, <2>1 DEF O!IdlePoller
  <2>3. LoopOK(p)'
    BY <1>2, <1>4, <1>5, <2>1, <2>2, EmptyList DEF LoopOK, lists
  <2>4. \A q \in Workers : LoopOK(q)'
    BY <1>2, <1>5, <2>1, <2>2, <2>3, OthersLoop DEF LocalSafe, lists
  <2>5. \A q \in Workers : Cardinality(poller'[q].batch) <= BatchSize
    BY <1>1, <2>1 DEF LocalSafe, LocalInv, HoldsABatch
  <2>6. QED
    BY <1>2, <1>5, <2>2, <2>4, <2>5, QuietKeeps
<1>8. QED
  BY <1>6, <1>7

\* A poll that commits hands its list over with the rows it marks.
LEMMA PollCommitKeepsLocal ==
    ASSUME ProcessInv, LocalSafe, VerdictsKept, NEW p \in Workers, LocalCommit(p)
    PROVE  LocalSafe'
<1>1. /\ poller[p].batch # {}
      /\ row' = [r \in Events |-> IF r \in poller[p].ok THEN O!Marked(row[r])
                                  ELSE IF r \in poller[p].failed
                                       THEN O!Retried(row[r], poller[p].now)
                                       ELSE row[r]]
      /\ poller' = [poller EXCEPT ![p] = O!IdlePoller]
      /\ published' = [published EXCEPT ![p] = <<>>]
      /\ current' = [current EXCEPT ![p] = published[p]]
      /\ turn' = [turn EXCEPT ![p] = "process"]
      /\ UNCHANGED <<worker, attempt, deaths>>
  BY DEF LocalCommit, O!Commit, Take, GoesTo, workerVars
<1>2. /\ poller \in [Workers -> O!Poller] /\ turn \in [Workers -> LocalTurns]
      /\ published \in [Workers -> Seq(Events)] /\ current \in [Workers -> Seq(Events)]
      /\ deaths \in Nat
  BY DEF ProcessInv, O!TypeOK, LocalSafe, LocalInv, LocalTypeOK
<1>3. poller[p] # O!IdlePoller
  BY <1>1 DEF O!IdlePoller
<1>4. /\ poller'[p] = O!IdlePoller /\ published'[p] = <<>>
      /\ current'[p] = published[p] /\ turn'[p] = "process"
      /\ \A q \in Workers \ {p} :
            /\ poller'[q] = poller[q] /\ turn'[q] = turn[q]
            /\ published'[q] = published[q] /\ current'[q] = current[q]
  BY <1>1, <1>2
<1>5. /\ \A e \in Range(published[p]) :
            row[e].status \in {"pending", "failed"} /\ row'[e].status = "published"
      /\ \A e \in Events \ Range(published[p]) : row'[e] = row[e]
  <2>1. /\ poller[p].failed = {} /\ Range(published[p]) = poller[p].ok
        /\ poller[p].ok \subseteq poller[p].batch /\ poller[p].batch \subseteq Events
    BY <1>3, AtPoll
  <2>2. \A e \in poller[p].batch : row[e].status \in {"pending", "failed"}
    BY DEF ProcessInv, O!OutboxInv, O!OnePollPerRow
  <2>3. QED
    BY <1>1, <2>1, <2>2 DEF O!Marked
<1>6. LocalTypeOK'
  <2>1. turn' \in [Workers -> LocalTurns]
    BY <1>1, <1>2 DEF LocalTurns
  <2>2. QED
    BY <1>1, <1>2, <2>1, EmptyList DEF LocalTypeOK
<1>7. LoopOK(p)'
  <2>1. IsInjective(current'[p]) /\ IsInjective(published'[p])
    BY <1>3, <1>4, AtPoll, EmptyList
  <2>2. Range(published'[p]) = poller'[p].ok /\ poller'[p].failed = {}
    BY <1>4, EmptyList DEF O!IdlePoller
  <2>3. QED
    BY <1>4, <2>1, <2>2 DEF LoopOK
<1>8. \A q \in Workers : LoopOK(q)'
  BY <1>1, <1>4, <1>7, OthersLoop DEF LocalSafe
<1>9. ClaimedOnce'
  <2>1. \A e \in Range(published[p]) : e \in Events
    BY <1>3, AtPoll
  <2>2. \A e \in Range(published[p]) :
           attempt[e].number = 0 /\ \A q \in Workers : ~Awaits(q, e)
    BY <1>5, <2>1 DEF LocalSafe, LocalInv, ClaimedOnce
  <2>3. \A q \in Workers, e \in Events :
           /\ Claimant(q, e)' <=> Claimant(q, e)
           /\ Awaits(q, e)' => Awaits(q, e) \/ (q = p /\ e \in Range(published[p]))
           /\ q # p => (Awaits(q, e)' <=> Awaits(q, e))
           /\ ~Claimant(p, e)
    BY <1>1, <1>3, <1>4, AtPoll DEF Awaits, Claimant, InHand
  <2> SUFFICES ASSUME NEW e \in Events
               PROVE  /\ attempt[e].number \in {0, 1}
                      /\ attempt[e].number = 1 => row'[e].status = "published"
                      /\ \A q \in Workers : Awaits(q, e)' =>
                            /\ row'[e].status = "published" /\ attempt[e].number = 0
                            /\ ~(Claimant(q, e)' /\ e \in Range(current'[q]))
                            /\ \A r \in Workers \ {q} : ~Awaits(r, e)'
    BY <1>1 DEF ClaimedOnce
  <2>4. CASE e \in Range(published[p])
    BY <1>5, <2>2, <2>3, <2>4
  <2>5. CASE e \notin Range(published[p])
    BY <1>4, <1>5, <2>3, <2>5 DEF LocalSafe, LocalInv, ClaimedOnce
  <2>6. QED
    BY <2>4, <2>5
<1>10. \A q \in Workers, e \in Events : Holds(q, e)' <=> Holds(q, e)
  <2> SUFFICES ASSUME NEW q \in Workers, NEW e \in Events
               PROVE  Holds(q, e)' <=> Holds(q, e)
    OBVIOUS
  <2>1. InHand(q, e)' <=> InHand(q, e)
    BY <1>1 DEF InHand
  <2>2. CASE q = p
    <3>1. /\ Range(published'[p]) = Range(current[p])
          /\ Range(current'[p]) = Range(published[p])
      BY <1>3, <1>4, AtPoll
    <3>2. QED
      BY <1>6, <2>1, <2>2, <3>1, HoldsIs DEF LocalSafe, LocalInv
  <2>3. CASE q # p
    BY <1>4, <1>6, <2>1, <2>3, HoldsIs DEF LocalSafe, LocalInv
  <2>4. QED
    BY <2>2, <2>3
<1>11. HoldsABatch'
  <2>1. \A q \in Workers : poller'[q].batch \subseteq poller[q].batch
    BY <1>4 DEF O!IdlePoller
  <2>2. QED
    BY <1>10, <2>1, BatchKept DEF LocalSafe, LocalInv
<1>12. LossesNeedDeaths'
  <2>1. \A e \in Events : row'[e].status = "published" =>
           row[e].status = "published" \/ \E q \in Workers : Holds(q, e)'
    <3> SUFFICES ASSUME NEW e \in Range(published[p]), e \in Events
                 PROVE  Holds(p, e)'
      BY <1>5
    <3>1. QED
      BY <1>4, <1>6, HoldsIs
  <2>2. QED
    BY <1>1, <1>2, <1>10, <2>1, LossesKept DEF LocalSafe
<1>13. QED
  BY <1>6, <1>8, <1>9, <1>11, <1>12 DEF LocalSafe, LocalInv

\* The next event of the list goes to the processor.
LEMMA HandOverKeepsLocal ==
    ASSUME ProcessInv, LocalSafe, VerdictsKept, NEW p \in Workers, HandOver(p)
    PROVE  LocalSafe'
<1> DEFINE h == Head(current[p])
<1>1. /\ turn[p] = "process" /\ current[p] # <<>> /\ worker[p] = W!Idle
      /\ worker' = [worker EXCEPT ![p] = [stage |-> "claiming", event |-> h,
                                          number |-> 0, now |-> clock]]
      /\ current' = [current EXCEPT ![p] = Tail(@)]
      /\ UNCHANGED <<attempt, row, poller, published, turn, deaths>>
  BY DEF HandOver, W!Receive, outboxVars
<1>2. /\ published \in [Workers -> Seq(Events)] /\ current \in [Workers -> Seq(Events)]
      /\ worker \in [Workers -> W!Worker] /\ LoopOK(p)
  BY DEF LocalSafe, LocalInv, LocalTypeOK, ProcessInv, W!TypeOK
<1>3. /\ h \in Events /\ Tail(current[p]) \in Seq(Events)
      /\ Range(current[p]) = {h} \union Range(Tail(current[p]))
      /\ IsInjective(Tail(current[p])) /\ h \notin Range(Tail(current[p]))
  BY <1>1, <1>2, TakenRange DEF LoopOK
<1>4. /\ current'[p] = Tail(current[p])
      /\ worker'[p] # W!Idle /\ worker'[p].stage = "claiming" /\ worker'[p].event = h
      /\ \A q \in Workers \ {p} : worker'[q] = worker[q] /\ current'[q] = current[q]
  BY <1>1, <1>2 DEF W!Idle
<1> HIDE DEF h
<1>5. LocalTypeOK'
  BY <1>1, <1>2, <1>3 DEF LocalSafe, LocalInv, LocalTypeOK
<1>6. LoopOK(p)'
  BY <1>1, <1>2, <1>3, <1>4 DEF LoopOK
<1>7. \A q \in Workers : LoopOK(q)'
  BY <1>1, <1>4, <1>6, OthersLoop DEF LocalSafe
<1>8. \A q \in Workers, e \in Events :
         /\ InHand(q, e)' <=> (InHand(q, e) \/ (q = p /\ e = h))
         /\ Claimant(q, e)' <=> (Claimant(q, e) \/ (q = p /\ e = h))
         /\ ~InHand(p, e) /\ ~Claimant(p, e)
  BY <1>1, <1>4 DEF InHand, Claimant
<1>9. ClaimedOnce'
  <2>1. \A q \in Workers, e \in Events :
           /\ Awaits(q, e)' => Awaits(q, e)
           /\ Claimant(q, e)' /\ e \in Range(current'[q])
                 => Claimant(q, e) /\ e \in Range(current[q])
    BY <1>3, <1>4, <1>8 DEF Awaits
  <2>2. QED
    BY <1>1, <2>1, ClaimsKept DEF LocalSafe, LocalInv
<1>10. \A q \in Workers, e \in Events : Holds(q, e)' <=> Holds(q, e)
  <2> SUFFICES ASSUME NEW q \in Workers, NEW e \in Events
               PROVE  Holds(q, e)' <=> Holds(q, e)
    OBVIOUS
  <2>1. Holds(q, e) <=> InHand(q, e) \/ e \in Range(published[q])
                          \/ e \in Range(current[q])
    BY HoldsIs DEF LocalSafe, LocalInv
  <2>2. Holds(q, e)' <=> InHand(q, e)' \/ e \in Range(published'[q])
                           \/ e \in Range(current'[q])
    BY <1>5, HoldsIs
  <2>3. QED
    BY <1>1, <1>3, <1>4, <1>8, <2>1, <2>2
<1>11. HoldsABatch'
  BY <1>1, <1>10, BatchKept DEF LocalSafe, LocalInv
<1>12. LossesNeedDeaths'
  BY <1>1, <1>10, LossesKept DEF LocalSafe, LocalInv, LocalTypeOK
<1>13. QED
  BY <1>5, <1>7, <1>9, <1>11, <1>12 DEF LocalSafe, LocalInv

\* A step of the processor claims its own event or none.
LEMMA WorkClaims ==
    ASSUME ProcessInv, NEW p \in Workers, Works(p)
    PROVE  /\ \A e \in Events :
                 \/ attempt'[e].number = attempt[e].number
                 \/ attempt'[e].number = attempt[e].number + 1 /\ Claimant(p, e)
           /\ \A e \in Events : row'[e].status = "published" => row[e].status = "published"
           /\ UNCHANGED poller
<1>1. attempt \in [Events -> W!Attempt] /\ row \in [Events -> O!Row]
  BY DEF ProcessInv, W!TypeOK, O!TypeOK
<1>2. \A e \in Events : row'[e].status = "published" => row[e].status = "published"
  BY <1>1 DEF Works, O!Row
<1>3. ASSUME NEW a \in W!Attempt, NEW n
      PROVE  /\ W!Claimed(a, n).number = a.number + 1
             /\ W!Failed(a, n).number = a.number
  BY DEF W!Claimed, W!Failed, W!Attempt
<1>4. CASE W!Claim(p) \/ W!ClaimError(p)
  <2>1. worker[p].stage = "claiming" /\ worker[p].event \in Events
    BY <1>4, WorksOnItsEvent DEF W!Claim, W!ClaimError, W!Working, ProcessInv
  <2>2. \/ UNCHANGED attempt
        \/ attempt' = [attempt EXCEPT ![worker[p].event] =
                          W!Claimed(attempt[worker[p].event], worker[p].now)]
    BY <1>4 DEF W!Claim, W!ClaimError
  <2>3. \A e \in Events :
           \/ attempt'[e].number = attempt[e].number
           \/ attempt'[e].number = attempt[e].number + 1 /\ Claimant(p, e)
    BY <1>1, <1>3, <2>1, <2>2 DEF Claimant, InHand, W!Idle
  <2>4. QED
    BY <1>2, <2>3 DEF Works
<1>5. CASE W!RecordFailure(p)
  <2>1. \/ UNCHANGED attempt
        \/ attempt' = [attempt EXCEPT ![worker[p].event] =
                          W!Failed(attempt[worker[p].event], worker[p].number)]
    BY <1>5 DEF W!RecordFailure
  <2>2. \A e \in Events : attempt'[e].number = attempt[e].number
    BY <1>1, <1>3, <2>1
  <2>3. QED
    BY <1>2, <2>2 DEF Works
<1>6. CASE W!HandleCommit(p)
  <2>1. \A e \in Events : attempt'[e].number = attempt[e].number
    BY <1>1, <1>6 DEF W!HandleCommit, W!Attempt
  <2>2. QED
    BY <1>2, <2>1 DEF Works
<1>7. CASE W!Prepare(p) \/ W!PutReceipt(p) \/ W!HandleAbort(p)
  <2>1. UNCHANGED attempt
    BY <1>7 DEF W!Prepare, W!PutReceipt, W!HandleAbort
  <2>2. QED
    BY <1>2, <2>1 DEF Works
<1>8. QED
  BY <1>4, <1>5, <1>6, <1>7 DEF Works

\* A claim takes the event from the only one who waits for it.
LEMMA WorkKeepsClaims ==
    ASSUME ProcessInv, LocalSafe, VerdictsKept, NEW p \in Workers, Works(p),
           \A q \in Workers \ {p} : current'[q] = current[q],
           Range(current'[p]) \subseteq Range(current[p])
    PROVE  ClaimedOnce'
<1>1. /\ \A q \in Workers \ {p} : worker'[q] = worker[q]
      /\ worker'[p] = W!Idle \/ worker'[p].stage # "claiming"
  BY WorksOnItsEvent DEF ProcessInv
<1>2. \A q \in Workers, e \in Events :
         /\ ~Claimant(p, e)'
         /\ Claimant(q, e)' => Claimant(q, e)
         /\ Awaits(q, e)' => Awaits(q, e)
         /\ Awaits(p, e)' => e \in Range(current[p])
  BY <1>1 DEF Awaits, Claimant, InHand
<1> SUFFICES ASSUME NEW e \in Events
             PROVE  /\ attempt'[e].number \in {0, 1}
                    /\ attempt'[e].number = 1 => row'[e].status = "published"
                    /\ \A q \in Workers : Awaits(q, e)' =>
                          /\ row'[e].status = "published" /\ attempt'[e].number = 0
                          /\ ~(Claimant(q, e)' /\ e \in Range(current'[q]))
                          /\ \A r \in Workers \ {q} : ~Awaits(r, e)'
  BY DEF ClaimedOnce
<1>3. row[e].status = "published" => row'[e].status = "published"
  BY DEF VerdictsKept
<1>4. CASE attempt'[e].number = attempt[e].number
  BY <1>2, <1>3, <1>4 DEF LocalSafe, LocalInv, ClaimedOnce
<1>5. CASE attempt'[e].number = attempt[e].number + 1 /\ Claimant(p, e)
  <2>1. /\ row[e].status = "published" /\ attempt[e].number = 0
        /\ e \notin Range(current[p])
        /\ \A r \in Workers \ {p} : ~Awaits(r, e)
    BY <1>5 DEF LocalSafe, LocalInv, ClaimedOnce, Awaits
  <2>2. \A q \in Workers : ~Awaits(q, e)'
    BY <1>2, <2>1
  <2>3. QED
    BY <1>3, <1>5, <2>1, <2>2
<1>6. QED
  BY <1>4, <1>5, WorkClaims

\* A process that ends has nothing left.
LEMMA EndKeepsLocal ==
    ASSUME ProcessInv, LocalSafe, VerdictsKept, NEW p \in Workers, Ends(p),
           worker'[p] = W!Idle, poller'[p] = O!IdlePoller,
           \A q \in Workers \ {p} : worker'[q] = worker[q] /\ poller'[q] = poller[q],
           \A e \in Events : row'[e].status = "published" => row[e].status = "published",
           ClaimedOnce'
    PROVE  LocalSafe'
<1>1. /\ turn' = [turn EXCEPT ![p] = "down"]
      /\ published' = [published EXCEPT ![p] = <<>>]
      /\ current' = [current EXCEPT ![p] = <<>>]
      /\ deaths' = deaths + 1
  BY DEF Ends, GoesTo
<1>2. /\ turn \in [Workers -> LocalTurns] /\ deaths \in Nat
      /\ published \in [Workers -> Seq(Events)] /\ current \in [Workers -> Seq(Events)]
  BY DEF LocalSafe, LocalInv, LocalTypeOK
<1>3. LocalTypeOK'
  <2>1. turn' \in [Workers -> LocalTurns]
    BY <1>1, <1>2 DEF LocalTurns
  <2>2. QED
    BY <1>1, <1>2, <2>1, EmptyList DEF LocalTypeOK
<1>4. /\ turn'[p] = "down" /\ published'[p] = <<>> /\ current'[p] = <<>>
      /\ \A q \in Workers \ {p} : /\ turn'[q] = turn[q] /\ published'[q] = published[q]
                                  /\ current'[q] = current[q]
  BY <1>1, <1>2
<1>5. LoopOK(p)'
  BY <1>4, EmptyList DEF LoopOK, O!IdlePoller
<1>6. \A q \in Workers : LoopOK(q)'
  BY <1>4, <1>5, OthersLoop DEF LocalSafe
<1>7. \A q \in Workers, e \in Events :
         /\ q # p => (Holds(q, e)' <=> Holds(q, e))
         /\ ~Holds(p, e)'
  <2>1. \A q \in Workers \ {p}, e \in Events : Holds(q, e)' <=> Holds(q, e)
    BY <1>4 DEF Holds, InHand, Listed
  <2>2. \A e \in Events : ~Holds(p, e)'
    BY <1>3, <1>4, HoldsIs, EmptyList DEF InHand
  <2>3. QED
    BY <2>1, <2>2
<1>8. HoldsABatch'
  <2>1. \A q \in Workers : poller'[q].batch \subseteq poller[q].batch
    BY DEF O!IdlePoller
  <2>2. QED
    BY <1>7, <2>1, BatchKept DEF LocalSafe, LocalInv
<1>9. LossesNeedDeaths'
  BY <1>1, <1>7, LossesAtDeath
<1>10. QED
  BY <1>3, <1>6, <1>8, <1>9 DEF LocalSafe, LocalInv

\* The processor applies an event, or the process ends.
LEMMA LocalProcessKeepsLocal ==
    ASSUME ProcessInv, LocalSafe, VerdictsKept, NEW p \in Workers, LocalProcess(p)
    PROVE  LocalSafe'
<1>1. /\ worker[p] \in W!Working /\ worker[p] # W!Idle
      /\ \/ worker'[p] = W!Idle
         \/ worker'[p] # W!Idle /\ worker'[p].event = worker[p].event
      /\ \A q \in Workers \ {p} : worker'[q] = worker[q]
  BY WorksOnItsEvent DEF LocalProcess, ProcessInv, W!Working, W!Idle
<1>2. /\ UNCHANGED poller
      /\ \A e \in Events : row'[e].status = "published" => row[e].status = "published"
  BY WorkClaims DEF LocalProcess
<1>3. turn[p] = "process" /\ poller[p] = O!IdlePoller
  BY <1>1 DEF LocalSafe, LocalInv, LoopOK
<1>4. CASE Raises(p)
  <2>1. Ends(p) /\ worker'[p] = W!Idle
    BY <1>4 DEF LocalProcess, Raises
  <2>2. /\ \A q \in Workers \ {p} : current'[q] = current[q]
        /\ current'[p] = <<>>
    BY <2>1 DEF Ends, LocalSafe, LocalInv, LocalTypeOK
  <2>3. ClaimedOnce'
    BY <2>2, WorkKeepsClaims, EmptyList DEF LocalProcess
  <2>4. QED
    BY <1>1, <1>2, <1>3, <2>1, <2>3, EndKeepsLocal
<1>5. CASE ~Raises(p)
  <2>1. UNCHANGED <<published, current, turn, deaths>>
    BY <1>5 DEF LocalProcess, lists
  <2>2. worker'[p] # W!Idle
    <3> SUFFICES ASSUME worker'[p] = W!Idle PROVE FALSE
      OBVIOUS
    <3> DEFINE e == worker[p].event
    <3>1. Claimant(p, e) /\ attempt[e].terminal /\ e \in Events
      BY <1>1, <1>5 DEF Raises, Claimant, InHand, W!Working
    <3>2. attempt[e].number = 0
      BY <3>1 DEF LocalSafe, LocalInv, ClaimedOnce, Awaits
    <3>3. attempt[e].number >= MaxAttempts
      BY <3>1 DEF ProcessInv, W!SafetyInv, W!OneNoticePerTerminalEvent
    <3>4. QED
      BY <3>2, <3>3, ProcessAssumption DEF W!ParametersAssumption
  <2>3. \A q \in Workers, e \in Events : Holds(q, e)' <=> Holds(q, e)
    BY <1>1, <2>1, <2>2 DEF Holds, InHand, Listed
  <2>4. LocalTypeOK'
    BY <2>1 DEF LocalSafe, LocalInv, LocalTypeOK
  <2>5. LoopOK(p)'
    BY <1>2, <1>3, <2>1 DEF LocalSafe, LocalInv, LoopOK
  <2>6. \A q \in Workers : LoopOK(q)'
    BY <1>1, <1>2, <2>1, <2>5, OthersLoop DEF LocalSafe
  <2>7. ClaimedOnce'
    BY <2>1, WorkKeepsClaims DEF LocalProcess
  <2>8. HoldsABatch'
    BY <1>2, <2>3, BatchKept DEF LocalSafe, LocalInv
  <2>9. LossesNeedDeaths'
    BY <1>2, <2>1, <2>3, LossesKept DEF LocalSafe, LocalInv, LocalTypeOK
  <2>10. QED
    BY <2>4, <2>6, <2>7, <2>8, <2>9 DEF LocalSafe, LocalInv
<1>6. QED
  BY <1>4, <1>5

\* An event that the processor is done with is applied.
LEMMA ReturnKeepsLocal ==
    ASSUME ProcessInv, LocalSafe, VerdictsKept, NEW p \in Workers, Return(p)
    PROVE  LocalSafe'
<1>1. /\ worker[p].stage = "acking" /\ worker' = [worker EXCEPT ![p] = W!Idle]
      /\ UNCHANGED <<attempt, row, poller, published, current, turn, deaths>>
  BY DEF Return, Returns, W!Release, outboxVars, lists
<1>2. worker \in [Workers -> W!Worker] /\ W!Succeeded(worker[p].event)
  BY <1>1 DEF ProcessInv, W!TypeOK, W!SafetyInv, W!StageInv, W!StageOK
<1>3. /\ turn[p] = "process" /\ worker'[p] = W!Idle
      /\ \A q \in Workers \ {p} : worker'[q] = worker[q]
  BY <1>1, <1>2 DEF LocalSafe, LocalInv, LoopOK, W!Idle
<1>4. \A q \in Workers, e \in Events :
         /\ InHand(q, e)' => InHand(q, e)
         /\ InHand(q, e) => InHand(q, e)' \/ W!Succeeded(e)'
         /\ Claimant(q, e)' => Claimant(q, e)
  BY <1>1, <1>2, <1>3 DEF InHand, Claimant, VerdictsKept, W!Succeeded
<1>5. LocalTypeOK'
  BY <1>1 DEF LocalSafe, LocalInv, LocalTypeOK
<1>6. LoopOK(p)'
  BY <1>1, <1>3 DEF LocalSafe, LocalInv, LoopOK
<1>7. \A q \in Workers : LoopOK(q)'
  BY <1>1, <1>3, <1>6, OthersLoop DEF LocalSafe
<1>8. ClaimedOnce'
  BY <1>1, <1>4, ClaimsKept DEF LocalSafe, LocalInv, Awaits
<1>9. \A q \in Workers, e \in Events : /\ Holds(q, e)' => Holds(q, e)
                                       /\ Holds(q, e) => Holds(q, e)' \/ W!Succeeded(e)'
  BY <1>1, <1>4 DEF Holds, Listed
<1>10. HoldsABatch'
  BY <1>1, <1>9, BatchKept DEF LocalSafe, LocalInv
<1>11. LossesNeedDeaths'
  BY <1>1, <1>9, LossesKept DEF LocalSafe, LocalInv, LocalTypeOK
<1>12. QED
  BY <1>5, <1>7, <1>8, <1>10, <1>11 DEF LocalSafe, LocalInv

\* A process may die wherever it is.
LEMMA CrashKeepsLocal ==
    ASSUME ProcessInv, LocalSafe, VerdictsKept, NEW p \in Workers, LocalCrash(p)
    PROVE  LocalSafe'
<1>1. /\ worker' = [worker EXCEPT ![p] = W!Idle] /\ Ends(p)
      /\ poller' = [poller EXCEPT ![p] = O!IdlePoller]
      /\ UNCHANGED <<attempt, row>>
  BY DEF LocalCrash, Dies
<1>2. /\ worker \in [Workers -> W!Worker] /\ poller \in [Workers -> O!Poller]
      /\ current \in [Workers -> Seq(Events)]
  BY DEF ProcessInv, W!TypeOK, O!TypeOK, LocalSafe, LocalInv, LocalTypeOK
<1>3. /\ worker'[p] = W!Idle /\ poller'[p] = O!IdlePoller
      /\ \A q \in Workers \ {p} : worker'[q] = worker[q] /\ poller'[q] = poller[q]
      /\ current'[p] = <<>> /\ \A q \in Workers \ {p} : current'[q] = current[q]
  BY <1>1, <1>2 DEF Ends
<1>4. \A q \in Workers, e \in Events :
         /\ Awaits(q, e)' => Awaits(q, e)
         /\ Claimant(q, e)' /\ e \in Range(current'[q])
               => Claimant(q, e) /\ e \in Range(current[q])
  BY <1>3, EmptyList DEF Awaits, Claimant, InHand
<1>5. ClaimedOnce'
  BY <1>1, <1>4, ClaimsKept DEF LocalSafe, LocalInv
<1>6. QED
  BY <1>1, <1>3, <1>5, EndKeepsLocal

LEMMA LocalStepsKeep ==
    ProcessInv /\ LocalSafe /\ [LocalNext]_localVars => ProcessInv' /\ LocalSafe'
<1> SUFFICES ASSUME ProcessInv, LocalSafe, [LocalNext]_localVars
             PROVE  ProcessInv' /\ LocalSafe'
  OBVIOUS
<1>1. ProcessInv' /\ VerdictsKept
  BY LocalSteps, ProcessStepsKeep DEF LocalSafe, LocalInv
<1>2. ASSUME NEW e \in Events, LocalEnqueue(e) PROVE LocalSafe'
  BY <1>1, <1>2, EnqueueKeepsLocal
<1>3. ASSUME NEW p \in Workers, LocalBegin(p) \/ LocalSelect(p) \/ LocalCommit(p)
      PROVE  LocalSafe'
  BY <1>1, <1>3, BeginKeepsLocal, SelectKeepsLocal, PollCommitKeepsLocal
<1>4. ASSUME NEW p \in Workers, NEW e \in Events, Collect(p, e) PROVE LocalSafe'
  BY <1>1, <1>4, CollectKeepsLocal
<1>5. ASSUME NEW p \in Workers, HandOver(p) \/ LocalProcess(p) \/ Return(p)
      PROVE  LocalSafe'
  BY <1>1, <1>5, HandOverKeepsLocal, LocalProcessKeepsLocal, ReturnKeepsLocal
<1>6. ASSUME NEW p \in Workers, LocalLoop(p) \/ LocalCrash(p) \/ Restart(p)
      PROVE  LocalSafe'
  BY <1>1, <1>6, LoopKeepsLocal, CrashKeepsLocal
<1>7. CASE LocalTick \/ UNCHANGED localVars
  BY <1>1, <1>7, TickKeepsLocal
<1>8. QED
  BY <1>1, <1>2, <1>3, <1>4, <1>5, <1>6, <1>7 DEF LocalNext, LocalAdvance

\* The invariant of the local loop.
THEOREM LocalSafety == LocalSpec => [](ProcessInv /\ LocalSafe)
<1>1. LocalInit => ProcessInv /\ LocalSafe
  <2> SUFFICES ASSUME LocalInit PROVE LocalSafe
    BY ProcessInitIsSafe DEF LocalInit
  <2>1. LocalTypeOK
    BY EmptyList DEF LocalInit, LocalTypeOK, LocalTurns
  <2>2. /\ \A p \in Workers : /\ worker[p] = W!Idle /\ poller[p] = O!IdlePoller
                              /\ poller[p].ok = {} /\ poller[p].failed = {}
                              /\ poller[p].batch = {}
                              /\ published[p] = <<>> /\ current[p] = <<>>
        /\ \A e \in Events : attempt[e].number = 0 /\ row[e].status = "absent"
    BY DEF LocalInit, ProcessInit, W!Init, O!Init, W!NoAttempt, O!NoRow, O!IdlePoller
  <2>3. ASSUME NEW p \in Workers PROVE LoopOK(p)
    <3>1. Range(published[p]) = {} /\ IsInjective(published[p]) /\ IsInjective(current[p])
      BY <2>2, EmptyList
    <3>2. QED
      BY <2>2, <3>1 DEF LoopOK
  <2>4. ClaimedOnce
    BY <2>2, EmptyList DEF ClaimedOnce, Awaits, Claimant, InHand
  <2>5. BatchSize \in Nat /\ Cardinality({}) = 0 /\ deaths = 0
    BY ProcessAssumption, FS_EmptySet DEF O!OutboxAssumption, LocalInit
  <2>6. HoldsABatch
    <3> SUFFICES ASSUME NEW p \in Workers
                 PROVE  /\ Cardinality(poller[p].batch) <= BatchSize
                        /\ Cardinality(Held(p)) <= BatchSize
      BY DEF HoldsABatch
    <3>1. Held(p) = {}
      BY <2>1, <2>2, HoldsIs, EmptyList DEF Held, InHand
    <3>2. poller[p].batch = {} /\ Cardinality({}) <= BatchSize
      BY <2>2, <2>5
    <3>3. QED
      BY <3>1, <3>2, Zenon
  <2>7. LossesNeedDeaths
    <3>1. {e \in Events : Lost(e)} = {}
      BY <2>2 DEF Lost
    <3>2. QED
      BY <2>5, <3>1 DEF LossesNeedDeaths
  <2>8. QED
    BY <2>1, <2>3, <2>4, <2>6, <2>7 DEF LocalSafe, LocalInv
<1>2. QED
  BY <1>1, LocalStepsKeep, PTL DEF LocalSpec

\* The local loop is an implementation of the processes.
THEOREM LocalImplementsProcess == LocalSpec => ProcessSpec
<1>1. LocalInit => ProcessInit
  BY DEF LocalInit
<1>2. LocalSafe /\ [LocalNext]_localVars => [ProcessNext]_processVars
  BY LocalSteps DEF LocalSafe, LocalInv
<1>3. QED
  BY <1>1, <1>2, LocalSafety, PTL DEF LocalSpec, ProcessSpec

\* What a process that ends takes with it is the batch of one poll at most
\* (main.py:95-98).
THEOREM LocalLossesNeedDeaths == LocalSpec => []LossesNeedDeaths
BY LocalSafety, PTL DEF LocalSafe

\* The local loop announces what became of an event as it is.
THEOREM LocalAnnounces == LocalSpec => []OutcomeAnnounced
BY LocalSafety, PTL DEF ProcessInv

\* The local loop keeps the atomic promise of EventOutcome.
THEOREM LocalKeepsPromise == LocalSpec => OutcomeKept
BY LocalImplementsProcess, ProcessesKeepPromise, PTL

LEMMA FewElements ==
    ASSUME NEW S, \A x, y \in S : x = y
    PROVE  Cardinality(S) = IF S = {} THEN 0 ELSE 1
<1>1. CASE S = {}
  BY <1>1, FS_EmptySet
<1>2. CASE S # {}
  <2>1. PICK x : S = {x}
    BY <1>2
  <2>2. QED
    BY <2>1, FS_Singleton
<1>3. QED
  BY <1>1, <1>2

\* One of the two lists of a process is empty.
LEMMA ListedIs ==
    ASSUME LocalInv, NEW p \in Workers
    PROVE  Listed(p) \in {published[p], current[p]} /\ IsInjective(Listed(p))
<1>1. PICK s \in Seq(Events), t \in Seq(Events) : s = published[p] /\ t = current[p]
  BY DEF LocalInv, LocalTypeOK
<1>2. s = <<>> \/ t = <<>>
  BY <1>1, ListsAtTurn DEF LocalInv, LoopOK
<1>3. s \o t \in {s, t}
  BY <1>2
<1>4. QED
  BY <1>1, <1>3 DEF Listed, LocalInv, LoopOK

\* An event in a list is in a poll under way or awaits its claim.
LEMMA ListedWaits ==
    ASSUME ProcessInv, LocalInv, NEW p \in Workers, NEW i \in DOMAIN Listed(p)
    PROVE  LET e == Listed(p)[i]
           IN  /\ e \in Events
               /\ IF row[e].status = "published" THEN e \in Range(current[p])
                  ELSE e \in poller[p].batch
<1> DEFINE e == Listed(p)[i]
<1>1. e \in Range(published[p]) \/ e \in Range(current[p])
  BY ListedIs DEF Range
<1>2. CASE e \in Range(published[p])
  <2>1. e \in poller[p].batch
    BY <1>2 DEF LocalInv, LoopOK, ProcessInv, O!OutboxInv, O!PollsOK
  <2>2. e \in Events /\ row[e].status # "published"
    BY <2>1 DEF ProcessInv, O!OutboxInv, O!OnePollPerRow, O!TypeOK, O!Poller
  <2>3. QED
    BY <2>1, <2>2
<1>3. CASE e \in Range(current[p])
  <2>1. e \in Events
    BY <1>3 DEF LocalInv, LocalTypeOK, Range
  <2>2. row[e].status = "published"
    BY <1>3, <2>1 DEF LocalInv, ClaimedOnce, Awaits
  <2>3. QED
    BY <1>3, <2>1, <2>2
<1>4. QED
  BY <1>1, <1>2, <1>3

\* In the local mode an event is claimed once at most (_run_local).
THEOREM LocalHandsOverOnce == LocalSpec => []HandedOverOnce
<1>1. ProcessInv /\ LocalInv => HandedOverOnce
  <2> SUFFICES ASSUME ProcessInv, LocalInv, NEW e \in Events PROVE Handed(e) <= 1
    BY DEF HandedOverOnce
  <2> DEFINE C == {p \in Workers : InHand(p, e) /\ worker[p].stage = "claiming"}
             L == UNION {{<<p, i>> : i \in {j \in DOMAIN Listed(p) : Listed(p)[j] = e}} :
                           p \in Workers}
  <2>1. \A p \in C : p \in Workers /\ Claimant(p, e) /\ Awaits(p, e)
    BY DEF Claimant, Awaits
  <2>2. ASSUME NEW z \in L
        PROVE  \E p \in Workers : \E i \in DOMAIN Listed(p) :
                  z = <<p, i>> /\ Listed(p)[i] = e
    BY <2>2
  <2>3. ASSUME NEW p \in Workers, NEW i \in DOMAIN Listed(p), Listed(p)[i] = e
        PROVE  IF row[e].status = "published" THEN Awaits(p, e) /\ e \in Range(current[p])
               ELSE e \in poller[p].batch
    BY <2>3, ListedWaits DEF Awaits
  <2>4. \A x, y \in C : x = y
    BY <2>1 DEF LocalInv, ClaimedOnce
  <2>5. ASSUME NEW x \in L, NEW y \in L PROVE x = y
    <3>1. PICK p \in Workers : \E i \in DOMAIN Listed(p) : x = <<p, i>> /\ Listed(p)[i] = e
      BY <2>2
    <3>2. PICK i \in DOMAIN Listed(p) : x = <<p, i>> /\ Listed(p)[i] = e
      BY <3>1
    <3>3. PICK q \in Workers : \E j \in DOMAIN Listed(q) : y = <<q, j>> /\ Listed(q)[j] = e
      BY <2>2
    <3>4. PICK j \in DOMAIN Listed(q) : y = <<q, j>> /\ Listed(q)[j] = e
      BY <3>3
    <3>5. p = q
      BY <2>3, <3>2, <3>4 DEF LocalInv, ClaimedOnce, ProcessInv, O!OutboxInv,
                              O!OnePollPerRow
    <3>6. i = j
      BY <3>2, <3>4, <3>5, ListedIs DEF IsInjective
    <3>7. QED
      BY <3>2, <3>4, <3>5, <3>6
  <2>6. Cardinality(C) = (IF C = {} THEN 0 ELSE 1)
    BY <2>4, FewElements
  <2>7. Cardinality(L) = (IF L = {} THEN 0 ELSE 1)
    BY <2>5, FewElements
  <2>8. /\ attempt[e].number \in {0, 1}
        /\ attempt[e].number = 1 => C = {} /\ L = {}
        /\ C # {} => L = {}
    <3>1. ASSUME NEW z \in L
          PROVE  \E p \in Workers :
                    /\ IF row[e].status = "published"
                       THEN Awaits(p, e) /\ e \in Range(current[p])
                       ELSE e \in poller[p].batch
      <4>1. PICK p \in Workers : \E i \in DOMAIN Listed(p) : Listed(p)[i] = e
        BY <2>2
      <4>2. QED
        BY <2>3, <4>1
    <3> HIDE DEF C, L
    <3>2. attempt[e].number \in {0, 1} /\ (attempt[e].number = 1 => C = {} /\ L = {})
      BY <2>1, <3>1 DEF LocalInv, ClaimedOnce
    <3>3. ASSUME NEW p \in C, NEW z \in L PROVE FALSE
      BY <2>1, <3>1 DEF LocalInv, ClaimedOnce
    <3>4. QED
      BY <3>2, <3>3
  <2>9. Handed(e) = attempt[e].number + Cardinality(C) + Cardinality(L)
    BY DEF Handed
  <2> HIDE DEF C, L
  <2>10. QED
    BY <2>6, <2>7, <2>8, <2>9
<1>2. QED
  BY <1>1, LocalSafety, PTL DEF LocalSafe
=============================================================================
