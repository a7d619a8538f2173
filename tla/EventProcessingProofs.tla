------------------------ MODULE EventProcessingProofs ------------------------
(***************************************************************************)
(* Proofs about EventProcessing, and about StoredProcessing, which has the *)
(* artifact stores in it, for every set of workers and events, every kind  *)
(* and source of an event, and every setting of the parameters.            *)
(***************************************************************************)
EXTENDS StoredProcessing, TLAPS

-----------------------------------------------------------------------------
(* The types of the rows and workers the steps produce. *)

\* A claim turns a row into a row.
LEMMA ClaimedType ==
    ASSUME NEW a \in Attempt, NEW now \in Nat
    PROVE  Claimed(a, now) \in Attempt
<1>1. a.number + 1 \in Nat /\ now + LockSeconds \in Nat
  BY ParametersAssumption DEF Attempt
<1>2. QED
  BY <1>1 DEF Claimed, Attempt, Statuses

\* A recorded failure turns a row into a row.
LEMMA FailedType ==
    ASSUME NEW a \in Attempt, NEW n \in Nat
    PROVE  Failed(a, n) \in Attempt
<1>1. (a.terminal \/ n >= MaxAttempts) \in BOOLEAN
      /\ (a.emitted \/ n >= MaxAttempts) \in BOOLEAN
  BY DEF Attempt
<1>2. QED
  BY <1>1 DEF Failed, Attempt, Statuses

\* The handler's commit turns a row into a row.
LEMMA DoneType ==
    ASSUME NEW a \in Attempt
    PROVE  [a EXCEPT !.status = "succeeded", !.lockedUntil = 0] \in Attempt
BY DEF Attempt, Statuses

\* A worker that is at some stage is at work on an event.
LEMMA AtWork ==
    ASSUME TypeOK, NEW w \in Workers, worker[w].stage # "idle"
    PROVE  worker[w] \in Working /\ worker[w].event \in Events
BY DEF TypeOK, Worker, Working, Idle

\* Moving a worker to another stage keeps the type of the workers.
LEMMA GotoType ==
    ASSUME TypeOK, NEW w \in Workers, worker[w].stage # "idle",
           NEW stage \in Stages \ {"idle"}, Goto(w, stage)
    PROVE  worker' \in [Workers -> Worker]
<1>1. [worker[w] EXCEPT !.stage = stage] \in Working
  BY AtWork DEF Working
<1>2. QED
  BY <1>1 DEF TypeOK, Goto, Worker

\* So does releasing it.
LEMMA ReleaseType ==
    ASSUME TypeOK, NEW w \in Workers, Release(w)
    PROVE  worker' \in [Workers -> Worker]
BY DEF TypeOK, Release, Worker

\* The effects of a dispatched event keep their types.
LEMMA DispatchType ==
    ASSUME TypeOK, NEW e \in Events, Dispatch(e)
    PROVE  /\ ledger' \subseteq Sources \X Events
           /\ recorded' \in [Events -> Nat]
           /\ stats' \in [Events -> Nat]
           /\ processed' \subseteq Sources
<1>1. SourceOf[e] \in Sources
  BY ParametersAssumption
<1>2. QED
  BY <1>1 DEF TypeOK, Dispatch, WriteLedger, effects
-----------------------------------------------------------------------------
\* No step takes a variable out of its type.
LEMMA StepsKeepTypes ==
    TypeOK /\ [Next]_vars => TypeOK'
<1> USE ParametersAssumption
<1> SUFFICES ASSUME TypeOK, [Next]_vars PROVE TypeOK'
  OBVIOUS
<1>1. ASSUME NEW w \in Workers, NEW e \in Events, Receive(w, e) PROVE TypeOK'
  BY <1>1 DEF Receive, effects, TypeOK, Worker, Working, Stages
<1>2. ASSUME NEW w \in Workers, Claim(w) PROVE TypeOK'
  <2> DEFINE e == worker[w].event
             a == attempt[e]
  <2>1. worker[w] \in Working /\ e \in Events
    BY <1>2, AtWork DEF Claim
  <2>2. a \in Attempt /\ a.number + 1 \in Nat /\ worker[w].now \in Nat
    BY <2>1 DEF TypeOK, Attempt, Working
  <2>3. CASE Goto(w, "acking") /\ UNCHANGED attempt
    BY <1>2, <2>3, GotoType DEF Claim, TypeOK, effects, Stages
  <2>4. CASE Release(w) /\ UNCHANGED attempt
    BY <1>2, <2>4, ReleaseType DEF Claim, TypeOK, effects
  <2>5. CASE /\ attempt' = [attempt EXCEPT ![e] = Claimed(a, worker[w].now)]
             /\ worker' = [worker EXCEPT ![w].stage = "claimed",
                                         ![w].number = a.number + 1]
    <3>1. attempt' \in [Events -> Attempt]
      BY <2>1, <2>2, <2>5, ClaimedType DEF TypeOK
    <3>2. [worker[w] EXCEPT !.stage = "claimed", !.number = a.number + 1]
            \in Working
      BY <2>1, <2>2 DEF Working, Stages
    <3>3. worker' \in [Workers -> Worker]
      BY <2>5, <3>2 DEF TypeOK, Worker
    <3>4. QED
      BY <1>2, <3>1, <3>3 DEF Claim, TypeOK, effects
  <2>6. QED
    BY <1>2, <2>3, <2>4, <2>5 DEF Claim
<1>3. ASSUME NEW w \in Workers, Prepare(w) PROVE TypeOK'
  <2>1. worker' \in [Workers -> Worker]
    BY <1>3, GotoType DEF Prepare, Stages
  <2>2. QED
    BY <1>3, <2>1 DEF Prepare, Fault, effects, TypeOK
<1>4. ASSUME NEW w \in Workers, PutReceipt(w) PROVE TypeOK'
  <2>1. worker' \in [Workers -> Worker]
    BY <1>4, GotoType DEF PutReceipt, Stages
  <2>2. receipts' \subseteq Events
    BY <1>4, AtWork DEF PutReceipt, TypeOK
  <2>3. QED
    BY <1>4, <2>1, <2>2 DEF PutReceipt, Fault, effects, TypeOK
<1>5. ASSUME NEW w \in Workers, HandleCommit(w) PROVE TypeOK'
  <2> DEFINE e == worker[w].event
  <2>1. worker' \in [Workers -> Worker]
    BY <1>5, GotoType DEF HandleCommit, Stages
  <2>2. e \in Events
    BY <1>5, AtWork DEF HandleCommit
  <2>3. attempt' \in [Events -> Attempt]
    BY <1>5, <2>2, DoneType DEF HandleCommit, TypeOK
  <2>4. /\ ledger' \subseteq Sources \X Events
        /\ recorded' \in [Events -> Nat]
        /\ stats' \in [Events -> Nat]
        /\ processed' \subseteq Sources
    BY <1>5, <2>2, DispatchType DEF HandleCommit
  <2>5. QED
    BY <1>5, <2>1, <2>3, <2>4 DEF HandleCommit, Fault, TypeOK
<1>6. ASSUME NEW w \in Workers, HandleAbort(w) PROVE TypeOK'
  <2>1. worker' \in [Workers -> Worker]
    BY <1>6, GotoType, ReleaseType DEF HandleAbort, Stages
  <2>2. QED
    BY <1>6, <2>1 DEF HandleAbort, Fault, effects, TypeOK
<1>7. ASSUME NEW w \in Workers, RecordFailure(w) PROVE TypeOK'
  <2> DEFINE e == worker[w].event
             n == worker[w].number
  <2>1. e \in Events /\ n \in Nat
    BY <1>7, AtWork DEF RecordFailure, Working
  <2>2. attempt' \in [Events -> Attempt]
    <3>1. attempt[e] \in Attempt /\ Failed(attempt[e], n) \in Attempt
      BY <2>1, FailedType DEF TypeOK
    <3>2. \/ attempt' = attempt
          \/ attempt' = [attempt EXCEPT ![e] = Failed(attempt[e], n)]
      BY <1>7 DEF RecordFailure
    <3>3. QED
      BY <3>1, <3>2 DEF TypeOK
  <2>3. QED
    BY <1>7, <2>1, <2>2, ReleaseType DEF RecordFailure, Fault, effects, TypeOK
<1>8. ASSUME NEW w \in Workers, Delete(w) PROVE TypeOK'
  BY <1>8, AtWork, ReleaseType DEF Delete, effects, TypeOK
<1>9. ASSUME NEW w \in Workers, Crash(w) PROVE TypeOK'
  BY <1>9, ReleaseType DEF Crash, Fault, effects, TypeOK
<1>10. CASE Tick
  BY <1>10 DEF Tick, effects, TypeOK
<1>11. CASE UNCHANGED vars
  BY <1>11 DEF vars, effects, TypeOK
<1>12. ASSUME NEW w \in Workers, ClaimError(w) PROVE TypeOK'
  <2> DEFINE e == worker[w].event
             a == attempt[e]
  <2>1. worker[w] \in Working /\ e \in Events
    BY <1>12, AtWork DEF ClaimError
  <2>2. a \in Attempt /\ worker[w].now \in Nat
    BY <2>1 DEF TypeOK, Working
  <2>3. attempt' \in [Events -> Attempt]
    <3>1. \/ attempt' = attempt
          \/ attempt' = [attempt EXCEPT ![e] = Claimed(a, worker[w].now)]
      BY <1>12 DEF ClaimError
    <3>2. Claimed(a, worker[w].now) \in Attempt
      BY <2>2, ClaimedType
    <3>3. QED
      BY <3>1, <3>2 DEF TypeOK
  <2>4. QED
    BY <1>12, <2>3, ReleaseType DEF ClaimError, Fault, effects, TypeOK
<1>13. QED
  BY <1>1, <1>2, <1>3, <1>4, <1>5, <1>6, <1>7, <1>8, <1>9, <1>10, <1>11, <1>12
     DEF Next, Advance

(* Every variable keeps its type. *)
THEOREM TypeCorrect == Spec => []TypeOK
<1> USE ParametersAssumption
<1>1. Init => TypeOK
  BY DEF Init, TypeOK, Attempt, NoAttempt, Statuses, Worker, Idle
<1>2. QED
  BY <1>1, StepsKeepTypes, PTL DEF Spec
-----------------------------------------------------------------------------
(* Claims. *)

\* A step that makes no claim keeps the claim numbers apart.
LEMMA NoClaimKeepsNumbers ==
    ASSUME TypeOK, ClaimNumbersDistinct,
           \A e \in Events : attempt'[e].number = attempt[e].number,
           \A w \in Workers, e \in Events :
               Claims(w, e)' => /\ Claims(w, e)
                                /\ worker'[w].number = worker[w].number
    PROVE  ClaimNumbersDistinct'
BY DEF ClaimNumbersDistinct

\* Goto within a claim, Goto out of it, and Release make no claim.
LEMMA GotoMakesNoClaim ==
    ASSUME TypeOK, NEW w \in Workers, worker[w].stage # "idle",
           NEW stage \in Stages, Goto(w, stage),
           stage = "acking"
               \/ worker[w].stage \in {"claimed", "prepared", "ready", "failing"},
           NEW v \in Workers, NEW e \in Events, Claims(v, e)'
    PROVE  Claims(v, e) /\ worker'[v].number = worker[v].number
BY AtWork DEF Goto, Claims, TypeOK, Working

LEMMA ReleaseMakesNoClaim ==
    ASSUME TypeOK, NEW w \in Workers, Release(w),
           NEW v \in Workers, NEW e \in Events, Claims(v, e)'
    PROVE  Claims(v, e) /\ worker'[v].number = worker[v].number
BY DEF Release, Claims, TypeOK, Idle

\* No step lets two workers hold one claim.
LEMMA StepsKeepNumbers ==
    TypeOK /\ ClaimNumbersDistinct /\ [Next]_vars => ClaimNumbersDistinct'
<1> SUFFICES ASSUME TypeOK, ClaimNumbersDistinct, [Next]_vars
             PROVE  ClaimNumbersDistinct'
  OBVIOUS
<1>1. ASSUME NEW w \in Workers, NEW e \in Events, Receive(w, e)
      PROVE  ClaimNumbersDistinct'
  BY <1>1, NoClaimKeepsNumbers DEF Receive, Claims, TypeOK
<1>2. ASSUME NEW w \in Workers, Claim(w) PROVE ClaimNumbersDistinct'
  <2>0. PICK e \in Events : e = worker[w].event
    BY <1>2, AtWork DEF Claim
  <2>1. CASE Goto(w, "acking") /\ UNCHANGED attempt
    BY <1>2, <2>1, NoClaimKeepsNumbers, GotoMakesNoClaim DEF Claim, Stages
  <2>2. CASE Release(w) /\ UNCHANGED attempt
    BY <2>2, NoClaimKeepsNumbers, ReleaseMakesNoClaim
  <2>3. CASE /\ attempt' = [attempt EXCEPT
                               ![e] = Claimed(attempt[e], worker[w].now)]
             /\ worker' = [worker EXCEPT ![w].stage = "claimed",
                                         ![w].number = attempt[e].number + 1]
    <3>1. attempt[e] \in Attempt /\ worker[w] \in Working
      BY <1>2, AtWork DEF TypeOK, Claim
    <3>2. /\ attempt'[e].number = attempt[e].number + 1
          /\ attempt[e].number \in Nat
          /\ \A d \in Events \ {e} : attempt'[d] = attempt[d]
      BY <2>3, <3>1 DEF TypeOK, Claimed, Attempt
    <3>3. /\ worker'[w].number = attempt[e].number + 1
          /\ worker'[w].event = e
          /\ \A v \in Workers \ {w} : worker'[v] = worker[v]
      BY <2>0, <2>3, <3>1 DEF TypeOK, Working
    <3>4. ASSUME NEW v \in Workers, NEW d \in Events, Claims(v, d)', v # w
          PROVE  /\ Claims(v, d)
                 /\ worker'[v].number = worker[v].number
                 /\ worker[v].number \in 1 .. attempt[d].number
      BY <3>3, <3>4 DEF Claims, ClaimNumbersDistinct
    <3>5. ASSUME NEW v \in Workers, NEW d \in Events, Claims(v, d)'
          PROVE  worker'[v].number \in 1 .. attempt'[d].number
      <4>1. CASE v = w
        BY <3>2, <3>3, <3>5, <4>1 DEF Claims
      <4>2. CASE v # w
        BY <3>2, <3>4, <3>5, <4>2
      <4>3. QED BY <4>1, <4>2
    <3>6. ASSUME NEW v \in Workers, NEW u \in Workers, NEW d \in Events,
                 u # v, Claims(v, d)', Claims(u, d)'
          PROVE  worker'[u].number # worker'[v].number
      <4>1. CASE v = w
        BY <3>2, <3>3, <3>4, <3>6, <4>1 DEF Claims
      <4>2. CASE u = w
        BY <3>2, <3>3, <3>4, <3>6, <4>2 DEF Claims
      <4>3. CASE u # w /\ v # w
        BY <3>4, <3>6, <4>3 DEF ClaimNumbersDistinct
      <4>4. QED BY <4>1, <4>2, <4>3
    <3>7. QED
      BY <3>5, <3>6 DEF ClaimNumbersDistinct
  <2>4. QED
    BY <1>2, <2>0, <2>1, <2>2, <2>3 DEF Claim
<1>3. ASSUME NEW w \in Workers, Prepare(w) PROVE ClaimNumbersDistinct'
  BY <1>3, NoClaimKeepsNumbers, GotoMakesNoClaim DEF Prepare, Stages
<1>4. ASSUME NEW w \in Workers, PutReceipt(w) PROVE ClaimNumbersDistinct'
  BY <1>4, NoClaimKeepsNumbers, GotoMakesNoClaim DEF PutReceipt, Stages
<1>5. ASSUME NEW w \in Workers, HandleCommit(w) PROVE ClaimNumbersDistinct'
  <2>1. \A e \in Events : attempt'[e].number = attempt[e].number
    BY <1>5 DEF HandleCommit, TypeOK, Attempt
  <2>2. QED
    BY <1>5, <2>1, NoClaimKeepsNumbers, GotoMakesNoClaim
       DEF HandleCommit, Stages
<1>6. ASSUME NEW w \in Workers, HandleAbort(w) PROVE ClaimNumbersDistinct'
  BY <1>6, NoClaimKeepsNumbers, GotoMakesNoClaim, ReleaseMakesNoClaim
     DEF HandleAbort, Stages
<1>7. ASSUME NEW w \in Workers, RecordFailure(w) PROVE ClaimNumbersDistinct'
  <2>0. PICK e \in Events : e = worker[w].event
    BY <1>7, AtWork DEF RecordFailure
  <2>a. Failed(attempt[e], worker[w].number).number = attempt[e].number
    BY DEF Failed, TypeOK, Attempt
  <2>1. \A d \in Events : attempt'[d].number = attempt[d].number
    BY <1>7, <2>0, <2>a DEF RecordFailure, TypeOK
  <2>2. QED
    BY <1>7, <2>1, NoClaimKeepsNumbers, ReleaseMakesNoClaim DEF RecordFailure
<1>8. ASSUME NEW w \in Workers, Delete(w) PROVE ClaimNumbersDistinct'
  BY <1>8, NoClaimKeepsNumbers, ReleaseMakesNoClaim DEF Delete
<1>9. ASSUME NEW w \in Workers, Crash(w) PROVE ClaimNumbersDistinct'
  BY <1>9, NoClaimKeepsNumbers, ReleaseMakesNoClaim DEF Crash
<1>10. CASE Tick
  BY <1>10, NoClaimKeepsNumbers DEF Tick, Claims
<1>11. CASE UNCHANGED vars
  BY <1>11, NoClaimKeepsNumbers DEF vars, Claims
<1>12. ASSUME NEW w \in Workers, ClaimError(w) PROVE ClaimNumbersDistinct'
  <2>1. \A d \in Events : /\ attempt[d].number \in Nat
                          /\ \/ attempt'[d].number = attempt[d].number
                             \/ attempt'[d].number = attempt[d].number + 1
    <3>1. \A d \in Events : attempt[d] \in Attempt
      BY DEF TypeOK
    <3>2. ASSUME NEW c \in Attempt, NEW now
          PROVE  c.number \in Nat /\ Claimed(c, now).number = c.number + 1
      BY DEF Claimed, Attempt
    <3>3. \A d \in Events : \/ attempt'[d] = attempt[d]
                            \/ attempt'[d] = Claimed(attempt[d], worker[w].now)
      BY <1>12 DEF ClaimError, TypeOK
    <3>4. QED
      BY <3>1, <3>2, <3>3
  <2>2. \A v \in Workers, d \in Events :
           Claims(v, d)' => /\ Claims(v, d)
                            /\ worker'[v].number = worker[v].number
    BY <1>12, ReleaseMakesNoClaim DEF ClaimError
  <2>3. QED
    BY <2>1, <2>2 DEF ClaimNumbersDistinct
<1>13. QED
  BY <1>1, <1>2, <1>3, <1>4, <1>5, <1>6, <1>7, <1>8, <1>9, <1>10, <1>11, <1>12
     DEF Next, Advance

\* Every claim of an event has a number of its own, whatever workers stall,
\* crash or fail in between.
THEOREM ClaimsAreDistinct == Spec => []ClaimNumbersDistinct
<1>1. Init => ClaimNumbersDistinct
  BY DEF Init, ClaimNumbersDistinct, Claims, Idle
<1>2. QED
  BY <1>1, StepsKeepNumbers, TypeCorrect, PTL DEF Spec
-----------------------------------------------------------------------------
(* Safety. *)

\* A step that adds no effect and decides no event keeps what relates the
\* effects to the rows.
LEMMA QuietKeepsEffects ==
    ASSUME TypeOK, SafetyInv, UNCHANGED effects, receipts \subseteq receipts',
           \A e \in Events : Succeeded(e)' <=> Succeeded(e)
    PROVE  EffectsExactlyOnce' /\ OneLedgerTransactionPerSource' /\ ReceiptBeforeLedger'
<1>1. EffectsExactlyOnce'
  BY DEF SafetyInv, EffectsExactlyOnce, effects, InLedger, OnceIf
<1>2. OneLedgerTransactionPerSource'
  BY DEF SafetyInv, OneLedgerTransactionPerSource, effects
<1>3. ReceiptBeforeLedger'
  BY DEF SafetyInv, ReceiptBeforeLedger, effects
<1>4. QED
  BY <1>1, <1>2, <1>3

\* What a worker's stage says stays true of the workers a step leaves alone.
LEMMA OthersKeepStage ==
    ASSUME TypeOK, SafetyInv, NEW w \in Workers, receipts \subseteq receipts',
           \A v \in Workers \ {w} : worker'[v] = worker[v],
           \A e \in Events : Succeeded(e) => Succeeded(e)'
    PROVE  \A v \in Workers \ {w} : StageOK(v)'
<1> SUFFICES ASSUME NEW v \in Workers \ {w} PROVE StageOK(v)'
  OBVIOUS
<1>1. StageOK(v) /\ worker'[v] = worker[v]
  BY DEF SafetyInv, StageInv
<1>2. worker[v].stage # "idle" => worker[v].event \in Events
  BY AtWork
<1>3. QED
  BY <1>1, <1>2 DEF StageOK

\* The stage reached by Goto, and by Release.
LEMMA GotoStage ==
    ASSUME TypeOK, NEW w \in Workers, worker[w].stage # "idle",
           NEW stage \in Stages, Goto(w, stage)
    PROVE  /\ worker'[w].stage = stage
           /\ worker'[w].event = worker[w].event
           /\ worker'[w].number = worker[w].number
           /\ \A v \in Workers \ {w} : worker'[v] = worker[v]
<1>1. worker[w] \in Working
  BY AtWork
<1>2. QED
  BY <1>1 DEF Goto, TypeOK, Working

LEMMA ReleaseStage ==
    ASSUME TypeOK, NEW w \in Workers, Release(w)
    PROVE  /\ worker'[w].stage = "idle"
           /\ \A v \in Workers \ {w} : worker'[v] = worker[v]
BY DEF Release, TypeOK, Idle

\* A released worker claims nothing of its event.
LEMMA ReleaseKeepsStage ==
    ASSUME TypeOK, SafetyInv, NEW w \in Workers, Release(w),
           receipts \subseteq receipts',
           \A e \in Events : Succeeded(e) => Succeeded(e)'
    PROVE  StageInv'
<1>1. StageOK(w)'
  BY ReleaseStage DEF StageOK
<1>2. \A v \in Workers \ {w} : StageOK(v)'
  BY ReleaseStage, OthersKeepStage
<1>3. QED
  BY <1>1, <1>2 DEF StageInv

\* A worker that goes to a stage keeps StageInv if the stage fits its event.
LEMMA GotoKeepsStage ==
    ASSUME TypeOK, SafetyInv, NEW w \in Workers, worker[w].stage # "idle",
           NEW stage \in Stages, Goto(w, stage),
           NEW e \in Events, e = worker[w].event,
           receipts \subseteq receipts',
           \A d \in Events : Succeeded(d) => Succeeded(d)',
           stage = "prepared" => HasLedger(e),
           stage = "ready" /\ HasLedger(e) => e \in receipts',
           stage = "acking" => Succeeded(e)'
    PROVE  StageInv'
<1>1. /\ worker'[w].stage = stage
      /\ worker'[w].event = e
      /\ \A v \in Workers \ {w} : worker'[v] = worker[v]
  BY GotoStage
<1>3. StageOK(w)'
  BY <1>1 DEF StageOK, HasLedger, Succeeded
<1>4. \A v \in Workers \ {w} : StageOK(v)'
  BY <1>1, OthersKeepStage
<1>5. QED
  BY <1>3, <1>4 DEF StageInv

\* Dispatching an undecided event adds exactly its own effects, once.
LEMMA DispatchOnce ==
    ASSUME TypeOK, SafetyInv, NEW w \in Workers, HandleCommit(w),
           NEW e \in Events, e = worker[w].event
    PROVE  /\ ledger' = IF HasLedger(e)
                        THEN ledger \union {<<SourceOf[e], e>>} ELSE ledger
           /\ recorded' = IF HasLedger(e)
                          THEN [recorded EXCEPT ![e] = 1] ELSE recorded
           /\ stats' = IF HasStats(e) THEN [stats EXCEPT ![e] = 1] ELSE stats
           /\ processed' = IF KindOf[e] = "gift"
                           THEN processed \union {SourceOf[e]} ELSE processed
           /\ HasLedger(e) => LedgerAllows(e) /\ e \in receipts
           /\ KindOf[e] \notin {"malformed", "unknown"}
           /\ ~Succeeded(e) /\ ~attempt[e].terminal
           /\ \A d \in Events : Succeeded(d)' <=> Succeeded(d) \/ d = e
<1>1. Dispatch(e) /\ ClaimStands(e) /\ worker[w].stage = "ready"
  BY DEF HandleCommit
<1>2. ~Succeeded(e) /\ ~attempt[e].terminal
  BY <1>1 DEF ClaimStands, Succeeded, SafetyInv, OneNoticePerTerminalEvent
<1>3. ~InLedger(e) /\ recorded[e] = 0 /\ stats[e] = 0
  BY <1>2 DEF SafetyInv, EffectsExactlyOnce, OnceIf
<1>4. HasLedger(e) => e \in receipts
  BY <1>1 DEF SafetyInv, StageInv, StageOK
<1>5. \A d \in Events : Succeeded(d)' <=> Succeeded(d) \/ d = e
  BY <1>2 DEF HandleCommit, Succeeded, TypeOK, Attempt
<1>6. CASE HasLedger(e)
  <2>1. LedgerAllows(e) /\ WriteLedger(e) /\ HasStats(e)
    BY <1>1, <1>6 DEF Dispatch, HasLedger, HasStats
  <2>2. recorded[e] + 1 = 1 /\ stats[e] + 1 = 1
    BY <1>3
  <2>3. QED
    BY <1>2, <1>3, <1>4, <1>5, <1>6, <2>1, <2>2 DEF WriteLedger, HasLedger
<1>7. CASE ~HasLedger(e)
  <2>1. CASE KindOf[e] = "ack"
    BY <1>1, <1>2, <1>5, <1>7, <2>1 DEF Dispatch, HasLedger, HasStats, effects
  <2>2. CASE KindOf[e] = "free"
    BY <1>1, <1>2, <1>3, <1>5, <1>7, <2>2 DEF Dispatch, HasLedger, HasStats
  <2>3. QED
    BY <1>1, <1>7, <2>1, <2>2 DEF Dispatch
<1>8. QED
  BY <1>6, <1>7

\* The handler's commit keeps the invariant: this is where every effect is
\* made, by the one worker whose claim still stands.
LEMMA CommitKeepsSafety ==
    ASSUME TypeOK, SafetyInv, NEW w \in Workers, HandleCommit(w)
    PROVE  SafetyInv'
<1>0. PICK e \in Events : e = worker[w].event
  BY AtWork DEF HandleCommit
<1>1. /\ ledger' = IF HasLedger(e)
                   THEN ledger \union {<<SourceOf[e], e>>} ELSE ledger
      /\ recorded' = IF HasLedger(e)
                     THEN [recorded EXCEPT ![e] = 1] ELSE recorded
      /\ stats' = IF HasStats(e) THEN [stats EXCEPT ![e] = 1] ELSE stats
      /\ processed' = IF KindOf[e] = "gift"
                      THEN processed \union {SourceOf[e]} ELSE processed
      /\ HasLedger(e) => LedgerAllows(e) /\ e \in receipts
      /\ ~Succeeded(e) /\ ~attempt[e].terminal
  BY <1>0, DispatchOnce
<1>2. \A d \in Events : Succeeded(d)' <=> Succeeded(d) \/ d = e
  BY <1>0, DispatchOnce
<1>3. EffectsExactlyOnce'
  <2> SUFFICES ASSUME NEW d \in Events
               PROVE  /\ InLedger(d)' <=> Succeeded(d)' /\ HasLedger(d)
                      /\ recorded'[d] = OnceIf(Succeeded(d)' /\ HasLedger(d))
                      /\ stats'[d] = OnceIf(Succeeded(d)' /\ HasStats(d))
                      /\ Succeeded(d)' /\ KindOf[d] = "gift"
                           => SourceOf[d] \in processed'
    BY DEF EffectsExactlyOnce, OnceIf, HasLedger, HasStats, InLedger
  <2>1. CASE d = e
    <3>1. Succeeded(e)' /\ ~InLedger(e) /\ recorded[e] = 0 /\ stats[e] = 0
      BY <1>0, <1>1, <1>2 DEF SafetyInv, EffectsExactlyOnce, OnceIf
    <3>2. InLedger(e)' <=> HasLedger(e)
      BY <1>1, <3>1 DEF InLedger
    <3>3. recorded'[e] = OnceIf(HasLedger(e))
      BY <1>0, <1>1, <3>1 DEF OnceIf, TypeOK
    <3>4. stats'[e] = OnceIf(HasStats(e))
      BY <1>0, <1>1, <3>1 DEF OnceIf, TypeOK
    <3>5. KindOf[e] = "gift" => SourceOf[e] \in processed'
      BY <1>1
    <3>6. QED
      BY <2>1, <3>1, <3>2, <3>3, <3>4, <3>5
         DEF Succeeded, InLedger, OnceIf
  <2>2. CASE d # e
    BY <1>0, <1>1, <1>2, <2>2
       DEF SafetyInv, EffectsExactlyOnce, InLedger, OnceIf, TypeOK
  <2>3. QED
    BY <2>1, <2>2
<1>4. OneLedgerTransactionPerSource'
  <2>1. CASE HasLedger(e)
    <3>1. \A row \in ledger : row[1] = SourceOf[e] => row = <<SourceOf[e], e>>
      BY <1>1, <2>1 DEF LedgerAllows, TypeOK
    <3>2. QED
      BY <1>1, <2>1, <3>1 DEF SafetyInv, OneLedgerTransactionPerSource
  <2>2. CASE ~HasLedger(e)
    BY <1>1, <2>2 DEF SafetyInv, OneLedgerTransactionPerSource
  <2>3. QED
    BY <2>1, <2>2
<1>5. ReceiptBeforeLedger'
  BY <1>1 DEF SafetyInv, ReceiptBeforeLedger, HandleCommit
<1>6. OneNoticePerTerminalEvent'
  BY <1>0, <1>1 DEF SafetyInv, OneNoticePerTerminalEvent, HandleCommit, TypeOK,
                    Attempt, OnceIf
<1>7. DeletedOnlyAfterSuccess'
  BY <1>2 DEF SafetyInv, DeletedOnlyAfterSuccess, HandleCommit, TypeOK
<1>8. StageInv'
  BY <1>0, <1>2, GotoKeepsStage DEF HandleCommit, Stages
<1>9. QED
  BY <1>3, <1>4, <1>5, <1>6, <1>7, <1>8 DEF SafetyInv

\* A failure recorded by any worker, stale or not, never touches a
\* succeeded row, and enqueues the notice with the verdict or not at all.
LEMMA FailureKeepsSafety ==
    ASSUME TypeOK, SafetyInv, ClaimNumbersDistinct,
           NEW w \in Workers, RecordFailure(w)
    PROVE  SafetyInv'
<1>0. PICK e \in Events, n \in Nat : e = worker[w].event /\ n = worker[w].number
  BY AtWork DEF RecordFailure, Working
<1>a. attempt[e] \in Attempt
  BY DEF TypeOK
<1>d. n \in 1 .. attempt[e].number
  BY <1>0 DEF ClaimNumbersDistinct, Claims, RecordFailure
<1>b. /\ Failed(attempt[e], n).status = "failed"
      /\ Failed(attempt[e], n).number = attempt[e].number
      /\ Failed(attempt[e], n).terminal
           = (attempt[e].terminal \/ n >= MaxAttempts)
      /\ Failed(attempt[e], n).emitted
           = (attempt[e].emitted \/ n >= MaxAttempts)
  BY <1>a DEF Failed, Attempt
<1>c. \/ UNCHANGED <<attempt, notices>>
      \/ /\ attempt[e].status # "succeeded"
         /\ attempt' = [attempt EXCEPT ![e] = Failed(attempt[e], n)]
         /\ notices' = IF n >= MaxAttempts /\ ~attempt[e].emitted
                       THEN [notices EXCEPT ![e] = @ + 1] ELSE notices
  BY <1>0 DEF RecordFailure
<1>1. \A d \in Events : Succeeded(d)' <=> Succeeded(d)
  BY <1>b, <1>c DEF Succeeded, TypeOK
<1>2. /\ EffectsExactlyOnce'
      /\ OneLedgerTransactionPerSource'
      /\ ReceiptBeforeLedger'
  BY <1>1, QuietKeepsEffects DEF RecordFailure
<1>3. OneNoticePerTerminalEvent'
  <2> USE DEF SafetyInv, OneNoticePerTerminalEvent
  <2>1. CASE UNCHANGED <<attempt, notices>>
    BY <2>1 DEF OnceIf
  <2>2. CASE /\ attempt[e].status # "succeeded"
             /\ attempt' = [attempt EXCEPT ![e] = Failed(attempt[e], n)]
             /\ notices' = IF n >= MaxAttempts /\ ~attempt[e].emitted
                           THEN [notices EXCEPT ![e] = @ + 1] ELSE notices
    <3>1. attempt'[e] = Failed(attempt[e], n)
      BY <2>2 DEF TypeOK
    <3>2. notices[e] = OnceIf(attempt[e].emitted)
          /\ attempt[e].emitted = attempt[e].terminal
      OBVIOUS
    <3>3. notices'[e] = IF n >= MaxAttempts /\ ~attempt[e].emitted
                        THEN 1 ELSE notices[e]
      BY <2>2, <3>2 DEF TypeOK, OnceIf
    <3>4. notices'[e] = OnceIf(attempt[e].terminal \/ n >= MaxAttempts)
      BY <3>2, <3>3 DEF OnceIf
    <3>5. n >= MaxAttempts => attempt[e].number >= MaxAttempts
      BY <1>0, <1>a, <1>d, ParametersAssumption DEF Attempt
    <3>6. \A d \in Events \ {e} :
             attempt'[d] = attempt[d] /\ notices'[d] = notices[d]
      BY <2>2 DEF TypeOK
    <3>7. QED
      BY <1>b, <3>1, <3>2, <3>4, <3>5, <3>6 DEF OnceIf
  <2>3. QED
    BY <1>c, <2>1, <2>2
<1>4. DeletedOnlyAfterSuccess'
  BY <1>1 DEF SafetyInv, DeletedOnlyAfterSuccess, RecordFailure, TypeOK
<1>5. StageInv'
  BY <1>1, ReleaseKeepsStage DEF RecordFailure
<1>6. QED
  BY <1>2, <1>3, <1>4, <1>5 DEF SafetyInv

\* Any other step changes no effect, no notice and no verdict.
LEMMA OtherStepsKeepSafety ==
    ASSUME TypeOK, SafetyInv, StageInv', UNCHANGED <<effects, notices>>,
           receipts \subseteq receipts',
           \A e \in Events : /\ Succeeded(e)' <=> Succeeded(e)
                             /\ attempt'[e].terminal = attempt[e].terminal
                             /\ attempt'[e].emitted = attempt[e].emitted
                             /\ attempt[e].terminal => attempt'[e] = attempt[e],
           \A e \in acked' : e \in acked \/ (e \in Events /\ Succeeded(e))
    PROVE  SafetyInv'
<1>1. /\ EffectsExactlyOnce'
      /\ OneLedgerTransactionPerSource'
      /\ ReceiptBeforeLedger'
  BY QuietKeepsEffects
<1>2. OneNoticePerTerminalEvent'
  BY DEF SafetyInv, OneNoticePerTerminalEvent, OnceIf
<1>3. DeletedOnlyAfterSuccess'
  BY DEF SafetyInv, DeletedOnlyAfterSuccess, TypeOK
<1>4. QED
  BY <1>1, <1>2, <1>3 DEF SafetyInv

\* No step breaks the safety of the effects.
LEMMA StepsKeepSafety ==
    TypeOK /\ ClaimNumbersDistinct /\ SafetyInv /\ [Next]_vars => SafetyInv'
<1> SUFFICES ASSUME TypeOK, ClaimNumbersDistinct, SafetyInv, [Next]_vars
             PROVE  SafetyInv'
  OBVIOUS
<1>0. ASSUME UNCHANGED attempt
      PROVE  \A e \in Events :
                 /\ Succeeded(e)' <=> Succeeded(e)
                 /\ attempt'[e].terminal = attempt[e].terminal
                 /\ attempt'[e].emitted = attempt[e].emitted
                 /\ attempt[e].terminal => attempt'[e] = attempt[e]
  BY <1>0 DEF Succeeded
<1>1. ASSUME NEW w \in Workers, NEW e \in Events, Receive(w, e)
      PROVE  SafetyInv'
  <2>1. StageOK(w)'
    BY <1>1 DEF Receive, StageOK, TypeOK
  <2>2. \A v \in Workers \ {w} : StageOK(v)'
    BY <1>1, <1>0, OthersKeepStage DEF Receive, TypeOK
  <2>3. QED
    BY <1>0, <1>1, <2>1, <2>2, OtherStepsKeepSafety DEF Receive, StageInv
<1>2. ASSUME NEW w \in Workers, Claim(w) PROVE SafetyInv'
  <2>0. PICK e \in Events : e = worker[w].event
    BY <1>2, AtWork DEF Claim
  <2>1. CASE /\ attempt[e].status = "succeeded"
             /\ Goto(w, "acking")
             /\ UNCHANGED attempt
    <3>1. StageInv'
      BY <1>0, <1>2, <2>0, <2>1, GotoKeepsStage DEF Claim, Stages, Succeeded
    <3>2. QED
      BY <1>0, <1>2, <2>1, <3>1, OtherStepsKeepSafety DEF Claim
  <2>2. CASE Release(w) /\ UNCHANGED attempt
    <3>1. StageInv'
      BY <1>0, <1>2, <2>2, ReleaseKeepsStage DEF Claim
    <3>2. QED
      BY <1>0, <1>2, <2>2, <3>1, OtherStepsKeepSafety DEF Claim
  <2>3. CASE /\ attempt[e].status # "succeeded"
             /\ ~attempt[e].terminal
             /\ attempt' = [attempt EXCEPT
                               ![e] = Claimed(attempt[e], worker[w].now)]
             /\ worker' = [worker EXCEPT ![w].stage = "claimed",
                                         ![w].number = attempt[e].number + 1]
    <3>1. attempt[e] \in Attempt /\ worker[w] \in Working
      BY <1>2, AtWork DEF TypeOK, Claim
    <3>2. /\ attempt'[e].status = "started"
          /\ attempt'[e].terminal = attempt[e].terminal
          /\ attempt'[e].emitted = attempt[e].emitted
          /\ \A d \in Events \ {e} : attempt'[d] = attempt[d]
      BY <2>3, <3>1 DEF TypeOK, Claimed, Attempt
    <3>3. \A d \in Events : /\ Succeeded(d)' <=> Succeeded(d)
                            /\ attempt'[d].terminal = attempt[d].terminal
                            /\ attempt'[d].emitted = attempt[d].emitted
                            /\ attempt[d].terminal => attempt'[d] = attempt[d]
      BY <2>3, <3>2 DEF Succeeded
    <3>4. StageOK(w)'
      <4>1. worker'[w].stage = "claimed"
        BY <2>3, <3>1 DEF TypeOK, Working
      <4>2. QED
        BY <4>1 DEF StageOK
    <3>5. \A v \in Workers \ {w} : StageOK(v)'
      BY <1>2, <2>3, <3>3, OthersKeepStage DEF Claim, TypeOK
    <3>6. QED
      BY <1>2, <3>3, <3>4, <3>5, OtherStepsKeepSafety DEF Claim, StageInv
  <2>4. QED
    BY <1>2, <2>0, <2>1, <2>2, <2>3 DEF Claim
<1>3. ASSUME NEW w \in Workers, Prepare(w) PROVE SafetyInv'
  <2>0. PICK e \in Events : e = worker[w].event
    BY <1>3, AtWork DEF Prepare
  <2>1. StageInv'
    BY <1>0, <1>3, <2>0, GotoKeepsStage DEF Prepare, Stages
  <2>2. QED
    BY <1>0, <1>3, <2>1, OtherStepsKeepSafety DEF Prepare
<1>4. ASSUME NEW w \in Workers, PutReceipt(w) PROVE SafetyInv'
  <2>0. PICK e \in Events : e = worker[w].event
    BY <1>4, AtWork DEF PutReceipt
  <2>1. StageInv'
    BY <1>0, <1>4, <2>0, GotoKeepsStage DEF PutReceipt, Stages
  <2>2. QED
    BY <1>0, <1>4, <2>1, OtherStepsKeepSafety DEF PutReceipt
<1>5. ASSUME NEW w \in Workers, HandleCommit(w) PROVE SafetyInv'
  BY <1>5, CommitKeepsSafety
<1>6. ASSUME NEW w \in Workers, HandleAbort(w) PROVE SafetyInv'
  <2>0. PICK e \in Events : e = worker[w].event
    BY <1>6, AtWork DEF HandleAbort
  <2>1. StageInv'
    BY <1>0, <1>6, <2>0, GotoKeepsStage, ReleaseKeepsStage DEF HandleAbort, Stages
  <2>2. QED
    BY <1>0, <1>6, <2>1, OtherStepsKeepSafety DEF HandleAbort
<1>7. ASSUME NEW w \in Workers, RecordFailure(w) PROVE SafetyInv'
  BY <1>7, FailureKeepsSafety
<1>8. ASSUME NEW w \in Workers, Delete(w) PROVE SafetyInv'
  <2>1. worker[w].event \in Events /\ Succeeded(worker[w].event)
    BY <1>8, AtWork DEF Delete, SafetyInv, StageInv, StageOK
  <2>2. StageInv'
    BY <1>0, <1>8, ReleaseKeepsStage DEF Delete
  <2>3. QED
    BY <1>0, <1>8, <2>1, <2>2, OtherStepsKeepSafety DEF Delete
<1>9. ASSUME NEW w \in Workers, Crash(w) PROVE SafetyInv'
  <2>1. StageInv'
    BY <1>0, <1>9, ReleaseKeepsStage DEF Crash
  <2>2. QED
    BY <1>0, <1>9, <2>1, OtherStepsKeepSafety DEF Crash
<1>10. CASE Tick
  <2>1. StageInv'
    BY <1>10 DEF Tick, SafetyInv, StageInv, StageOK, Succeeded
  <2>2. QED
    BY <1>0, <1>10, <2>1, OtherStepsKeepSafety DEF Tick
<1>11. CASE UNCHANGED vars
  <2>1. StageInv'
    BY <1>11 DEF vars, SafetyInv, StageInv, StageOK, Succeeded
  <2>2. QED
    BY <1>0, <1>11, <2>1, OtherStepsKeepSafety DEF vars
<1>12. ASSUME NEW w \in Workers, ClaimError(w) PROVE SafetyInv'
  <2>1. \A d \in Events : /\ Succeeded(d)' <=> Succeeded(d)
                          /\ attempt'[d].terminal = attempt[d].terminal
                          /\ attempt'[d].emitted = attempt[d].emitted
                          /\ attempt[d].terminal => attempt'[d] = attempt[d]
    <3>1. \A d \in Events : attempt[d] \in Attempt
      BY DEF TypeOK
    <3>2. ASSUME NEW c \in Attempt, NEW now
          PROVE  /\ Claimed(c, now).status = "started"
                 /\ Claimed(c, now).terminal = c.terminal
                 /\ Claimed(c, now).emitted = c.emitted
      BY DEF Claimed, Attempt
    <3>3. \A d \in Events :
             \/ attempt'[d] = attempt[d]
             \/ /\ attempt'[d] = Claimed(attempt[d], worker[w].now)
                /\ attempt[d].status # "succeeded" /\ ~attempt[d].terminal
      BY <1>12 DEF ClaimError, TypeOK
    <3>4. QED
      BY <3>1, <3>2, <3>3 DEF Succeeded
  <2>2. StageInv'
    BY <1>12, <2>1, ReleaseKeepsStage DEF ClaimError
  <2>3. QED
    BY <1>12, <2>1, <2>2, OtherStepsKeepSafety DEF ClaimError
<1>13. QED
  BY <1>1, <1>2, <1>3, <1>4, <1>5, <1>6, <1>7, <1>8, <1>9, <1>10, <1>11, <1>12
     DEF Next, Advance

\* Nothing has happened at first.
LEMMA InitIsSafe == Init => TypeOK /\ ClaimNumbersDistinct /\ SafetyInv
<1> SUFFICES ASSUME Init PROVE TypeOK /\ ClaimNumbersDistinct /\ SafetyInv
  OBVIOUS
<1>a. TypeOK /\ ClaimNumbersDistinct
  BY ParametersAssumption
     DEF Init, TypeOK, Attempt, NoAttempt, Statuses, Worker, Idle,
         ClaimNumbersDistinct, Claims
<1>1. \A e \in Events : attempt[e] = NoAttempt /\ ~Succeeded(e)
  BY DEF Init, NoAttempt, Succeeded
<1>2. EffectsExactlyOnce
  BY <1>1 DEF Init, EffectsExactlyOnce, InLedger, OnceIf
<1>3. OneNoticePerTerminalEvent
  BY <1>1 DEF Init, OneNoticePerTerminalEvent, NoAttempt, OnceIf
<1>4. StageInv
  BY DEF Init, StageInv, StageOK, Idle
<1>5. OneLedgerTransactionPerSource /\ ReceiptBeforeLedger
        /\ DeletedOnlyAfterSuccess
  BY DEF Init, OneLedgerTransactionPerSource, ReceiptBeforeLedger,
         DeletedOnlyAfterSuccess
<1>6. QED
  BY <1>a, <1>2, <1>3, <1>4, <1>5 DEF SafetyInv

\* The safety of event processing: effects exactly once, one ledger
\* transaction per source, receipts before the ledger, one notice for each
\* terminal event, and no message deleted before its effects.
THEOREM Safety == Spec => []SafetyInv
<1>1. Init => SafetyInv
  BY InitIsSafe
<1>2. QED
  BY <1>1, StepsKeepSafety, TypeCorrect, ClaimsAreDistinct, PTL DEF Spec

\* The effects of an event are committed once (processor.py _process).
COROLLARY EffectsHappenOnce == Spec => []EffectsExactlyOnce
BY Safety, PTL DEF SafetyInv

\* A subscription or gift is charged once in the ledger (_write_ledger).
COROLLARY SourcesAreChargedOnce == Spec => []OneLedgerTransactionPerSource
BY Safety, PTL DEF SafetyInv

\* A receipt exists before the ledger refers to it (_store_prepared_receipt).
COROLLARY ReceiptsComeFirst == Spec => []ReceiptBeforeLedger
BY Safety, PTL DEF SafetyInv

\* A terminal event is announced once (_record_failure).
COROLLARY NoticesHappenOnce == Spec => []OneNoticePerTerminalEvent
BY Safety, PTL DEF SafetyInv

\* No message is deleted before the effects of its event (consume_once).
COROLLARY DeletionIsSafe == Spec => []DeletedOnlyAfterSuccess
BY Safety, PTL DEF SafetyInv
-----------------------------------------------------------------------------
(* Leases. *)

\* The clock value a claim decides with is never in its future.
LEMMA ClockIsRead == Spec => []ClockInv
<1>1. Init => ClockInv
  BY DEF Init, ClockInv, Idle
<1>2. TypeOK /\ ClockInv /\ [Next]_vars => ClockInv'
  <2> SUFFICES ASSUME TypeOK, ClockInv, [Next]_vars PROVE ClockInv'
    OBVIOUS
  <2>0. ASSUME NEW w \in Workers, NEW stage \in Stages \ {"claiming"},
               worker[w].stage # "idle", Goto(w, stage), UNCHANGED clock
        PROVE  ClockInv'
    BY <2>0, GotoStage DEF ClockInv
  <2>a. ASSUME NEW w \in Workers, Release(w), UNCHANGED clock PROVE ClockInv'
    BY <2>a, ReleaseStage DEF ClockInv
  <2>1. ASSUME NEW w \in Workers, NEW e \in Events, Receive(w, e) PROVE ClockInv'
    BY <2>1 DEF Receive, ClockInv, TypeOK
  <2>2. ASSUME NEW w \in Workers, Claim(w) PROVE ClockInv'
    <3>1. CASE worker' = [worker EXCEPT ![w].stage = "claimed",
                             ![w].number = attempt[worker[w].event].number + 1]
      <4>1. worker[w] \in Working
        BY <2>2, AtWork DEF Claim
      <4>2. worker'[w].stage = "claimed"
            /\ \A v \in Workers \ {w} : worker'[v] = worker[v]
        BY <3>1, <4>1 DEF TypeOK, Working
      <4>3. QED
        BY <2>2, <4>2 DEF ClockInv, Claim
    <3>2. QED
      BY <2>0, <2>a, <2>2, <3>1 DEF Claim, Stages
  <2>3. ASSUME NEW w \in Workers, Prepare(w) PROVE ClockInv'
    BY <2>0, <2>3 DEF Prepare, Stages
  <2>4. ASSUME NEW w \in Workers, PutReceipt(w) PROVE ClockInv'
    BY <2>0, <2>4 DEF PutReceipt, Stages
  <2>5. ASSUME NEW w \in Workers, HandleCommit(w) PROVE ClockInv'
    BY <2>0, <2>5 DEF HandleCommit, Stages
  <2>6. ASSUME NEW w \in Workers, HandleAbort(w) PROVE ClockInv'
    BY <2>0, <2>a, <2>6 DEF HandleAbort, Stages
  <2>7. ASSUME NEW w \in Workers, RecordFailure(w) PROVE ClockInv'
    BY <2>a, <2>7 DEF RecordFailure
  <2>8. ASSUME NEW w \in Workers, Delete(w) PROVE ClockInv'
    BY <2>a, <2>8 DEF Delete
  <2>9. ASSUME NEW w \in Workers, Crash(w) PROVE ClockInv'
    BY <2>a, <2>9 DEF Crash
  <2>10. CASE Tick
    <3>1. \A w \in Workers : worker[w].stage = "claiming" => worker[w].now \in Nat
      BY AtWork DEF Working
    <3>2. QED
      BY <2>10, <3>1 DEF Tick, ClockInv, TypeOK
  <2>11. CASE UNCHANGED vars
    BY <2>11 DEF vars, ClockInv
  <2>12. ASSUME NEW w \in Workers, ClaimError(w) PROVE ClockInv'
    BY <2>a, <2>12 DEF ClaimError
  <2>13. QED
    BY <2>1, <2>2, <2>3, <2>4, <2>5, <2>6, <2>7, <2>8, <2>9, <2>10, <2>11, <2>12
       DEF Next, Advance
<1>3. QED
  BY <1>1, <1>2, TypeCorrect, PTL DEF Spec

\* What a step does to the row of an event: leaves it, claims it, commits
\* it or records a failure in it.
LEMMA RowSteps ==
    ASSUME TypeOK, [Next]_vars, NEW e \in Events, attempt'[e] # attempt[e]
    PROVE  \E w \in Workers :
               /\ worker[w].event = e
               /\ \/ /\ worker[w].stage = "claiming"
                     /\ ~LeaseHeld(attempt[e], worker[w].now)
                     /\ attempt[e].status # "succeeded"
                     /\ ~attempt[e].terminal
                     /\ attempt'[e] = Claimed(attempt[e], worker[w].now)
                  \/ HandleCommit(w)
                  \/ /\ RecordFailure(w)
                     /\ attempt'[e] = Failed(attempt[e], worker[w].number)
                     /\ attempt[e].status # "succeeded"
<1>1. PICK w \in Workers :
         Claim(w) \/ ClaimError(w) \/ HandleCommit(w) \/ RecordFailure(w)
  BY DEF Next, Advance, Receive, Prepare, PutReceipt, HandleAbort, Delete,
         Crash, Tick, vars
<1>2. CASE Claim(w) \/ ClaimError(w)
  BY <1>2 DEF Claim, ClaimError, TypeOK
<1>3. CASE HandleCommit(w)
  BY <1>3 DEF HandleCommit, TypeOK
<1>4. CASE RecordFailure(w)
  BY <1>4 DEF RecordFailure, TypeOK
<1>5. QED
  BY <1>1, <1>2, <1>3, <1>4

\* A started row is taken over only once its lease has run out.
THEOREM LeasesAreRespected == Spec => TakeoverOnlyAfterLease
<1> DEFINE Respects(e) ==
      attempt[e].status = "started" /\ attempt'[e].number # attempt[e].number
          => clock >= attempt[e].lockedUntil
<1>1. TypeOK /\ ClockInv /\ [Next]_vars => \A e \in Events : Respects(e)
  <2> SUFFICES ASSUME TypeOK, ClockInv, [Next]_vars, NEW e \in Events,
                      attempt[e].status = "started",
                      attempt'[e].number # attempt[e].number
               PROVE  clock >= attempt[e].lockedUntil
    OBVIOUS
  <2>1. PICK w \in Workers :
               /\ worker[w].event = e
               /\ \/ /\ worker[w].stage = "claiming"
                     /\ ~LeaseHeld(attempt[e], worker[w].now)
                  \/ HandleCommit(w)
                  \/ /\ RecordFailure(w)
                     /\ attempt'[e] = Failed(attempt[e], worker[w].number)
    BY RowSteps
  <2>2. ~HandleCommit(w)
    BY <2>1 DEF HandleCommit, TypeOK, Attempt
  <2>3. attempt'[e] # Failed(attempt[e], worker[w].number)
    BY DEF Failed, TypeOK, Attempt
  <2>4. worker[w].stage = "claiming" /\ ~LeaseHeld(attempt[e], worker[w].now)
    BY <2>1, <2>2, <2>3
  <2>5. worker[w].now <= clock /\ worker[w].now \in Nat
    BY <2>4, AtWork DEF ClockInv, Working
  <2>6. attempt[e].lockedUntil \in Nat /\ clock \in Nat
    BY DEF TypeOK, Attempt
  <2>7. attempt[e].lockedUntil <= worker[w].now
    BY <2>4, <2>5, <2>6 DEF LeaseHeld
  <2>8. QED
    BY <2>5, <2>6, <2>7
<1>2. QED
  BY <1>1, TypeCorrect, ClockIsRead, PTL DEF Spec, TakeoverOnlyAfterLease
-----------------------------------------------------------------------------
(* The workers implement the promise. *)

\* The handler's commit is the promise's completion of its event.
LEMMA CommitCompletes ==
    ASSUME TypeOK, SafetyInv, NEW w \in Workers, HandleCommit(w)
    PROVE  \E e \in Events : Outcome!Complete(e)
<1>0. PICK e \in Events : e = worker[w].event
  BY AtWork DEF HandleCommit
<1>1. /\ ledger' = IF HasLedger(e)
                   THEN ledger \union {<<SourceOf[e], e>>} ELSE ledger
      /\ recorded' = IF HasLedger(e)
                     THEN [recorded EXCEPT ![e] = 1] ELSE recorded
      /\ stats' = IF HasStats(e) THEN [stats EXCEPT ![e] = 1] ELSE stats
      /\ processed' = IF KindOf[e] = "gift"
                      THEN processed \union {SourceOf[e]} ELSE processed
      /\ HasLedger(e) => LedgerAllows(e)
      /\ KindOf[e] \notin {"malformed", "unknown"}
      /\ ~Succeeded(e) /\ ~attempt[e].terminal
  BY <1>0, DispatchOnce
<1>2. VerdictOf(attempt[e]) = "pending"
  BY <1>1 DEF VerdictOf, Succeeded
<1>3. HasLedger(e) => \A row \in ledger : row[1] # SourceOf[e]
  <2>1. ~InLedger(e)
    BY <1>1 DEF SafetyInv, EffectsExactlyOnce
  <2>2. \A row \in ledger : row = <<row[1], row[2]>>
    BY DEF TypeOK
  <2>3. QED
    BY <1>1, <2>1, <2>2 DEF LedgerAllows, InLedger
<1>4. /\ attempt'[e].status = "succeeded"
      /\ \A d \in Events \ {e} : attempt'[d] = attempt[d]
  BY <1>0 DEF HandleCommit, TypeOK, Attempt
<1>5. [d \in Events |-> VerdictOf(attempt[d])]'
        = [[d \in Events |-> VerdictOf(attempt[d])] EXCEPT ![e] = "done"]
  BY <1>4 DEF VerdictOf
<1>6. UNCHANGED notices
  BY DEF HandleCommit
<1>7. QED
  BY <1>1, <1>2, <1>3, <1>5, <1>6 DEF Outcome!Complete

\* A recorded failure gives its event up or leaves the promise unchanged.
LEMMA FailureGivesUp ==
    ASSUME TypeOK, SafetyInv, NEW w \in Workers, RecordFailure(w)
    PROVE  (\E e \in Events : Outcome!GiveUp(e)) \/ UNCHANGED Outcome!vars
<1>0. PICK e \in Events, n \in Nat : e = worker[w].event /\ n = worker[w].number
  BY AtWork DEF RecordFailure, Working
<1>1. UNCHANGED effects
  BY DEF RecordFailure
<1>2. CASE UNCHANGED <<attempt, notices>>
  BY <1>1, <1>2 DEF Outcome!vars, effects
<1>3. CASE /\ attempt[e].status # "succeeded"
           /\ attempt' = [attempt EXCEPT ![e] = Failed(attempt[e], n)]
           /\ notices' = IF n >= MaxAttempts /\ ~attempt[e].emitted
                         THEN [notices EXCEPT ![e] = @ + 1] ELSE notices
  <2>1. attempt[e] \in Attempt
    BY DEF TypeOK
  <2>2. /\ attempt'[e].status = "failed"
        /\ attempt'[e].terminal = (attempt[e].terminal \/ n >= MaxAttempts)
        /\ \A d \in Events \ {e} : attempt'[d] = attempt[d]
    BY <1>3, <2>1 DEF TypeOK, Failed, Attempt
  <2>3. /\ attempt[e].emitted = attempt[e].terminal
        /\ notices[e] = IF attempt[e].terminal THEN 1 ELSE 0
    BY DEF SafetyInv, OneNoticePerTerminalEvent, OnceIf
  <2>4. CASE n >= MaxAttempts /\ ~attempt[e].terminal
    <3>1. VerdictOf(attempt[e]) = "pending"
      BY <1>3, <2>4 DEF VerdictOf
    <3>2. [d \in Events |-> VerdictOf(attempt[d])]'
            = [[d \in Events |-> VerdictOf(attempt[d])] EXCEPT ![e] = "terminal"]
      BY <2>2, <2>4 DEF VerdictOf
    <3>3. notices' = [notices EXCEPT ![e] = 1]
      BY <1>3, <2>3, <2>4
    <3>4. QED
      BY <1>1, <3>1, <3>2, <3>3 DEF Outcome!GiveUp, effects
  <2>5. CASE ~(n >= MaxAttempts /\ ~attempt[e].terminal)
    <3>1. [d \in Events |-> VerdictOf(attempt[d])]'
            = [d \in Events |-> VerdictOf(attempt[d])]
      BY <1>3, <2>2, <2>5 DEF VerdictOf
    <3>2. UNCHANGED notices
      BY <1>3, <2>3, <2>5
    <3>3. QED
      BY <1>1, <3>1, <3>2 DEF Outcome!vars, effects
  <2>6. QED
    BY <2>4, <2>5
<1>4. QED
  BY <1>0, <1>2, <1>3 DEF RecordFailure

\* Every step is one of the promise, or none.
LEMMA StepsKeepPromise ==
    TypeOK /\ SafetyInv /\ [Next]_vars => [Outcome!Next]_(Outcome!vars)
<1> SUFFICES ASSUME TypeOK, SafetyInv, [Next]_vars
             PROVE  [Outcome!Next]_(Outcome!vars)
  OBVIOUS
<1>1. ASSUME UNCHANGED <<effects, notices>>,
             \A e \in Events : VerdictOf(attempt'[e]) = VerdictOf(attempt[e])
      PROVE  UNCHANGED Outcome!vars
  BY <1>1 DEF Outcome!vars, effects
<1>2. ASSUME NEW w \in Workers, Claim(w) \/ ClaimError(w)
      PROVE  UNCHANGED Outcome!vars
  <2>1. \A e \in Events : VerdictOf(attempt'[e]) = VerdictOf(attempt[e])
    <3> SUFFICES ASSUME NEW e \in Events, attempt'[e] # attempt[e]
                 PROVE  VerdictOf(attempt'[e]) = VerdictOf(attempt[e])
      OBVIOUS
    <3>1. /\ ~attempt[e].terminal
          /\ attempt[e].status # "succeeded"
          /\ attempt'[e] = Claimed(attempt[e], worker[w].now)
      BY <1>2 DEF Claim, ClaimError, TypeOK
    <3>2. QED
      BY <3>1 DEF VerdictOf, Claimed, TypeOK, Attempt
  <2>2. QED
    BY <1>1, <1>2, <2>1 DEF Claim, ClaimError
<1>3. ASSUME NEW w \in Workers, HandleCommit(w) PROVE Outcome!Next
  BY <1>3, CommitCompletes DEF Outcome!Next
<1>4. ASSUME NEW w \in Workers, RecordFailure(w)
      PROVE  Outcome!Next \/ UNCHANGED Outcome!vars
  BY <1>4, FailureGivesUp DEF Outcome!Next
<1>5. CASE UNCHANGED <<attempt, effects, notices>>
  BY <1>1, <1>5
<1>6. QED
  BY <1>2, <1>3, <1>4, <1>5 DEF Next, Advance, Receive, Prepare, PutReceipt,
     HandleAbort, Delete, Crash, Tick, vars

\* Whatever is redelivered, retried, interrupted or taken over, the workers
\* behave as if each event were applied in one step or given up in one step,
\* once and for ever.
THEOREM ImplementsOutcome == Spec => OutcomeSpec
<1>1. Init => Outcome!Init
  BY DEF Init, Outcome!Init, VerdictOf, NoAttempt
<1>2. QED
  BY <1>1, StepsKeepPromise, TypeCorrect, Safety, PTL DEF Spec, OutcomeSpec, Outcome!Spec
-----------------------------------------------------------------------------
(* The artifact stores. *)

\* A step of w outside put_receipt leaves the store as it is.
LEMMA OutsideKeepsStore ==
    ASSUME StoreInv, NEW w \in Workers, worker[w].stage # "prepared",
           \A v \in Workers \ {w} : worker'[v] = worker[v],
           UNCHANGED <<receipts, storeVars>>
    PROVE  StoreInv'
<1>1. S!TypeOK' /\ receipts' = S!Whole'
  BY DEF StoreInv, S!TypeOK, S!Whole, storeVars
<1>2. call[w] = "none"
  BY DEF StoreInv
<1>3. QED
  BY <1>1, <1>2 DEF StoreInv, storeVars

\* What a call of the store does to the object of the event and to the caller.
LEMMA StoreCases ==
    ASSUME TypeOK, StoreInv, NEW w \in Workers, StoreReceipt(w),
           NEW e \in Events, e = worker[w].event
    PROVE  \E o \in S!Contents, c \in S!Calls :
             /\ object' = [object EXCEPT ![e] = o]
             /\ call' = [call EXCEPT ![w] = c]
             /\ o # object[e] => call[w] = "opened" \/ object[e] # "partial"
             /\ \/ /\ UNCHANGED <<worker, faults>>
                   /\ call[w] = "none" /\ object[e] = "absent" /\ store = "files"
                   /\ o = "partial" /\ c = "opened"
                \/ /\ UNCHANGED <<worker, faults>>
                   /\ o = object[e] /\ o # "absent" /\ c = "exists"
                \/ /\ Goto(w, "ready") /\ UNCHANGED faults
                   /\ o = "whole" /\ c = "none"
                \/ /\ Goto(w, "failing") /\ Fault
                   /\ o \in {object[e], "whole"} /\ c = "none"
                \/ /\ Goto(w, "failing") /\ UNCHANGED faults
                   /\ call[w] = "exists" /\ object[e] = "partial"
                   /\ o = object[e] /\ c = "none"
<1>1. /\ object \in [Events -> S!Contents] /\ call \in [Workers -> S!Calls]
      /\ object[e] \in S!Contents /\ call[w] \in S!Calls
  BY DEF StoreInv, S!TypeOK
<1>2. object = [object EXCEPT ![e] = object[e]] /\ call = [call EXCEPT ![w] = call[w]]
  BY <1>1
<1>3. S!Fault = Fault
  BY DEF S!Fault, Fault
<1>4. PICK result \in {"more", "ok", "error"} :
         /\ S!OpenFile(w, e, result) \/ S!WriteFile(w, e, result)
              \/ S!PutObject(w, e, result) \/ S!Compare(w, e, result)
         /\ result = "more" => UNCHANGED worker
         /\ result = "ok" => Goto(w, "ready")
         /\ result = "error" => Goto(w, "failing")
  BY DEF StoreReceipt, S!Put
<1>5. CASE S!OpenFile(w, e, result)
  BY <1>1, <1>2, <1>3, <1>4, <1>5 DEF S!OpenFile, S!Keep, S!Enter, S!Contents, S!Calls
<1>6. CASE S!WriteFile(w, e, result)
  BY <1>1, <1>2, <1>3, <1>4, <1>6 DEF S!WriteFile, S!Keep, S!Enter, S!Contents, S!Calls
<1>7. CASE S!PutObject(w, e, result)
  <2>1. object[e] # "partial"
    BY <1>7 DEF S!PutObject, StoreInv
  <2> QED
    BY <1>1, <1>2, <1>3, <1>4, <1>7, <2>1
       DEF S!PutObject, S!Keep, S!Enter, S!Contents, S!Calls
<1>8. CASE S!Compare(w, e, result)
  <2>1. object[e] # "absent" /\ object[e] # "whole" => object[e] = "partial"
    BY <1>1 DEF S!Contents
  <2>2. object[e] # "absent"
    BY <1>8 DEF S!Compare, StoreInv
  <2> QED
    BY <1>1, <1>2, <1>3, <1>4, <1>8, <2>1, <2>2
       DEF S!Compare, S!Keep, S!Enter, S!Contents, S!Calls
<1>9. QED
  BY <1>4, <1>5, <1>6, <1>7, <1>8

\* A call of the store keeps what the stores rest on.
LEMMA CallKeepsStore ==
    ASSUME TypeOK, StoreInv, NEW w \in Workers, StoreReceipt(w)
    PROVE  StoreInv'
<1>1. PICK e \in Events : e = worker[w].event
  BY AtWork DEF StoreReceipt
<1>2. PICK o \in S!Contents, c \in S!Calls :
         /\ object' = [object EXCEPT ![e] = o]
         /\ call' = [call EXCEPT ![w] = c]
         /\ o # object[e] => call[w] = "opened" \/ object[e] # "partial"
         /\ \/ /\ UNCHANGED <<worker, faults>>
               /\ call[w] = "none" /\ object[e] = "absent" /\ store = "files"
               /\ o = "partial" /\ c = "opened"
            \/ /\ UNCHANGED <<worker, faults>>
               /\ o = object[e] /\ o # "absent" /\ c = "exists"
            \/ /\ Goto(w, "ready") /\ UNCHANGED faults
               /\ o = "whole" /\ c = "none"
            \/ /\ Goto(w, "failing") /\ Fault
               /\ o \in {object[e], "whole"} /\ c = "none"
            \/ /\ Goto(w, "failing") /\ UNCHANGED faults
               /\ call[w] = "exists" /\ object[e] = "partial"
               /\ o = object[e] /\ c = "none"
  BY <1>1, StoreCases
<1>3. /\ receipts' = S!Whole' /\ store' = store /\ worker[w].stage = "prepared"
  BY DEF StoreReceipt, S!Put
<1>4. /\ object \in [Events -> S!Contents] /\ call \in [Workers -> S!Calls]
      /\ store \in {"files", "s3"}
  BY DEF StoreInv, S!TypeOK
<1>5. /\ object'[e] = o /\ \A d \in Events \ {e} : object'[d] = object[d]
      /\ call'[w] = c /\ \A v \in Workers \ {w} : call'[v] = call[v]
  BY <1>2, <1>4
<1>6. S!TypeOK'
  BY <1>2, <1>3, <1>4 DEF S!TypeOK
<1>7. \A v \in Workers \ {w} : worker'[v] = worker[v]
  BY <1>2, <1>3, GotoStage DEF Stages
<1>8. c # "none" => worker' = worker
  BY <1>2
<1>9. o = "partial" => store = "files"
  BY <1>2, <1>4 DEF StoreInv
<1>10. object[e] # "absent" => o # "absent"
  BY <1>2
<1>11. c # "none" => o # "absent"
  BY <1>2
<1>12. c = "opened" => object[e] = "absent" /\ o = "partial"
  BY <1>2
<1>13. ASSUME NEW v \in Workers \ {w}, call[v] = "opened", worker[v].event = e
       PROVE  c # "opened" /\ o = "partial"
  <2>1. object[e] = "partial" /\ call[w] # "opened"
    BY <1>1, <1>13 DEF StoreInv
  <2> QED
    BY <1>2, <2>1
<1>14. \A v \in Workers : call'[v] # "none" =>
          worker'[v].stage = "prepared" /\ object'[worker'[v].event] # "absent"
  <2>1. CASE c # "none"
    BY <1>1, <1>3, <1>5, <1>8, <1>10, <1>11, <2>1, AtWork DEF StoreInv
  <2>2. CASE c = "none"
    BY <1>1, <1>3, <1>5, <1>7, <1>10, <2>2, AtWork DEF StoreInv
  <2> QED
    BY <2>1, <2>2
<1>15. \A v \in Workers : call'[v] = "opened" => object'[worker'[v].event] = "partial"
  <2>1. ASSUME NEW v \in Workers \ {w}, call[v] = "opened"
        PROVE  object'[worker[v].event] = "partial"
    <3>1. worker[v].event \in Events /\ object[worker[v].event] = "partial"
      BY <2>1, AtWork DEF StoreInv
    <3> QED
      BY <1>5, <1>13, <2>1, <3>1
  <2> QED
    BY <1>1, <1>5, <1>7, <1>8, <1>12, <2>1
<1>16. \A u, v \in Workers :
          u # v /\ call'[u] = "opened" /\ call'[v] = "opened"
            => worker'[u].event # worker'[v].event
  <2>1. ASSUME NEW u \in Workers \ {w}, NEW v \in Workers \ {w}, u # v,
               call'[u] = "opened", call'[v] = "opened"
        PROVE  worker'[u].event # worker'[v].event
    BY <1>5, <1>7, <2>1 DEF StoreInv
  <2>2. ASSUME NEW u \in Workers \ {w}, call'[u] = "opened", call'[w] = "opened"
        PROVE  worker'[u].event # worker'[w].event
    BY <1>1, <1>5, <1>7, <1>8, <1>13, <2>2
  <2> QED
    BY <2>1, <2>2
<1>17. store' = "s3" => \A d \in Events : object'[d] # "partial"
  BY <1>3, <1>5, <1>9 DEF StoreInv
<1>18. QED
  BY <1>3, <1>6, <1>14, <1>15, <1>16, <1>17 DEF StoreInv

\* A step with a real store is a step of EventProcessing, none that it sees,
\* or a put that a file cut short refuses.
LEMMA CallKeepsPromise ==
    ASSUME TypeOK, StoreInv, NEW w \in Workers, StoreReceipt(w)
    PROVE  PutReceipt(w) \/ UNCHANGED vars \/ RefusedByPart(w)
<1>1. PICK e \in Events : e = worker[w].event
  BY AtWork DEF StoreReceipt
<1>2. PICK o \in S!Contents, c \in S!Calls :
         /\ object' = [object EXCEPT ![e] = o]
         /\ \/ /\ UNCHANGED <<worker, faults>>
               /\ call[w] = "none" /\ object[e] = "absent" /\ store = "files"
               /\ o = "partial" /\ c = "opened"
            \/ /\ UNCHANGED <<worker, faults>>
               /\ o = object[e] /\ o # "absent" /\ c = "exists"
            \/ /\ Goto(w, "ready") /\ UNCHANGED faults
               /\ o = "whole" /\ c = "none"
            \/ /\ Goto(w, "failing") /\ Fault
               /\ o \in {object[e], "whole"} /\ c = "none"
            \/ /\ Goto(w, "failing") /\ UNCHANGED faults
               /\ call[w] = "exists" /\ object[e] = "partial"
               /\ o = object[e] /\ c = "none"
  BY <1>1, StoreCases
<1>3. /\ receipts' = S!Whole' /\ receipts = S!Whole
      /\ worker[w].stage = "prepared"
      /\ UNCHANGED <<attempt, effects, notices, acked, clock>>
  BY DEF StoreReceipt, StoreInv
<1>4. object \in [Events -> S!Contents] /\ store \in {"files", "s3"}
  BY DEF StoreInv, S!TypeOK
<1>5. receipts' = {d \in Events : object'[d] = "whole"}
  BY <1>3 DEF S!Whole
<1>6. object'[e] = o /\ \A d \in Events \ {e} : object'[d] = object[d]
  BY <1>2, <1>4
<1>7. o = "whole" => receipts' = receipts \union {e}
  BY <1>3, <1>5, <1>6 DEF S!Whole
<1>8. o # "whole" /\ object[e] # "whole" => receipts' = receipts
  BY <1>3, <1>5, <1>6 DEF S!Whole
<1>9. o = object[e] => receipts' = receipts
  BY <1>3, <1>5, <1>6 DEF S!Whole
<1>10. CASE UNCHANGED <<worker, faults>> /\ receipts' = receipts
  BY <1>3, <1>10 DEF vars, effects
<1>11. CASE Goto(w, "ready") /\ UNCHANGED faults /\ o = "whole"
  BY <1>1, <1>3, <1>7, <1>11 DEF PutReceipt
<1>12. CASE Goto(w, "failing") /\ Fault /\ o \in {object[e], "whole"}
  BY <1>1, <1>3, <1>7, <1>9, <1>12 DEF PutReceipt
<1>13. CASE /\ Goto(w, "failing") /\ UNCHANGED faults
            /\ call[w] = "exists" /\ object[e] = "partial" /\ o = object[e]
  <2>1. store = "files"
    BY <1>4, <1>13 DEF StoreInv
  <2> QED
    BY <1>1, <1>3, <1>9, <1>13, <2>1 DEF RefusedByPart
<1>14. QED
  BY <1>2, <1>8, <1>9, <1>10, <1>11, <1>12, <1>13

LEMMA StepsKeepStore ==
    TypeOK /\ StoreInv /\ [StoredNext]_storedVars => StoreInv'
<1> SUFFICES ASSUME TypeOK, StoreInv, [StoredNext]_storedVars PROVE StoreInv'
  OBVIOUS
<1>1. ASSUME NEW w \in Workers, NEW e \in Events, Receive(w, e), UNCHANGED storeVars
      PROVE  StoreInv'
  BY <1>1, OutsideKeepsStore DEF Receive, TypeOK, Idle
<1>2. ASSUME NEW w \in Workers, UNCHANGED storeVars,
             \/ Claim(w) \/ ClaimError(w) \/ Prepare(w) \/ HandleCommit(w)
             \/ HandleAbort(w) \/ RecordFailure(w) \/ Delete(w)
      PROVE  StoreInv'
  <2>1. worker[w].stage # "prepared" /\ UNCHANGED receipts
    BY <1>2 DEF Claim, ClaimError, Prepare, HandleCommit, HandleAbort,
                RecordFailure, Delete
  <2>2. \A v \in Workers \ {w} : worker'[v] = worker[v]
    BY <1>2 DEF Claim, ClaimError, Prepare, HandleCommit, HandleAbort,
                RecordFailure, Delete, Goto, Release, TypeOK
  <2>3. QED
    BY <1>2, <2>1, <2>2, OutsideKeepsStore
<1>3. ASSUME NEW w \in Workers, StoreReceipt(w) PROVE StoreInv'
  BY <1>3, CallKeepsStore
<1>4. ASSUME NEW w \in Workers, Crash(w), S!Forget(w) PROVE StoreInv'
  <2>1. /\ call' = [call EXCEPT ![w] = "none"] /\ UNCHANGED <<receipts, store, object>>
        /\ call \in [Workers -> S!Calls]
    BY <1>4 DEF Crash, S!Forget, S!Enter, StoreInv, S!TypeOK
  <2>2. /\ call'[w] = "none" /\ \A v \in Workers \ {w} : call'[v] = call[v]
        /\ \A v \in Workers \ {w} : worker'[v] = worker[v]
    BY <1>4, <2>1, ReleaseStage DEF Crash
  <2>3. S!TypeOK' /\ receipts' = S!Whole'
    BY <2>1 DEF StoreInv, S!TypeOK, S!Whole, S!Calls
  <2>4. QED
    BY <2>1, <2>2, <2>3 DEF StoreInv
<1>5. CASE UNCHANGED <<worker, receipts, storeVars>>
  BY <1>5 DEF StoreInv, S!TypeOK, S!Whole, storeVars
<1>6. QED
  BY <1>1, <1>2, <1>3, <1>4, <1>5 DEF StoredNext, StoredStep, Tick, storedVars, vars

LEMMA StoredStepsKeepPromise ==
    TypeOK /\ StoreInv /\ [StoredNext]_storedVars
        => [Next \/ \E w \in Workers : RefusedByPart(w)]_vars
BY CallKeepsPromise
   DEF StoredNext, StoredStep, Next, Advance, storedVars, vars

\* What a refused put keeps: the worker goes on to record a failure.
LEMMA RefusalKeepsSafety ==
    ASSUME TypeOK, ClaimNumbersDistinct, SafetyInv,
           NEW w \in Workers, RefusedByPart(w)
    PROVE  TypeOK' /\ ClaimNumbersDistinct' /\ SafetyInv' /\ UNCHANGED Outcome!vars
<1>1. PICK e \in Events : e = worker[w].event
  BY AtWork DEF RefusedByPart
<1>2. TypeOK'
  <2>1. worker' \in [Workers -> Worker]
    BY GotoType DEF RefusedByPart, Stages
  <2>2. QED
    BY <2>1 DEF RefusedByPart, TypeOK, effects
<1>3. ClaimNumbersDistinct'
  BY NoClaimKeepsNumbers, GotoMakesNoClaim DEF RefusedByPart, Stages
<1>4. SafetyInv'
  <2>1. StageInv'
    BY <1>1, GotoKeepsStage DEF RefusedByPart, Stages, Succeeded
  <2>2. QED
    BY <2>1, OtherStepsKeepSafety DEF RefusedByPart, Succeeded
<1>5. UNCHANGED Outcome!vars
  BY DEF RefusedByPart, Outcome!vars, effects
<1>6. QED
  BY <1>2, <1>3, <1>4, <1>5

LEMMA StoredInvHolds ==
    StoredSpec => [](TypeOK /\ ClaimNumbersDistinct /\ SafetyInv /\ StoreInv)
<1>1. StoredInit => TypeOK /\ ClaimNumbersDistinct /\ SafetyInv /\ StoreInv
  <2>1. Init => TypeOK /\ ClaimNumbersDistinct /\ SafetyInv
    BY InitIsSafe
  <2>2. StoredInit => StoreInv
    BY DEF StoredInit, Init, S!Init, StoreInv, S!TypeOK, S!Whole, S!Contents, S!Calls
  <2>3. QED
    BY <2>1, <2>2 DEF StoredInit
<1>2. /\ TypeOK /\ ClaimNumbersDistinct /\ SafetyInv /\ StoreInv
      /\ [StoredNext]_storedVars
      => (TypeOK /\ ClaimNumbersDistinct /\ SafetyInv /\ StoreInv)'
  BY StepsKeepTypes, StepsKeepNumbers, StepsKeepSafety, StepsKeepStore,
     StoredStepsKeepPromise, RefusalKeepsSafety DEF vars
<1>3. QED
  BY <1>1, <1>2, PTL DEF StoredSpec

\* Either store keeps the promise of put_receipt: with its calls in place of
\* that one step the worker does what EventProcessing allows, and in addition
\* records the failure of a put that a file cut short has refused.
THEOREM StoresHonourPromise == StoredSpec => StoresKeepPromise
BY StoredInvHolds, StoredStepsKeepPromise, PTL DEF StoredSpec, StoresKeepPromise

\* Effects, receipts, notices and deletions are safe with either store.
THEOREM StoredSafety == StoredSpec => []SafetyInv
BY StoredInvHolds, PTL

\* The worker with its store implements the promise that EventProcessing
\* implements: a half-written file delays the verdict of its event or makes it
\* terminal, and never revises one.
THEOREM StoredImplementsOutcome == StoredSpec => OutcomeSpec
<1>1. StoredInit => Outcome!Init
  BY DEF StoredInit, Init, Outcome!Init, VerdictOf, NoAttempt
<1>2. /\ TypeOK /\ ClaimNumbersDistinct /\ SafetyInv /\ StoreInv
      /\ [StoredNext]_storedVars
      => [Outcome!Next]_(Outcome!vars)
  BY StoredStepsKeepPromise, StepsKeepPromise, RefusalKeepsSafety
<1>3. QED
  BY <1>1, <1>2, StoredInvHolds, PTL DEF StoredSpec, OutcomeSpec, Outcome!Spec
=============================================================================
