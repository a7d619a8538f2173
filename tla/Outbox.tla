------------------------------- MODULE Outbox -------------------------------
(***************************************************************************)
(* The worker's outbox poller: rows of outbox_events are selected FOR      *)
(* UPDATE SKIP LOCKED, published one by one to the event bus, and marked   *)
(* when the transaction commits.  Several pollers run; a poller may die    *)
(* between a publication and its commit, and a publication may fail, or    *)
(* succeed and report an error.                                            *)
(***************************************************************************)
EXTENDS Integers, FiniteSets

CONSTANTS
    Rows,         \* rows of outbox_events, numbered in (created_at, id) order
    Routable,     \* rows whose event_type is in S4_ROUTABLE_EVENT_TYPES
    WellFormed,   \* rows whose payload EventEnvelope.from_mapping accepts
    Pollers,      \* worker processes
    BatchSize,
    RetryBase,    \* retry_base_seconds
    MaxAttempts,  \* outbox max_attempts
    MaxClock,     \* bound on time
    MaxFaults     \* bound on crashes and publication errors

ASSUME OutboxAssumption ==
    /\ Rows \subseteq Nat
    /\ Routable \subseteq Rows
    /\ WellFormed \subseteq Rows
    /\ BatchSize \in Nat \ {0}
    /\ RetryBase \in Nat \ {0}
    /\ MaxAttempts \in Nat \ {0}
    /\ MaxClock \in Nat
    /\ MaxFaults \in Nat

VARIABLES
    row,     \* [Rows -> Row]: the committed rows
    poller,  \* [Pollers -> Poller]
    sent,    \* [Rows -> Nat]: copies of each event the bus has taken
    clock,
    faults

vars == <<row, poller, sent, clock, faults>>

\* "absent" is a row not committed yet; nextAt = 0 is NULL.
Row == [status   : {"absent", "pending", "failed", "published"},
        attempts : Nat,       \* publish_attempts
        nextAt   : Int,       \* next_attempt_at
        terminal : BOOLEAN]   \* terminal_at IS NOT NULL

NoRow == [status |-> "absent", attempts |-> 0, nextAt |-> 0, terminal |-> FALSE]

\* A poll under way: the clock it read, the rows it has locked, and those of
\* them whose publication it has seen succeed or fail.
Poller == [stage : {"idle", "polling"}, now : Nat,
           batch : SUBSET Rows, ok : SUBSET Rows, failed : SUBSET Rows]

IdlePoller == [stage |-> "idle", now |-> 0, batch |-> {}, ok |-> {}, failed |-> {}]

Init ==
    /\ row = [r \in Rows |-> NoRow]
    /\ poller = [p \in Pollers |-> IdlePoller]
    /\ sent = [r \in Rows |-> 0]
    /\ clock = 1
    /\ faults = 0
-----------------------------------------------------------------------------
Fault == faults < MaxFaults /\ faults' = faults + 1

\* A business transaction commits with its outbox row (enqueue_worker_event
\* and the API's enqueue_event); the order of commits is not that of rows.
Enqueue(r) ==
    /\ row[r].status = "absent"
    /\ row' = [row EXCEPT ![r].status = "pending"]
    /\ UNCHANGED <<poller, sent, clock, faults>>

\* What poll_once selects at the time now.
Due(r, now) ==
    /\ r \in Routable
    /\ \/ row[r].status = "pending"
       \/ row[r].status = "failed" /\ ~row[r].terminal /\ row[r].nextAt <= now

\* Mutant: rows are selected without FOR UPDATE.
LockedNone == {}

Locked == UNION {poller[p].batch : p \in Pollers}

\* Mutant: the limit cuts before the rows are filtered, so what has been given
\* up and what is of a foreign type fills the batches.
FirstOfTable(T, S) ==
    LET waiting == {r \in Rows : row[r].status \in {"pending", "failed"}} IN
    T = {r \in S : Cardinality({s \in waiting : s < r}) < BatchSize}

\* T is the first BatchSize rows of S (ORDER BY ... LIMIT).
FirstOf(T, S) ==
    /\ T \subseteq S
    /\ Cardinality(T) = BatchSize \/ (T = S /\ Cardinality(S) < BatchSize)
    /\ \A t \in T, s \in S \ T : t < s

\* The poll begins: it reads the clock.
Begin(p) ==
    /\ poller[p].stage = "idle"
    /\ poller' = [poller EXCEPT ![p].stage = "polling", ![p].now = clock]
    /\ UNCHANGED <<row, sent, clock, faults>>

\* SELECT ... FOR UPDATE SKIP LOCKED.  A poll that finds nothing ends.
Select(p) ==
    LET now == poller[p].now
        due == {r \in Rows : Due(r, now)} \ Locked
    IN
    /\ poller[p].stage = "polling"
    /\ poller[p].batch = {}
    /\ \E T \in SUBSET due :
          /\ FirstOf(T, due)
          /\ poller' = IF T = {} THEN [poller EXCEPT ![p] = IdlePoller]
                       ELSE [poller EXCEPT ![p].batch = T]
    /\ UNCHANGED <<row, sent, clock, faults>>

Todo(p) == poller[p].batch \ (poller[p].ok \union poller[p].failed)

\* The next event of the batch goes out.
PublishOk(p, r) ==
    /\ r \in Todo(p)
    /\ \A s \in Todo(p) : r <= s
    /\ r \in WellFormed
    /\ sent' = [sent EXCEPT ![r] = @ + 1]
    /\ poller' = [poller EXCEPT ![p].ok = @ \union {r}]
    /\ UNCHANGED <<row, clock, faults>>

\* Mutant: the error is swallowed.
PublishErrorSwallowed(p, r) ==
    /\ r \in Todo(p)
    /\ r \in WellFormed
    /\ Fault
    /\ poller' = [poller EXCEPT ![p].ok = @ \union {r}]
    /\ UNCHANGED <<row, sent, clock>>

\* Its publication raises: the payload is refused, or the bus fails before
\* or after taking the event.
PublishError(p, r) ==
    /\ r \in Todo(p)
    /\ \A s \in Todo(p) : r <= s
    /\ \/ r \notin WellFormed /\ UNCHANGED <<sent, faults>>
       \/ /\ r \in WellFormed
          /\ sent' \in {sent, [sent EXCEPT ![r] = @ + 1]}
          /\ Fault
    /\ poller' = [poller EXCEPT ![p].failed = @ \union {r}]
    /\ UNCHANGED <<row, clock>>

\* Mutant: the delay does not grow.
RetryDelayFlat(n) == RetryBase

\* _retry_delay_seconds
RetryDelay(n) == RetryBase * 2 ^ (n - 1)

\* The row after a publication, and after an error, seen by a poll at now.
Marked(a) == [status |-> "published", attempts |-> a.attempts + 1,
              nextAt |-> 0, terminal |-> a.terminal]

Retried(a, now) ==
    LET n == a.attempts + 1 IN
    [status   |-> "failed",
     attempts |-> n,
     nextAt   |-> IF n >= MaxAttempts THEN 0 ELSE now + RetryDelay(n),
     terminal |-> a.terminal \/ n >= MaxAttempts]

\* The transaction of the poll commits and releases its locks.
Commit(p) ==
    /\ poller[p].batch # {}
    /\ Todo(p) = {}
    /\ row' = [r \in Rows |->
                  IF r \in poller[p].ok THEN Marked(row[r])
                  ELSE IF r \in poller[p].failed
                       THEN Retried(row[r], poller[p].now)
                       ELSE row[r]]
    /\ poller' = [poller EXCEPT ![p] = IdlePoller]
    /\ UNCHANGED <<sent, clock, faults>>

\* The process dies, or the commit fails: the transaction is rolled back,
\* what the bus has taken stays taken.
Crash(p) ==
    /\ poller[p].stage = "polling"
    /\ poller' = [poller EXCEPT ![p] = IdlePoller]
    /\ Fault
    /\ UNCHANGED <<row, sent, clock>>

\* Time passes while some retry is still to come.
Tick ==
    /\ clock < MaxClock
    /\ \E r \in Rows : row[r].nextAt > clock
    /\ clock' = clock + 1
    /\ UNCHANGED <<row, poller, sent, faults>>

Step(p) ==
    \/ Select(p)
    \/ \E r \in Rows : PublishOk(p, r) \/ PublishError(p, r)
    \/ Commit(p)

Next ==
    \/ \E r \in Rows : Enqueue(r)
    \/ \E p \in Pollers : Begin(p) \/ Step(p) \/ Crash(p)
    \/ Tick

Spec == Init /\ [][Next]_vars

\* Both process loops poll again and again and a poll runs to its commit;
\* time passes.  Nobody is obliged to enqueue anything.
Fairness ==
    /\ WF_vars(Tick)
    /\ \A p \in Pollers : WF_vars(Begin(p) \/ Step(p))

FairSpec == Spec /\ Fairness
-----------------------------------------------------------------------------
TypeOK ==
    /\ row \in [Rows -> Row]
    /\ poller \in [Pollers -> Poller]
    /\ sent \in [Rows -> Nat]
    /\ clock \in Nat
    /\ faults \in Nat

Final(a) == a.status = "published" \/ a.terminal

\* No event is lost between the table and the bus: a row marked published
\* was taken by the bus (publish-then-mark, docs/SPEC.md:316).
PublishedWasSent == \A r \in Rows : row[r].status = "published" => sent[r] > 0

\* Two polls never work on the same row (FOR UPDATE SKIP LOCKED), and a poll
\* works on rows that still wait.
OnePollPerRow ==
    /\ \A p, q \in Pollers : p # q => poller[p].batch \cap poller[q].batch = {}
    /\ \A p \in Pollers : \A r \in poller[p].batch :
          row[r].status \in {"pending", "failed"} /\ ~row[r].terminal

\* The copies the bus holds of an event beyond the first are accounted for:
\* each is due to a crash or to an error after the event was taken.
DuplicatesNeedFaults == \A r \in Rows : sent[r] <= 1 + faults

\* A row is tried at most MaxAttempts times; it is terminal exactly when the
\* last of them failed, and is then neither due again nor published.
AttemptsBounded ==
    \A r \in Rows :
        /\ row[r].attempts <= MaxAttempts
        /\ row[r].terminal <=>
              row[r].status = "failed" /\ row[r].attempts = MaxAttempts
        /\ row[r].terminal => row[r].nextAt = 0

\* Published and terminal rows never change again.
FinalRowsStay ==
    [][\A r \in Rows : Final(row[r]) => row'[r] = row[r]]_vars

\* What a poll knows: it has seen rows of its batch succeed, which the bus
\* then holds, or fail; and it read the clock before now.
PollsOK ==
    \A p \in Pollers :
        /\ poller[p].ok \union poller[p].failed \subseteq poller[p].batch
        /\ \A r \in poller[p].ok : sent[r] > 0 /\ r \notin poller[p].failed
        /\ poller[p].now <= clock

\* A copy the bus has taken is that of a published row, of a publication
\* whose poll has not committed yet, or the trace of a fault.
Counted(r) ==
    row[r].status = "published" \/ \E p \in Pollers : r \in poller[p].ok

CopiesOK ==
    \A r \in Rows : sent[r] <= (IF Counted(r) THEN faults + 1 ELSE faults)

\* A row nobody has tried yet has all its attempts left.
UntriedOK ==
    \A r \in Rows : row[r].status \in {"absent", "pending"} =>
                        row[r].attempts = 0 /\ row[r].nextAt = 0

\* The inductive invariant of the proofs.
OutboxInv ==
    /\ OnePollPerRow
    /\ PublishedWasSent
    /\ PollsOK
    /\ CopiesOK
    /\ AttemptsBounded
    /\ UntriedOK

\* With fewer faults than attempts every well-formed row of a routable type
\* is published, errors of the bus delay it only; a malformed one becomes
\* terminal and holds up nobody.
EveryRowSettles ==
    \A r \in Routable :
        row[r].status = "pending" ~>
            (IF r \in WellFormed THEN row[r].status = "published"
             ELSE row[r].terminal)
=============================================================================
