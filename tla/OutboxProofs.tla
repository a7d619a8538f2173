----------------------------- MODULE OutboxProofs -----------------------------
(***************************************************************************)
(* Proofs about Outbox for every set of rows and pollers and every setting *)
(* of the batch size, the backoff and the number of attempts.              *)
(***************************************************************************)
EXTENDS OutboxHistory, TLAPS

\* The rows a commit writes.
LEMMA RetriedType ==
    ASSUME NEW a \in Row, NEW now \in Nat
    PROVE  Retried(a, now) \in Row
<1>1. RetryDelay(a.attempts + 1) \in Int
  BY OutboxAssumption, SMT DEF RetryDelay, Row
<1>2. (a.terminal \/ a.attempts + 1 >= MaxAttempts) \in BOOLEAN
  BY DEF Row
<1>3. a.attempts + 1 \in Nat
  BY DEF Row
<1>4. (IF a.attempts + 1 >= MaxAttempts THEN 0
       ELSE now + RetryDelay(a.attempts + 1)) \in Int
  BY <1>1
<1>5. QED
  BY <1>2, <1>3, <1>4 DEF Retried, Row

LEMMA MarkedType ==
    ASSUME NEW a \in Row
    PROVE  Marked(a) \in Row
BY DEF Marked, Row

LEMMA StepsKeepTypes == TypeOK /\ [Next]_vars => TypeOK'
<1> SUFFICES ASSUME TypeOK, [Next]_vars PROVE TypeOK'
  OBVIOUS
<1>0. IdlePoller \in Poller
  BY DEF IdlePoller, Poller
<1>1. ASSUME NEW r \in Rows, Enqueue(r) PROVE TypeOK'
  <2>1. [row[r] EXCEPT !.status = "pending"] \in Row
    BY DEF TypeOK, Row
  <2>2. QED
    BY <1>1, <2>1 DEF Enqueue, TypeOK
<1>2. ASSUME NEW p \in Pollers, Begin(p) PROVE TypeOK'
  <2>1. [poller[p] EXCEPT !.stage = "polling", !.now = clock] \in Poller
    BY DEF TypeOK, Poller
  <2>2. QED
    BY <1>2, <2>1 DEF Begin, TypeOK
<1>3. ASSUME NEW p \in Pollers, Select(p) PROVE TypeOK'
  <2>1. PICK T \in SUBSET Rows :
           poller' = IF T = {} THEN [poller EXCEPT ![p] = IdlePoller]
                     ELSE [poller EXCEPT ![p].batch = T]
    BY <1>3 DEF Select
  <2>2. [poller[p] EXCEPT !.batch = T] \in Poller
    BY DEF TypeOK, Poller
  <2>3. QED
    BY <1>0, <1>3, <2>1, <2>2 DEF Select, TypeOK
<1>4. ASSUME NEW p \in Pollers, NEW r \in Rows, PublishOk(p, r) PROVE TypeOK'
  <2>1. [poller[p] EXCEPT !.ok = @ \union {r}] \in Poller
    BY DEF TypeOK, Poller
  <2>2. QED
    BY <1>4, <2>1 DEF PublishOk, TypeOK
<1>5. ASSUME NEW p \in Pollers, NEW r \in Rows, PublishError(p, r) PROVE TypeOK'
  <2>1. [poller[p] EXCEPT !.failed = @ \union {r}] \in Poller
    BY DEF TypeOK, Poller
  <2>2. QED
    BY <1>5, <2>1 DEF PublishError, Fault, TypeOK
<1>6. ASSUME NEW p \in Pollers, Commit(p) PROVE TypeOK'
  <2>1. poller[p].now \in Nat
    BY DEF TypeOK, Poller
  <2>2. row' \in [Rows -> Row]
    BY <1>6, <2>1, RetriedType, MarkedType DEF Commit, TypeOK
  <2>3. QED
    BY <1>0, <1>6, <2>2 DEF Commit, TypeOK
<1>7. ASSUME NEW p \in Pollers, Crash(p) PROVE TypeOK'
  BY <1>0, <1>7 DEF Crash, Fault, TypeOK
<1>8. CASE Tick
  BY <1>8 DEF Tick, TypeOK
<1>9. CASE UNCHANGED vars
  BY <1>9 DEF vars, TypeOK
<1>10. QED
  BY <1>1, <1>2, <1>3, <1>4, <1>5, <1>6, <1>7, <1>8, <1>9 DEF Next, Step

\* Every variable keeps its type.
THEOREM TypeCorrect == Spec => []TypeOK
<1>1. Init => TypeOK
  BY DEF Init, TypeOK, NoRow, Row, IdlePoller, Poller
<1>2. QED
  BY <1>1, StepsKeepTypes, PTL DEF Spec
-----------------------------------------------------------------------------
(* Safety. *)

\* A step that leaves the rows alone keeps what is said of rows only.
LEMMA SameRows ==
    ASSUME OutboxInv, UNCHANGED row, \A r \in Rows : sent[r] <= sent'[r],
           TypeOK, TypeOK'
    PROVE  PublishedWasSent' /\ AttemptsBounded' /\ UntriedOK'
<1>1. \A r \in Rows : sent[r] \in Nat /\ sent'[r] \in Nat
  BY DEF TypeOK
<1>2. QED
  BY <1>1 DEF OutboxInv, PublishedWasSent, AttemptsBounded, UntriedOK

\* Rows are enqueued, time passes, faults happen: nothing outside of the polls
\* disturbs the outbox.
LEMMA OutsideKeepsOutbox ==
    ASSUME TypeOK, TypeOK', OutboxInv, UNCHANGED <<poller, sent>>,
           clock <= clock', faults <= faults',
           \A r \in Rows :
              \/ row'[r] = row[r]
              \/ row[r].status = "absent" /\ row'[r] = [row[r] EXCEPT !.status = "pending"]
    PROVE  OutboxInv'
<1>1. \A r \in Rows :
         /\ row'[r].attempts = row[r].attempts
         /\ row'[r].nextAt = row[r].nextAt
         /\ row'[r].terminal = row[r].terminal
         /\ \/ row'[r].status = row[r].status
            \/ row[r].status = "absent" /\ row'[r].status = "pending"
  BY DEF TypeOK, Row
<1>2. \A r \in Rows : row[r].status = "absent" =>
         row[r].attempts = 0 /\ row[r].nextAt = 0 /\ ~row[r].terminal
  BY DEF OutboxInv, UntriedOK, AttemptsBounded
<1>3. OnePollPerRow'
  BY <1>1 DEF OutboxInv, OnePollPerRow, TypeOK, Poller
<1>4. PublishedWasSent'
  BY <1>1 DEF OutboxInv, PublishedWasSent
<1>5. PollsOK'
  <2>1. \A p \in Pollers : poller[p].now \in Nat
    BY DEF TypeOK, Poller
  <2>2. QED
    BY <2>1 DEF OutboxInv, PollsOK, TypeOK
<1>6. CopiesOK'
  <2>1. \A s \in Rows : Counted(s)' <=> Counted(s)
    BY <1>1 DEF Counted
  <2>2. QED
    BY <2>1 DEF OutboxInv, CopiesOK, TypeOK
<1>7. AttemptsBounded'
  BY <1>1, <1>2, OutboxAssumption DEF OutboxInv, AttemptsBounded
<1>8. UntriedOK'
  BY <1>1, <1>2 DEF OutboxInv, UntriedOK
<1>9. QED
  BY <1>3, <1>4, <1>5, <1>6, <1>7, <1>8 DEF OutboxInv

\* A poll begins.
LEMMA Begun ==
    ASSUME TypeOK, TypeOK', OutboxInv, NEW p \in Pollers, Begin(p)
    PROVE  OutboxInv'
<1>1. /\ poller'[p].batch = poller[p].batch
      /\ poller'[p].ok = poller[p].ok
      /\ poller'[p].failed = poller[p].failed
      /\ poller'[p].now = clock
      /\ \A q \in Pollers \ {p} : poller'[q] = poller[q]
  BY DEF Begin, TypeOK, Poller
<1>2. \A q \in Pollers : /\ poller'[q].batch = poller[q].batch
                         /\ poller'[q].ok = poller[q].ok
                         /\ poller'[q].failed = poller[q].failed
  BY <1>1
<1>3. PublishedWasSent' /\ AttemptsBounded' /\ UntriedOK'
  BY SameRows DEF Begin, TypeOK
<1>4. OnePollPerRow'
  BY <1>2 DEF Begin, OutboxInv, OnePollPerRow
<1>5. PollsOK'
  BY <1>1, <1>2 DEF Begin, OutboxInv, PollsOK, TypeOK
<1>6. CopiesOK'
  BY <1>2 DEF Begin, OutboxInv, CopiesOK, Counted
<1>7. QED
  BY <1>3, <1>4, <1>5, <1>6 DEF OutboxInv

\* Selected rows wait and are locked by nobody else.
LEMMA Selected ==
    ASSUME TypeOK, TypeOK', OutboxInv, NEW p \in Pollers, Select(p)
    PROVE  OutboxInv'
<1>1. PICK T \in SUBSET Rows :
         /\ T \subseteq {r \in Rows : Due(r, poller[p].now)} \ Locked
         /\ poller' = IF T = {} THEN [poller EXCEPT ![p] = IdlePoller]
                      ELSE [poller EXCEPT ![p].batch = T]
  BY DEF Select, FirstOf
<1>2. /\ poller[p].batch = {}
      /\ poller[p].ok = {} /\ poller[p].failed = {}
  BY DEF Select, OutboxInv, PollsOK
<1>3. /\ poller'[p].batch = T
      /\ poller'[p].ok = {} /\ poller'[p].failed = {}
      /\ poller'[p].now \in {0, poller[p].now}
      /\ \A q \in Pollers \ {p} : poller'[q] = poller[q]
  BY <1>1, <1>2 DEF TypeOK, Poller, IdlePoller
<1>4. PublishedWasSent' /\ AttemptsBounded' /\ UntriedOK'
  BY SameRows DEF Select, TypeOK
<1>5. OnePollPerRow'
  <2>1. \A r \in T : row[r].status \in {"pending", "failed"} /\ ~row[r].terminal
    BY <1>1 DEF Due, OutboxInv, AttemptsBounded
  <2>2. \A q \in Pollers : T \cap poller[q].batch = {}
    BY <1>1 DEF Locked
  <2>3. QED
    BY <1>3, <2>1, <2>2 DEF Select, OutboxInv, OnePollPerRow
<1>6. PollsOK'
  BY <1>3 DEF Select, OutboxInv, PollsOK, TypeOK
<1>7. CopiesOK'
  <2>1. \A s \in Rows : Counted(s)' <=> Counted(s)
    BY <1>2, <1>3 DEF Select, Counted
  <2>2. QED
    BY <2>1 DEF Select, OutboxInv, CopiesOK
<1>8. QED
  BY <1>4, <1>5, <1>6, <1>7 DEF OutboxInv

\* A publication adds one copy, and counts it in its poll.
LEMMA Published ==
    ASSUME TypeOK, TypeOK', OutboxInv, NEW p \in Pollers, NEW r \in Rows,
           PublishOk(p, r)
    PROVE  OutboxInv'
<1>1. /\ r \in poller[p].batch /\ r \notin poller[p].ok
      /\ r \notin poller[p].failed
  BY DEF PublishOk, Todo
<1>2. /\ poller'[p].batch = poller[p].batch
      /\ poller'[p].ok = poller[p].ok \union {r}
      /\ poller'[p].failed = poller[p].failed
      /\ poller'[p].now = poller[p].now
      /\ \A q \in Pollers \ {p} : poller'[q] = poller[q]
  BY DEF PublishOk, TypeOK, Poller
<1>3. /\ sent'[r] = sent[r] + 1 /\ sent[r] \in Nat
      /\ \A s \in Rows \ {r} : sent'[s] = sent[s]
  BY DEF PublishOk, TypeOK
<1>4. PublishedWasSent' /\ AttemptsBounded' /\ UntriedOK'
  <2>1. \A s \in Rows : sent[s] <= sent'[s]
    BY <1>3 DEF TypeOK
  <2>2. QED
    BY <2>1, SameRows DEF PublishOk
<1>5. OnePollPerRow'
  BY <1>2 DEF PublishOk, OutboxInv, OnePollPerRow
<1>6. PollsOK'
  <2>1. \A s \in Rows : sent[s] > 0 => sent'[s] > 0
    BY <1>3
  <2>2. \A q \in Pollers : poller[q].ok \subseteq Rows
    BY DEF TypeOK, Poller
  <2>3. QED
    BY <1>1, <1>2, <1>3, <2>1, <2>2 DEF PublishOk, OutboxInv, PollsOK
<1>7. CopiesOK'
  <2>1. ~Counted(r)
    <3>1. row[r].status # "published"
      BY <1>1 DEF OutboxInv, OnePollPerRow
    <3>2. \A q \in Pollers : r \notin poller[q].ok
      BY <1>1 DEF OutboxInv, OnePollPerRow, PollsOK
    <3>3. QED
      BY <3>1, <3>2 DEF Counted
  <2>2. sent[r] <= faults
    BY <2>1 DEF OutboxInv, CopiesOK
  <2>3. Counted(r)'
    BY <1>2 DEF Counted
  <2>4. \A s \in Rows \ {r} : Counted(s)' <=> Counted(s)
    BY <1>2 DEF PublishOk, Counted
  <2>5. UNCHANGED faults
    BY DEF PublishOk
  <2>6. sent'[r] <= faults' + 1
    BY <1>3, <2>2, <2>5 DEF TypeOK
  <2>7. QED
    BY <1>3, <2>3, <2>4, <2>5, <2>6 DEF OutboxInv, CopiesOK
<1>8. QED
  BY <1>4, <1>5, <1>6, <1>7 DEF OutboxInv

\* A publication that raises may add a copy, which its fault accounts for.
LEMMA Errored ==
    ASSUME TypeOK, TypeOK', OutboxInv, NEW p \in Pollers, NEW r \in Rows,
           PublishError(p, r)
    PROVE  OutboxInv'
<1>1. /\ r \in poller[p].batch /\ r \notin poller[p].ok
      /\ r \notin poller[p].failed
  BY DEF PublishError, Todo
<1>2. /\ poller'[p].batch = poller[p].batch
      /\ poller'[p].ok = poller[p].ok
      /\ poller'[p].failed = poller[p].failed \union {r}
      /\ poller'[p].now = poller[p].now
      /\ \A q \in Pollers \ {p} : poller'[q] = poller[q]
  BY DEF PublishError, TypeOK, Poller
<1>3. /\ \A s \in Rows : sent[s] <= sent'[s] /\ sent'[s] - sent[s] <= faults' - faults
      /\ UNCHANGED <<row, clock>>
  BY DEF PublishError, Fault, TypeOK
<1>4. PublishedWasSent' /\ AttemptsBounded' /\ UntriedOK'
  BY <1>3, SameRows
<1>5. OnePollPerRow'
  BY <1>2, <1>3 DEF OutboxInv, OnePollPerRow
<1>6. PollsOK'
  <2>1. \A s \in Rows : sent[s] > 0 => sent'[s] > 0
    BY <1>3 DEF TypeOK
  <2>2. \A q \in Pollers : poller[q].ok \subseteq Rows
    BY DEF TypeOK, Poller
  <2>3. QED
    BY <1>1, <1>2, <1>3, <2>1, <2>2 DEF OutboxInv, PollsOK
<1>7. CopiesOK'
  <2>1. \A s \in Rows : Counted(s)' <=> Counted(s)
    BY <1>2, <1>3 DEF Counted
  <2>2. QED
    BY <1>3, <2>1 DEF OutboxInv, CopiesOK, TypeOK
<1>8. QED
  BY <1>4, <1>5, <1>6, <1>7 DEF OutboxInv

\* A crash forgets what a poll had published; the fault accounts for it.
LEMMA Crashed ==
    ASSUME TypeOK, TypeOK', OutboxInv, NEW p \in Pollers, Fault,
           poller' = [poller EXCEPT ![p] = IdlePoller],
           UNCHANGED <<row, sent, clock>>
    PROVE  OutboxInv'
<1>1. /\ poller'[p].batch = {} /\ poller'[p].ok = {}
      /\ poller'[p].failed = {} /\ poller'[p].now = 0
      /\ \A q \in Pollers \ {p} : poller'[q] = poller[q]
  BY DEF TypeOK, IdlePoller
<1>2. PublishedWasSent' /\ AttemptsBounded' /\ UntriedOK'
  BY SameRows DEF TypeOK
<1>3. OnePollPerRow'
  BY <1>1 DEF OutboxInv, OnePollPerRow
<1>4. PollsOK'
  BY <1>1 DEF OutboxInv, PollsOK, TypeOK
<1>5. CopiesOK'
  BY DEF Fault, OutboxInv, CopiesOK, TypeOK
<1>6. QED
  BY <1>2, <1>3, <1>4, <1>5 DEF OutboxInv

\* A commit marks the rows of its batch, which no other poll holds.
LEMMA Committed ==
    ASSUME TypeOK, TypeOK', OutboxInv, NEW p \in Pollers, Commit(p)
    PROVE  OutboxInv'
<1>1. /\ poller'[p].batch = {} /\ poller'[p].ok = {}
      /\ poller'[p].failed = {} /\ poller'[p].now = 0
      /\ \A q \in Pollers \ {p} : poller'[q] = poller[q]
      /\ UNCHANGED <<sent, clock, faults>>
  BY DEF Commit, TypeOK, IdlePoller
<1>2. \A r \in poller[p].ok : r \in Rows /\ row'[r] = Marked(row[r])
  BY DEF Commit, TypeOK, Poller
<1>3. \A r \in poller[p].failed :
         r \in Rows /\ row'[r] = Retried(row[r], poller[p].now)
  BY DEF Commit, TypeOK, Poller, OutboxInv, PollsOK
<1>4. \A r \in Rows \ poller[p].batch : row'[r] = row[r]
  BY DEF Commit, OutboxInv, PollsOK
<1>5. /\ poller[p].batch = poller[p].ok \union poller[p].failed
      /\ poller[p].batch \subseteq Rows
  BY DEF Commit, Todo, OutboxInv, PollsOK, TypeOK, Poller
<1>6. \A r \in poller[p].batch :
         /\ row[r].attempts < MaxAttempts
         /\ row[r].attempts \in Nat
         /\ ~row[r].terminal
         /\ row[r].status \in {"pending", "failed"}
  <2>1. SUFFICES ASSUME NEW r \in poller[p].batch
                 PROVE  row[r].attempts < MaxAttempts
                        /\ row[r].attempts \in Nat
                        /\ ~row[r].terminal
                        /\ row[r].status \in {"pending", "failed"}
    OBVIOUS
  <2>2. ~row[r].terminal /\ row[r].status \in {"pending", "failed"}
    BY DEF OutboxInv, OnePollPerRow
  <2>3. row[r].attempts \in Nat /\ row[r].attempts <= MaxAttempts
    BY <1>5 DEF TypeOK, Row, OutboxInv, AttemptsBounded
  <2>4. row[r].attempts # MaxAttempts
    BY <1>5, <2>2, OutboxAssumption DEF OutboxInv, AttemptsBounded, UntriedOK
  <2>5. QED
    BY <2>2, <2>3, <2>4, OutboxAssumption
<1>a. \A r \in poller[p].batch : row[r] \in Row /\ row[r].attempts \in Nat
  BY <1>5 DEF TypeOK, Row
<1>7. \A r \in poller[p].ok : /\ row'[r].status = "published"
                              /\ row'[r].attempts = row[r].attempts + 1
                              /\ row'[r].terminal = row[r].terminal
  <2>1. \A r \in Rows : /\ Marked(row[r]).status = "published"
                        /\ Marked(row[r]).attempts = row[r].attempts + 1
                        /\ Marked(row[r]).terminal = row[r].terminal
    BY DEF Marked
  <2>2. QED
    BY <1>2, <2>1
<1>8. \A r \in poller[p].failed :
         /\ row'[r].status = "failed"
         /\ row'[r].attempts = row[r].attempts + 1
         /\ row'[r].terminal = (row[r].terminal \/ row[r].attempts + 1 >= MaxAttempts)
         /\ row[r].attempts + 1 >= MaxAttempts => row'[r].nextAt = 0
  <2>1. \A r \in Rows :
           LET m == Retried(row[r], poller[p].now) IN
           /\ m.status = "failed"
           /\ m.attempts = row[r].attempts + 1
           /\ m.terminal = (row[r].terminal \/ row[r].attempts + 1 >= MaxAttempts)
           /\ row[r].attempts + 1 >= MaxAttempts => m.nextAt = 0
    BY DEF Retried
  <2>2. QED
    BY <1>3, <2>1
<1>9. OnePollPerRow'
  <2>1. \A q \in Pollers \ {p} : \A r \in poller[q].batch :
           r \in Rows /\ row'[r] = row[r]
    BY <1>4 DEF OutboxInv, OnePollPerRow, TypeOK, Poller
  <2>2. QED
    BY <1>1, <2>1 DEF OutboxInv, OnePollPerRow
<1>10. PublishedWasSent'
  BY <1>1, <1>4, <1>5, <1>7, <1>8 DEF OutboxInv, PublishedWasSent, PollsOK
<1>11. PollsOK'
  BY <1>1 DEF OutboxInv, PollsOK, TypeOK
<1>12. CopiesOK'
  <2>1. ASSUME NEW r \in Rows, Counted(r) PROVE Counted(r)'
    <3>1. CASE row[r].status = "published"
      <4>1. r \notin poller[p].batch
        BY <1>6, <3>1
      <4>2. QED
        BY <1>4, <3>1, <4>1 DEF Counted
    <3>2. CASE r \in poller[p].ok
      BY <1>7, <3>2 DEF Counted
    <3>3. CASE \E q \in Pollers \ {p} : r \in poller[q].ok
      BY <1>1, <3>3 DEF Counted
    <3>4. QED
      BY <2>1, <3>1, <3>2, <3>3 DEF Counted
  <2>2. QED
    BY <1>1, <2>1 DEF OutboxInv, CopiesOK, TypeOK
<1>13. AttemptsBounded'
  <2> SUFFICES ASSUME NEW r \in Rows
               PROVE  /\ row'[r].attempts <= MaxAttempts
                      /\ row'[r].terminal <=>
                            /\ row'[r].status = "failed"
                            /\ row'[r].attempts = MaxAttempts
                      /\ row'[r].terminal => row'[r].nextAt = 0
    BY DEF AttemptsBounded
  <2>1. CASE r \in poller[p].ok
    BY <1>5, <1>6, <1>7, <2>1, OutboxAssumption
  <2>2. CASE r \in poller[p].failed
    <3>1. r \in poller[p].batch
      BY <1>5, <2>2
    <3>2. PICK n \in Nat : n = row[r].attempts
      BY <1>a, <3>1
    <3>3. n < MaxAttempts /\ row[r].terminal = FALSE
      BY <1>6, <3>1, <3>2
    <3>4. /\ row'[r].status = "failed"
          /\ row'[r].attempts = n + 1
          /\ row'[r].terminal = (n + 1 >= MaxAttempts)
          /\ n + 1 >= MaxAttempts => row'[r].nextAt = 0
      BY <1>8, <2>2, <3>2, <3>3
    <3>5. n + 1 <= MaxAttempts /\ (n + 1 >= MaxAttempts <=> n + 1 = MaxAttempts)
      BY <3>3, OutboxAssumption
    <3>6. QED
      BY <3>4, <3>5
  <2>3. CASE r \notin poller[p].batch
    BY <1>4, <2>3 DEF OutboxInv, AttemptsBounded
  <2>4. QED
    BY <1>5, <2>1, <2>2, <2>3
<1>14. UntriedOK'
  BY <1>4, <1>5, <1>7, <1>8 DEF OutboxInv, UntriedOK
<1>15. QED
  BY <1>9, <1>10, <1>11, <1>12, <1>13, <1>14 DEF OutboxInv

LEMMA InitIsSafe == Init => OutboxInv
<1> SUFFICES ASSUME Init PROVE OutboxInv
  OBVIOUS
<1>1. OnePollPerRow /\ PollsOK
  BY DEF Init, IdlePoller, OnePollPerRow, PollsOK
<1>2. PublishedWasSent /\ CopiesOK /\ UntriedOK
  BY DEF Init, NoRow, PublishedWasSent, CopiesOK, UntriedOK
<1>3. AttemptsBounded
  BY OutboxAssumption DEF Init, NoRow, AttemptsBounded
<1>4. QED
  BY <1>1, <1>2, <1>3 DEF OutboxInv

LEMMA StepsKeepOutbox == TypeOK /\ OutboxInv /\ [Next]_vars => OutboxInv'
<1> SUFFICES ASSUME TypeOK, OutboxInv, [Next]_vars PROVE OutboxInv'
  OBVIOUS
<1>1. TypeOK'
  BY StepsKeepTypes
<1>2. CASE UNCHANGED vars \/ Tick \/ \E r \in Rows : Enqueue(r)
  <2>1. UNCHANGED <<poller, sent>> /\ clock <= clock' /\ faults <= faults'
    BY <1>2 DEF vars, Tick, Enqueue, TypeOK
  <2>2. \A r \in Rows :
           \/ row'[r] = row[r]
           \/ row[r].status = "absent" /\ row'[r] = [row[r] EXCEPT !.status = "pending"]
    BY <1>2 DEF vars, Tick, Enqueue, TypeOK
  <2>3. QED
    BY <1>1, <2>1, <2>2, OutsideKeepsOutbox
<1>3. ASSUME NEW p \in Pollers, Crash(p) PROVE OutboxInv'
  BY <1>1, <1>3, Crashed DEF Crash
<1>4. QED
  BY <1>1, <1>2, <1>3, Begun, Selected, Published, Errored, Committed DEF Next, Step

\* The invariant of the outbox.
THEOREM OutboxSafety == Spec => []OutboxInv
BY InitIsSafe, StepsKeepOutbox, TypeCorrect, PTL DEF Spec

\* No event is lost between the table and the bus.
COROLLARY NothingLost == Spec => []PublishedWasSent
BY OutboxSafety, PTL DEF OutboxInv

\* No row is in the hands of two polls (SKIP LOCKED, _poll_once).
COROLLARY PollsAreDisjoint == Spec => []OnePollPerRow
BY OutboxSafety, PTL DEF OutboxInv

\* Every copy beyond the first is due to a fault.
COROLLARY DuplicatesAreFaults == Spec => []DuplicatesNeedFaults
<1>1. TypeOK /\ OutboxInv => DuplicatesNeedFaults
  BY DEF TypeOK, OutboxInv, CopiesOK, DuplicatesNeedFaults
<1>2. QED
  BY <1>1, TypeCorrect, OutboxSafety, PTL

\* Published and terminal rows never change again.
THEOREM FinalRowsAreFinal == Spec => FinalRowsStay
<1>1. TypeOK /\ OutboxInv /\ [Next]_vars
        => \A r \in Rows : Final(row[r]) => row'[r] = row[r]
  <2> SUFFICES ASSUME TypeOK, OutboxInv, [Next]_vars, NEW r \in Rows, Final(row[r])
               PROVE  row'[r] = row[r]
    OBVIOUS
  <2>1. \A p \in Pollers : r \notin poller[p].batch
    BY DEF OutboxInv, OnePollPerRow, Final
  <2>2. ASSUME NEW p \in Pollers, Commit(p) PROVE row'[r] = row[r]
    BY <2>1, <2>2 DEF Commit, OutboxInv, PollsOK
  <2>3. row[r].status # "absent"
    BY DEF Final, OutboxInv, AttemptsBounded
  <2>4. ASSUME NEW s \in Rows, Enqueue(s) PROVE row'[r] = row[r]
    BY <2>3, <2>4 DEF Enqueue, TypeOK
  <2>5. QED
    BY <2>2, <2>4 DEF Next, Step, Begin, Select, PublishOk, PublishError, Crash,
                      Tick, vars
<1>2. QED
  BY <1>1, TypeCorrect, OutboxSafety, PTL DEF Spec, FinalRowsStay
-----------------------------------------------------------------------------
(* The attempts at a row are spread: OutboxHistory. *)

\* The history only watches.
LEMMA HistoryStepIsStep == [HistoryNext]_historyVars => [Next]_vars
BY DEF HistoryNext, historyVars, Recorded, Unrecorded, Next, Step

LEMMA HistoryIsOutbox == HistorySpec => Spec
<1>1. HistoryInit => Init
  BY DEF HistoryInit
<1>2. QED
  BY <1>1, HistoryStepIsStep, PTL DEF HistorySpec, Spec

TriesOK ==
    /\ tries \in [Rows -> Seq(Nat)]
    /\ \A r \in Rows : Apart(tries[r])
    /\ HistoryOK

\* One more attempt, made after the delay that the last one set.
LEMMA OneMoreApart ==
    ASSUME NEW s \in Seq(Nat), NEW now \in Nat, Apart(s),
           s # <<>> => s[Len(s)] + Backoff(Len(s)) <= now
    PROVE  Apart(Append(s, now))
<1> SUFFICES ASSUME NEW n \in 1 .. Len(Append(s, now)) - 1
             PROVE  Append(s, now)[n] + Backoff(n) <= Append(s, now)[n + 1]
  BY DEF Apart
<1>1. /\ Len(s) \in Nat
      /\ n \in 1 .. Len(s)
      /\ Append(s, now)[n] = s[n]
  OBVIOUS
<1>2. CASE n = Len(s)
  <2>1. Append(s, now)[n + 1] = now /\ s # <<>>
    BY <1>1, <1>2
  <2>2. QED
    BY <1>1, <1>2, <2>1
<1>3. CASE n < Len(s)
  <2>1. Append(s, now)[n + 1] = s[n + 1] /\ n \in 1 .. Len(s) - 1
    BY <1>1, <1>3
  <2>2. QED
    BY <1>1, <2>1 DEF Apart
<1>4. QED
  BY <1>1, <1>2, <1>3

\* A poll that holds a row comes after the delay its last failure set.
LEMMA HolderWaited ==
    ASSUME TypeOK, OutboxInv, TriesOK,
           NEW p \in Pollers, NEW r \in Rows, r \in poller[p].batch
    PROVE  /\ tries[r] \in Seq(Nat) /\ poller[p].now \in Nat
           /\ Apart(Append(tries[r], poller[p].now))
<1>1. tries[r] \in Seq(Nat) /\ Apart(tries[r]) /\ poller[p].now \in Nat
  BY DEF TriesOK, TypeOK, Poller
<1>2. row[r].status \in {"pending", "failed"} /\ ~row[r].terminal
  BY DEF OutboxInv, OnePollPerRow
<1>3. tries[r] # <<>> =>
        tries[r][Len(tries[r])] + Backoff(Len(tries[r])) <= poller[p].now
  BY <1>2 DEF TriesOK, HistoryOK
<1>4. QED
  BY <1>1, <1>3, OneMoreApart

LEMMA TriesAreSpread == TypeOK /\ OutboxInv /\ TriesOK => RetriesAreSpread
<1> SUFFICES ASSUME TypeOK, OutboxInv, TriesOK, NEW r \in Rows
             PROVE  /\ Apart(tries[r])
                    /\ \A p \in Pollers :
                          r \in poller[p].batch =>
                             Apart(Append(tries[r], poller[p].now))
                    /\ row[r].terminal => Len(tries[r]) = MaxAttempts
  BY DEF RetriesAreSpread
<1>1. Apart(tries[r])
  BY DEF TriesOK
<1>2. ASSUME row[r].terminal PROVE Len(tries[r]) = MaxAttempts
  BY <1>2 DEF TriesOK, HistoryOK, OutboxInv, AttemptsBounded
<1>3. QED
  BY <1>1, <1>2, HolderWaited

\* Nothing outside of a commit disturbs the history: rows change by being
\* enqueued only, and a poll that holds a row read its clock late enough.
LEMMA UnrecordedKeepsTries ==
    ASSUME TypeOK, OutboxInv, TriesOK, UNCHANGED tries,
           \A r \in Rows :
              \/ row'[r] = row[r]
              \/ row[r].status = "absent" /\ row'[r] = [row[r] EXCEPT !.status = "pending"],
           \A p \in Pollers : \A r \in Rows :
              r \in poller'[p].batch => row[r].nextAt <= poller'[p].now
    PROVE  TriesOK'
<1>1. \A r \in Rows :
         /\ row'[r].nextAt = row[r].nextAt
         /\ \/ row'[r] = row[r]
            \/ row[r].status = "absent" /\ row'[r].status = "pending"
  BY DEF TypeOK, Row
<1>2. HistoryOK'
  BY <1>1 DEF TriesOK, HistoryOK
<1>3. QED
  BY <1>2 DEF TriesOK, Apart

\* A commit records the failures of its batch, which no other poll holds.
LEMMA RecordedKeepsTries ==
    ASSUME TypeOK, OutboxInv, TriesOK, NEW p \in Pollers, Recorded(p)
    PROVE  TriesOK'
<1>1. /\ poller'[p].batch = {}
      /\ \A q \in Pollers \ {p} : poller'[q] = poller[q]
      /\ poller[p].now \in Nat
  BY DEF Recorded, Commit, TypeOK, Poller, IdlePoller
<1>2. tries' \in [Rows -> Seq(Nat)]
  BY <1>1 DEF Recorded, TriesOK
<1>3. \A r \in Rows \ poller[p].failed : tries'[r] = tries[r]
  BY DEF Recorded
<1>4. \A r \in Rows \cap poller[p].failed :
         tries'[r] = Append(tries[r], poller[p].now)
  BY DEF Recorded
<1>5. \A r \in Rows \ poller[p].batch : row'[r] = row[r]
  BY DEF Recorded, Commit, OutboxInv, PollsOK
<1>6. \A r \in Rows \cap poller[p].failed : r \in poller[p].batch
  BY DEF OutboxInv, PollsOK
<1>7. \A r \in Rows \cap poller[p].batch :
         \/ r \in poller[p].failed /\ row'[r] = Retried(row[r], poller[p].now)
         \/ r \notin poller[p].failed /\ row'[r] = Marked(row[r])
  BY DEF Recorded, Commit, Todo, OutboxInv, PollsOK
<1>8. \A r \in Rows : Apart(tries'[r])
  BY <1>3, <1>4, <1>6, HolderWaited DEF TriesOK
<1>9. ASSUME NEW r \in Rows, NEW q \in Pollers, r \in poller'[q].batch
      PROVE  row'[r].nextAt <= poller'[q].now
  <2>1. q # p /\ r \in poller[q].batch /\ poller'[q] = poller[q]
    BY <1>1, <1>9
  <2>2. row'[r] = row[r]
    BY <1>5, <2>1 DEF OutboxInv, OnePollPerRow
  <2>3. QED
    BY <2>1, <2>2 DEF TriesOK, HistoryOK
<1>10. ASSUME NEW r \in Rows
       PROVE  /\ row'[r].status \in {"absent", "pending"} => tries'[r] = <<>>
              /\ row'[r].status = "failed" =>
                    /\ Len(tries'[r]) = row'[r].attempts /\ tries'[r] # <<>>
                    /\ ~row'[r].terminal =>
                          row'[r].nextAt = tries'[r][Len(tries'[r])]
                                             + Backoff(Len(tries'[r]))
  <2>1. CASE r \notin poller[p].batch
    BY <1>3, <1>5, <1>6, <2>1 DEF TriesOK, HistoryOK
  <2>2. CASE r \in poller[p].batch /\ r \notin poller[p].failed
    <3>1. row'[r] = Marked(row[r])
      BY <1>7, <2>2
    <3>2. Marked(row[r]).status = "published"
      BY DEF Marked
    <3>3. row'[r].status = "published"
      BY <3>1, <3>2
    <3>4. QED
      BY <3>3
  <2>3. CASE r \in poller[p].failed
    <3> DEFINE n == row[r].attempts + 1
               now == poller[p].now
    <3>1. row'[r] = Retried(row[r], now) /\ tries'[r] = Append(tries[r], now)
      BY <1>4, <1>6, <1>7, <2>3
    <3>2. tries[r] \in Seq(Nat) /\ row[r].attempts \in Nat
      BY DEF TriesOK, TypeOK, Row
    <3>3. Len(tries[r]) = row[r].attempts
      <4>1. row[r].status \in {"pending", "failed"}
        BY <1>6, <2>3 DEF OutboxInv, OnePollPerRow
      <4>2. CASE row[r].status = "pending"
        BY <4>2 DEF TriesOK, HistoryOK, OutboxInv, UntriedOK
      <4>3. CASE row[r].status = "failed"
        BY <4>3 DEF TriesOK, HistoryOK
      <4>4. QED
        BY <4>1, <4>2, <4>3
    <3>4. Len(tries'[r]) = n /\ tries'[r][n] = now /\ tries'[r] # <<>>
      BY <1>1, <3>1, <3>2, <3>3
    <3>5. /\ row'[r].status = "failed"
          /\ row'[r].attempts = n
          /\ ~row'[r].terminal => row'[r].nextAt = now + Backoff(n)
      <4>1. LET m == Retried(row[r], now) IN
            /\ m.status = "failed"
            /\ m.attempts = n
            /\ m.terminal = (row[r].terminal \/ n >= MaxAttempts)
            /\ m.nextAt = IF n >= MaxAttempts THEN 0 ELSE now + RetryDelay(n)
        BY DEF Retried
      <4>2. RetryDelay(n) = Backoff(n)
        BY DEF RetryDelay, Backoff
      <4>3. QED
        BY <3>1, <4>1, <4>2
    <3>6. QED
      BY <3>4, <3>5
  <2>4. QED
    BY <2>1, <2>2, <2>3
<1>11. HistoryOK'
  BY <1>9, <1>10 DEF HistoryOK
<1>12. QED
  BY <1>2, <1>8, <1>11 DEF TriesOK

LEMMA StepsKeepTries ==
    TypeOK /\ OutboxInv /\ TriesOK /\ [HistoryNext]_historyVars => TriesOK'
<1> SUFFICES ASSUME TypeOK, OutboxInv, TriesOK, [HistoryNext]_historyVars
             PROVE  TriesOK'
  OBVIOUS
<1>a. \A p \in Pollers : \A r \in Rows :
         r \in poller[p].batch => row[r].nextAt <= poller[p].now
  BY DEF TriesOK, HistoryOK
<1>b. /\ poller \in [Pollers -> Poller] /\ clock \in Nat
      /\ \A p \in Pollers : poller[p].now \in Nat
      /\ \A r \in Rows : row[r].nextAt \in Int
  BY DEF TypeOK, Poller, Row
<1>1. CASE UNCHANGED historyVars
  BY <1>1, <1>a, UnrecordedKeepsTries DEF historyVars, vars
<1>2. ASSUME UNCHANGED tries, Tick PROVE TriesOK'
  BY <1>2, <1>a, UnrecordedKeepsTries DEF Tick
<1>3. ASSUME UNCHANGED tries, NEW s \in Rows, Enqueue(s) PROVE TriesOK'
  BY <1>3, <1>a, UnrecordedKeepsTries DEF Enqueue, TypeOK
<1>4. ASSUME UNCHANGED tries, NEW p \in Pollers, Begin(p) PROVE TriesOK'
  <2>1. \A q \in Pollers : /\ poller'[q].batch = poller[q].batch
                           /\ poller[q].now <= poller'[q].now
                           /\ poller'[q].now \in Nat
    BY <1>4, <1>b DEF Begin, Poller, OutboxInv, PollsOK
  <2>2. \A q \in Pollers : \A r \in Rows :
           r \in poller'[q].batch => row[r].nextAt <= poller'[q].now
    BY <1>a, <1>b, <2>1
  <2>3. QED
    BY <1>4, <2>2, UnrecordedKeepsTries DEF Begin
<1>5. ASSUME UNCHANGED tries, NEW p \in Pollers, Select(p) PROVE TriesOK'
  <2>1. PICK T \in SUBSET Rows :
           /\ \A r \in T : Due(r, poller[p].now)
           /\ poller' = IF T = {} THEN [poller EXCEPT ![p] = IdlePoller]
                        ELSE [poller EXCEPT ![p].batch = T]
    BY <1>5 DEF Select, FirstOf
  <2>2. /\ poller'[p].batch = T
        /\ T # {} => poller'[p].now = poller[p].now
        /\ \A q \in Pollers \ {p} : poller'[q] = poller[q]
    BY <1>b, <2>1 DEF Poller, IdlePoller
  <2>3. \A r \in T : row[r].nextAt <= poller[p].now
    BY <1>b, <2>1 DEF Due, OutboxInv, UntriedOK
  <2>4. \A q \in Pollers : \A r \in Rows :
           r \in poller'[q].batch => row[r].nextAt <= poller'[q].now
    BY <1>a, <2>2, <2>3
  <2>5. QED
    BY <1>5, <2>4, UnrecordedKeepsTries DEF Select
<1>6. ASSUME UNCHANGED tries, NEW p \in Pollers, NEW s \in Rows,
             PublishOk(p, s) \/ PublishError(p, s)
      PROVE  TriesOK'
  <2>1. \A q \in Pollers : /\ poller'[q].batch = poller[q].batch
                           /\ poller'[q].now = poller[q].now
    BY <1>6, <1>b DEF PublishOk, PublishError, Poller
  <2>2. QED
    BY <1>6, <1>a, <2>1, UnrecordedKeepsTries DEF PublishOk, PublishError
<1>7. ASSUME UNCHANGED tries, NEW p \in Pollers, Crash(p) PROVE TriesOK'
  <2>1. /\ poller'[p].batch = {}
        /\ \A q \in Pollers \ {p} : poller'[q] = poller[q]
    BY <1>7, <1>b DEF Crash, IdlePoller
  <2>2. QED
    BY <1>7, <1>a, <2>1, UnrecordedKeepsTries DEF Crash
<1>8. QED
  BY <1>1, <1>2, <1>3, <1>4, <1>5, <1>6, <1>7, RecordedKeepsTries
     DEF HistoryNext, Unrecorded

\* The attempts at a row are as far apart as the backoff promises, although
\* every process computes the next time from a clock that is old by then.
THEOREM RetriesSpread == HistorySpec => []RetriesAreSpread
<1>1. HistoryInit => TriesOK
  <2> SUFFICES ASSUME HistoryInit PROVE TriesOK
    OBVIOUS
  <2>1. tries = [r \in Rows |-> <<>>]
    BY DEF HistoryInit
  <2>2. \A r \in Rows : Apart(tries[r])
    BY <2>1 DEF Apart
  <2>3. HistoryOK
    BY <2>1 DEF HistoryInit, HistoryOK, Init, NoRow, IdlePoller
  <2>4. QED
    BY <2>1, <2>2, <2>3 DEF TriesOK
<1>2. HistorySpec => [](TypeOK /\ OutboxInv)
  BY HistoryIsOutbox, TypeCorrect, OutboxSafety, PTL
<1>3. QED
  BY <1>1, <1>2, StepsKeepTries, TriesAreSpread, PTL DEF HistorySpec
=============================================================================
