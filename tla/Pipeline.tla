------------------------------ MODULE Pipeline ------------------------------
(***************************************************************************)
(* The worker in the cloud (_run_aws): the way of an event from the table  *)
(* in which it is committed to its effects, over the outbox poller, the    *)
(* event bus, the SQS queue with its visibility timeout and its            *)
(* dead-letter queue, and the processor.  The events that the worker       *)
(* itself commits go the same way.                                         *)
(*                                                                         *)
(* A process polls the outbox once, receives a batch once, processes the   *)
(* messages of the batch one after the other, and begins again.  Several   *)
(* processes run.                                                          *)
(***************************************************************************)
EXTENDS WorkerProcess

CONSTANTS
    Visibility,       \* visibility_timeout_seconds
    MaxReceives       \* maxReceiveCount of the redrive policy

VARIABLES
    inbox,    \* [Workers -> SUBSET Handle]: messages received, not begun
    handle,   \* [Workers -> Handle \union {NoHandle}]: the message in hand
    msg       \* [Copies -> Message]

queueVars == <<inbox, handle, msg>>
vars == <<processVars, queueVars, turn>>

ASSUME PipelineAssumption ==
    /\ Visibility \in Nat \ {0}
    /\ MaxReceives \in Nat \ {0}

Turns == {"poll", "polling", "receive", "process"}

\* The nth copy of an event that the bus has taken.
Copies == Events \X (1 .. MaxFaults + 1)

\* "dead" is the worker's dead-letter queue, "undelivered" that of the bus.
Message == [place : {"unsent", "bus", "queue", "deleted", "dead", "undelivered"},
            receives : Nat,      \* ApproximateReceiveCount
            hiddenUntil : Nat]

\* A receipt handle: the copy, and which receive gave the handle out.
Handle == Copies \X Nat
NoHandle == <<>>

Init ==
    /\ ProcessInit
    /\ turn = [p \in Workers |-> "poll"]
    /\ inbox = [p \in Workers |-> {}]
    /\ handle = [p \in Workers |-> NoHandle]
    /\ msg = [m \in Copies |-> [place |-> "unsent", receives |-> 0, hiddenUntil |-> 0]]
-----------------------------------------------------------------------------
Place(m, where) == msg' = [msg EXCEPT ![m].place = where]

Enqueue(e) == Commits(e) /\ UNCHANGED <<queueVars, turn>>

(***************************************************************************)
(* poll_once                                                               *)
(***************************************************************************)
Begin(p) ==
    /\ turn[p] = "poll"
    /\ O!Begin(p)
    /\ GoesTo(p, "polling")
    /\ UNCHANGED <<workerVars, queueVars>>

Select(p) ==
    /\ O!Select(p)
    /\ IF poller'[p] = O!IdlePoller THEN GoesTo(p, "receive") ELSE UNCHANGED turn
    /\ UNCHANGED <<workerVars, queueVars>>

\* A publication the bus takes, whether or not the poller learns of it.
Publish(p, e) ==
    /\ O!PublishOk(p, e) \/ O!PublishError(p, e)
    /\ IF sent'[e] # sent[e] THEN Place(<<e, sent'[e]>>, "bus") ELSE UNCHANGED msg
    /\ UNCHANGED <<workerVars, inbox, handle, turn>>

CommitPoll(p) ==
    /\ O!Commit(p)
    /\ GoesTo(p, "receive")
    /\ UNCHANGED <<workerVars, queueVars>>

(***************************************************************************)
(* The bus and the queue                                                   *)
(***************************************************************************)

\* The bus delivers to the queue, or gives up after its retries.
Deliver(m) ==
    /\ msg[m].place = "bus"
    /\ Place(m, "queue")
    /\ UNCHANGED <<workerVars, outboxVars, inbox, handle, turn, clock, faults>>

GiveUp(m) ==
    /\ msg[m].place = "bus"
    /\ Place(m, "undelivered")
    /\ FailsElsewhere
    /\ UNCHANGED <<inbox, handle, turn>>

\* Mutant: the visibility timeout never ends.
VisibleOnce(m) == msg[m].place = "queue" /\ msg[m].hiddenUntil = 0

Visible(m) == msg[m].place = "queue" /\ msg[m].hiddenUntil <= clock

\* Mutant: one receive too few.
RedriveEarly(m) ==
    /\ Visible(m)
    /\ msg[m].receives >= MaxReceives - 1
    /\ Place(m, "dead")
    /\ UNCHANGED <<workerVars, outboxVars, inbox, handle, turn, clock, faults>>

\* A message that has been received MaxReceives times goes to the dead-letter
\* queue when it would be received once more.
Redrive(m) ==
    /\ Visible(m)
    /\ msg[m].receives >= MaxReceives
    /\ Place(m, "dead")
    /\ UNCHANGED <<workerVars, outboxVars, inbox, handle, turn, clock, faults>>

\* receive_message: any visible messages, up to the batch size, or none.
Receivable == {m \in Copies : Visible(m) /\ msg[m].receives < MaxReceives}

Receive(p, S) ==
    /\ turn[p] = "receive"
    /\ Cardinality(S) <= BatchSize
    /\ msg' = [m \in Copies |->
                  IF m \in S THEN [msg[m] EXCEPT !.receives = @ + 1,
                                                 !.hiddenUntil = clock + Visibility]
                  ELSE msg[m]]
    /\ inbox' = [inbox EXCEPT ![p] = {<<m, msg[m].receives + 1>> : m \in S}]
    /\ GoesTo(p, "process")
    /\ UNCHANGED <<workerVars, outboxVars, handle, clock, faults>>

(***************************************************************************)
(* consume_once                                                            *)
(***************************************************************************)

\* Mutant: the message is deleted when it is begun.
StartDeletes(p, h) ==
    /\ turn[p] = "process"
    /\ h \in inbox[p]
    /\ W!Receive(p, h[1][1])
    /\ inbox' = [inbox EXCEPT ![p] = @ \ {h}]
    /\ handle' = [handle EXCEPT ![p] = h]
    /\ Place(h[1], "deleted")
    /\ UNCHANGED <<outboxVars, turn>>

\* The next message of the batch is handed to process_mapping.
Start(p, h) ==
    /\ turn[p] = "process"
    /\ h \in inbox[p]
    /\ W!Receive(p, h[1][1])
    /\ inbox' = [inbox EXCEPT ![p] = @ \ {h}]
    /\ handle' = [handle EXCEPT ![p] = h]
    /\ UNCHANGED <<outboxVars, msg, turn>>

\* A delivery that ends without success leaves its message where it is.
Process(p) ==
    /\ Works(p)
    /\ handle' = IF worker'[p] = W!Idle THEN [handle EXCEPT ![p] = NoHandle]
                 ELSE handle
    /\ UNCHANGED <<inbox, msg, turn>>

\* The message is deleted by its handle.  A handle that a later receive has
\* replaced may delete it or not.
Delete(p) ==
    LET m == handle[p][1] IN
    /\ W!Delete(p)
    /\ \/ msg[m].place = "queue" /\ Place(m, "deleted")
       \/ /\ msg[m].place # "queue" \/ msg[m].receives # handle[p][2]
          /\ UNCHANGED msg
    /\ handle' = [handle EXCEPT ![p] = NoHandle]
    /\ UNCHANGED <<outboxVars, inbox, turn>>

\* The batch is done: _run_aws begins again.
Loop(p) ==
    /\ turn[p] = "process"
    /\ inbox[p] = {}
    /\ worker[p] = W!Idle
    /\ GoesTo(p, "poll")
    /\ UNCHANGED <<workerVars, outboxVars, queueVars, clock, faults>>

\* The process dies and restarts, wherever it is: its transaction is rolled
\* back, its batch is forgotten.
Crash(p) ==
    /\ turn[p] # "poll"
    /\ Dies(p)
    /\ GoesTo(p, "poll")
    /\ inbox' = [inbox EXCEPT ![p] = {}]
    /\ handle' = [handle EXCEPT ![p] = NoHandle]
    /\ UNCHANGED msg

\* Time passes while a lease, a backoff or a visibility timeout runs.
Tick ==
    /\ \/ W!LeaseAhead
       \/ \E e \in Events : row[e].nextAt > clock
       \/ \E m \in Copies : msg[m].place = "queue" /\ msg[m].hiddenUntil > clock
    /\ Passes
    /\ UNCHANGED <<queueVars, turn>>

Advance(p) ==
    \/ Select(p) \/ (\E e \in Events : Publish(p, e)) \/ CommitPoll(p)
    \/ (\E h \in inbox[p] : Start(p, h)) \/ Process(p) \/ Delete(p) \/ Loop(p)

ReceiveBatch(p) ==
    \E S \in SUBSET Receivable : Receive(p, S)

Next ==
    \/ \E e \in Events : Enqueue(e)
    \/ \E p \in Workers : Begin(p) \/ Advance(p) \/ ReceiveBatch(p) \/ Crash(p)
    \/ \E m \in Copies : Deliver(m) \/ GiveUp(m) \/ Redrive(m)
    \/ Tick

Spec == Init /\ [][Next]_vars

\* A process goes on with its loop, time passes, the bus delivers what it has
\* taken, and a process that receives while messages are visible gets some, in
\* the end.  Nobody is obliged to send a command.
FairSpec ==
    /\ Spec
    /\ WF_vars(Tick)
    /\ \A p \in Workers : WF_vars(Begin(p) \/ Advance(p) \/ ReceiveBatch(p))
    /\ WF_vars(\E m \in Copies : Deliver(m))
    /\ WF_vars(\E m \in Copies : Redrive(m))
    /\ SF_vars(\E p \in Workers : \E S \in SUBSET Receivable \ {{}} : Receive(p, S))
-----------------------------------------------------------------------------
CopiesOf(e) == {m \in Copies : m[1] = e}

\* No event is lost on its way: once its row says "published", a copy of it
\* is with the bus, in the queue or in a dead-letter queue until its effects
\* are committed, whoever crashes, retries or deletes with an old handle.
NothingLost ==
    \A e \in Events :
        row[e].status = "published" /\ ~W!Succeeded(e) =>
            \E m \in CopiesOf(e) : msg[m].place \notin {"unsent", "deleted"}

QueueTypeOK ==
    /\ turn \in [Workers -> Turns]
    /\ inbox \in [Workers -> SUBSET Handle]
    /\ handle \in [Workers -> Handle \union {NoHandle}]
    /\ msg \in [Copies -> Message]

\* A worker holds the handle of a copy of the event it works on.
HandlesOK ==
    \A p \in Workers : worker[p] # W!Idle =>
        handle[p] \in Handle /\ handle[p][1][1] = worker[p].event

\* A copy of what the bus has taken stays until the effects are committed.
\* With ProcessInv and HandlesOK this is inductive.
CopiesStay ==
    \A e \in Events :
        sent[e] > 0 /\ ~W!Succeeded(e) =>
            \E m \in CopiesOf(e) : msg[m].place \notin {"unsent", "deleted"}

QueueInv == QueueTypeOK /\ HandlesOK /\ CopiesStay

\* Every event that is committed is accounted for: its effects are committed,
\* or it is terminal in one of the two tables, or one of the two dead-letter
\* queues holds it.
AccountedFor(e) ==
    \/ W!Succeeded(e) \/ attempt[e].terminal \/ row[e].terminal
    \/ \E m \in CopiesOf(e) : msg[m].place \in {"dead", "undelivered"}

EveryEventAccountedFor == \A e \in Events : InOutbox(e) ~> AccountedFor(e)

\* Few faults lose nothing: when the queue allows two receives for every fault
\* and one more, every accepted event the bus delivers is applied.  A fault
\* costs a receive, and another one if the message comes back while the lease
\* of the worker that met it still runs.
FewFaultsLoseNothing ==
    \A e \in Events : KindOf[e] \notin {"malformed", "unknown"} =>
        (InOutbox(e) ~>
            W!Succeeded(e) \/ \E m \in CopiesOf(e) : msg[m].place = "undelivered")
=============================================================================
