----------------------------- MODULE LocalWorker -----------------------------
(***************************************************************************)
(* The worker in local mode (_run_local): no bus and no queue.  A poll     *)
(* collects the events it publishes in the publisher's list; when it has   *)
(* committed, the process hands them one after the other to the processor, *)
(* in the same thread, and polls again.                                    *)
(*                                                                         *)
(* Nothing in the loop catches an exception: a delivery that fails ends    *)
(* the process, and what its lists hold is gone although the rows are      *)
(* marked published.  Somebody may start the process again.                *)
(***************************************************************************)
EXTENDS WorkerProcess, Sequences, Functions

VARIABLES
    published,  \* [Workers -> Seq(Events)]: LocalEventBridgePublisher.published
    current,    \* [Workers -> Seq(Events)]: what the loop has still to process
    deaths      \* how often a process has ended by an exception or a crash

lists == <<published, current>>
localVars == <<processVars, lists, turn, deaths>>

LocalTurns == {"down", "poll", "polling", "process"}

LocalInit ==
    /\ ProcessInit
    /\ turn = [p \in Workers |-> "poll"]
    /\ published = [p \in Workers |-> <<>>]
    /\ current = [p \in Workers |-> <<>>]
    /\ deaths = 0
-----------------------------------------------------------------------------
LocalEnqueue(e) == Commits(e) /\ UNCHANGED <<lists, turn, deaths>>

(***************************************************************************)
(* poll_once; its publisher appends and never fails                        *)
(***************************************************************************)
LocalBegin(p) ==
    /\ turn[p] = "poll"
    /\ O!Begin(p)
    /\ GoesTo(p, "polling")
    /\ UNCHANGED <<workerVars, lists, deaths>>

Collect(p, e) ==
    /\ O!PublishOk(p, e)
    /\ published' = [published EXCEPT ![p] = Append(@, e)]
    /\ UNCHANGED <<workerVars, current, turn, deaths>>

\* Mutant: the list is not cleared.
TakeKeeping(p) ==
    /\ current' = [current EXCEPT ![p] = published[p]]
    /\ GoesTo(p, "process")
    /\ UNCHANGED published

\* poll_once returns: the loop takes the list and clears it.
Take(p) ==
    /\ current' = [current EXCEPT ![p] = published[p]]
    /\ published' = [published EXCEPT ![p] = <<>>]
    /\ GoesTo(p, "process")

\* Mutant: a poll that finds nothing ends the loop.
LocalSelectOrStop(p) ==
    /\ O!Select(p)
    /\ IF poller'[p] = O!IdlePoller
       THEN GoesTo(p, "down") /\ UNCHANGED lists ELSE UNCHANGED <<lists, turn>>
    /\ UNCHANGED <<workerVars, deaths>>

LocalSelect(p) ==
    /\ O!Select(p)
    /\ IF poller'[p] = O!IdlePoller THEN Take(p) ELSE UNCHANGED <<lists, turn>>
    /\ UNCHANGED <<workerVars, deaths>>

LocalCommit(p) ==
    /\ O!Commit(p)
    /\ Take(p)
    /\ UNCHANGED <<workerVars, deaths>>

(***************************************************************************)
(* for event in current: processor.process_mapping(event.as_dict())        *)
(***************************************************************************)
HandOver(p) ==
    /\ turn[p] = "process"
    /\ current[p] # <<>>
    /\ W!Receive(p, Head(current[p]))
    /\ current' = [current EXCEPT ![p] = Tail(@)]
    /\ UNCHANGED <<outboxVars, published, turn, deaths>>

\* The process ends, and its lists with it.
Ends(p) ==
    /\ GoesTo(p, "down")
    /\ published' = [published EXCEPT ![p] = <<>>]
    /\ current' = [current EXCEPT ![p] = <<>>]
    /\ deaths' = deaths + 1

\* process_mapping is over in this step without having applied the event:
\* it has raised, unless the claim has found the event terminal.
Raises(p) ==
    LET e == worker[p].event IN
    /\ worker'[p] = W!Idle
    /\ ~(worker[p].stage = "claiming" /\ attempt[e].terminal /\ UNCHANGED faults)

LocalProcess(p) ==
    /\ Works(p)
    /\ IF Raises(p) THEN Ends(p) ELSE UNCHANGED <<lists, turn, deaths>>

\* process_mapping returns; there is no message to delete.
Return(p) ==
    /\ Returns(p)
    /\ UNCHANGED <<acked, lists, turn, deaths>>

\* Mutant: the rest of the list is forgotten after one event.
LocalLoopEarly(p) ==
    /\ turn[p] = "process"
    /\ worker[p] = W!Idle
    /\ GoesTo(p, "poll")
    /\ current' = [current EXCEPT ![p] = <<>>]
    /\ UNCHANGED <<workerVars, outboxVars, published, clock, faults, deaths>>

LocalLoop(p) ==
    /\ turn[p] = "process"
    /\ current[p] = <<>>
    /\ worker[p] = W!Idle
    /\ GoesTo(p, "poll")
    /\ UNCHANGED <<workerVars, outboxVars, lists, clock, faults, deaths>>

\* The process dies wherever it is, and somebody starts it again.
LocalCrash(p) ==
    /\ turn[p] # "down"
    /\ Dies(p)
    /\ Ends(p)

Restart(p) ==
    /\ turn[p] = "down"
    /\ GoesTo(p, "poll")
    /\ UNCHANGED <<workerVars, outboxVars, lists, clock, faults, deaths>>

LocalTick ==
    /\ W!LeaseAhead
    /\ Passes
    /\ UNCHANGED <<lists, turn, deaths>>

LocalAdvance(p) ==
    \/ LocalBegin(p) \/ LocalSelect(p) \/ (\E e \in Events : Collect(p, e))
    \/ LocalCommit(p) \/ HandOver(p) \/ LocalProcess(p) \/ Return(p)
    \/ LocalLoop(p)

LocalNext ==
    \/ \E e \in Events : LocalEnqueue(e)
    \/ \E p \in Workers : LocalAdvance(p) \/ LocalCrash(p) \/ Restart(p)
    \/ LocalTick

LocalSpec == LocalInit /\ [][LocalNext]_localVars

\* A process that runs goes on; nobody must start one again.
LocalFairSpec == LocalSpec /\ \A p \in Workers : WF_localVars(LocalAdvance(p))
-----------------------------------------------------------------------------
\* What the lists of a process hold, and what its processor works on.
Listed(p) == published[p] \o current[p]
InHand(p, e) == worker[p] # W!Idle /\ worker[p].event = e
Holds(p, e) == InHand(p, e) \/ \E i \in DOMAIN Listed(p) : Listed(p)[i] = e

\* How often e has been, or may yet be, claimed.
Handed(e) ==
    attempt[e].number
    + Cardinality({p \in Workers : InHand(p, e) /\ worker[p].stage = "claiming"})
    + Cardinality(UNION {{<<p, i>> : i \in {j \in DOMAIN Listed(p) : Listed(p)[j] = e}} :
                           p \in Workers})

\* Without a queue nothing is delivered twice: an event is claimed once at
\* most, whichever polls were rolled back and whichever processes were
\* started again, so the retries of an attempt (max_event_attempts) are
\* never used in this mode.
HandedOverOnce == \A e \in Events : Handed(e) <= 1

LocalTypeOK ==
    /\ turn \in [Workers -> LocalTurns]
    /\ published \in [Workers -> Seq(Events)]
    /\ current \in [Workers -> Seq(Events)]
    /\ deaths \in Nat

\* What a process has at each place of its loop: the publisher's list while
\* it polls, the list it works on afterwards.
LoopOK(p) ==
    /\ turn[p] # "polling" => poller[p] = O!IdlePoller
    /\ turn[p] # "process" => worker[p] = W!Idle /\ current[p] = <<>>
    /\ poller[p].failed = {}
    /\ Range(published[p]) = poller[p].ok
    /\ IsInjective(published[p]) /\ IsInjective(current[p])

\* p is still to claim e.
Claimant(p, e) == InHand(p, e) /\ worker[p].stage = "claiming"
Awaits(p, e) == Claimant(p, e) \/ e \in Range(current[p])

\* With LoopOK this is inductive and gives HandedOverOnce.
ClaimedOnce ==
    \A e \in Events :
        /\ attempt[e].number \in {0, 1}
        /\ attempt[e].number = 1 => row[e].status = "published"
        /\ \A p \in Workers : Awaits(p, e) =>
              /\ row[e].status = "published" /\ attempt[e].number = 0
              /\ ~(Claimant(p, e) /\ e \in Range(current[p]))
              /\ \A q \in Workers \ {p} : ~Awaits(q, e)

\* What a process holds is the batch of one poll at most.
Held(p) == {e \in Events : Holds(p, e)}
HoldsABatch ==
    \A p \in Workers : /\ Cardinality(poller[p].batch) <= BatchSize
                        /\ Cardinality(Held(p)) <= BatchSize

LocalInv ==
    LocalTypeOK /\ (\A p \in Workers : LoopOK(p)) /\ ClaimedOnce /\ HoldsABatch

\* Published, and nobody will ever apply it.
Lost(e) ==
    /\ row[e].status = "published"
    /\ ~W!Succeeded(e)
    /\ \A p \in Workers : ~Holds(p, e)

\* What the outbox has marked published is in the hands of a process until
\* its effects are committed; a process that ends takes no more with it than
\* the batch of one poll (main.py:95-98).
LossesNeedDeaths ==
    Cardinality({e \in Events : Lost(e)}) <= deaths * BatchSize

\* As long as no process ends, every committed event is applied.
LocalEventsSettle ==
    \A e \in Events :
        row[e].status # "absent" ~> W!Succeeded(e) \/ deaths > 0
=============================================================================
