--------------------------- MODULE StoredProcessing ---------------------------
(***************************************************************************)
(* The worker of EventProcessing with its artifact store in place of the   *)
(* step PutReceipt: a put takes several calls of the store, between which  *)
(* other workers run and after any of which the process may die.           *)
(***************************************************************************)
EXTENDS EventProcessing

VARIABLES store, object, call

S == INSTANCE ReceiptStore

storeVars == <<store, object, call>>
storedVars == <<vars, storeVars>>

StoredInit == Init /\ S!Init
-----------------------------------------------------------------------------
\* _store_prepared_receipt: the worker goes on when the call answers.
StoreReceipt(w) ==
    LET e == worker[w].event IN
    /\ worker[w].stage = "prepared"
    /\ \/ S!Put(w, e, "more") /\ UNCHANGED worker
       \/ S!Put(w, e, "ok") /\ Goto(w, "ready")
       \/ S!Put(w, e, "error") /\ Goto(w, "failing")
    /\ receipts' = S!Whole'
    /\ UNCHANGED <<attempt, effects, notices, acked, clock>>

StoredStep(w) ==
    \/ /\ \/ \E e \in Events : Receive(w, e)
          \/ Claim(w) \/ ClaimError(w) \/ Prepare(w) \/ HandleCommit(w)
          \/ HandleAbort(w) \/ RecordFailure(w) \/ Delete(w)
       /\ UNCHANGED storeVars
    \/ StoreReceipt(w)
    \/ Crash(w) /\ S!Forget(w)

StoredNext ==
    \/ \E w \in Workers : StoredStep(w)
    \/ Tick /\ UNCHANGED storeVars

StoredSpec == StoredInit /\ [][StoredNext]_storedVars
-----------------------------------------------------------------------------
\* A put is refused because of a file that is, or was left, half written.
RefusedByPart(w) ==
    LET e == worker[w].event IN
    /\ worker[w].stage = "prepared"
    /\ store = "files" /\ object[e] = "partial" /\ call[w] = "exists"
    /\ Goto(w, "failing")
    /\ UNCHANGED <<attempt, receipts, effects, notices, acked, clock, faults>>

\* The stores keep the promise of put_receipt that the processing rests on:
\* every step of a worker with a real store is a step of EventProcessing, in
\* which a receipt appears at once, is accepted when it is there already, and
\* is refused only after a fault.  The one exception is a file cut short
\* (processor.py:159-168, FilesystemReceiptStore, S3ReceiptStore).
StoresKeepPromise ==
    [][Next \/ \E w \in Workers : RefusedByPart(w)]_vars

\* What the stores rest on.  A worker that has opened a file is alone in writing
\* it, and nobody takes the file for a receipt meanwhile; S3 has no halves.
StoreInv ==
    /\ S!TypeOK
    /\ receipts = S!Whole
    /\ store = "s3" => \A e \in Events : object[e] # "partial"
    /\ \A w \in Workers : call[w] # "none" =>
          worker[w].stage = "prepared" /\ object[worker[w].event] # "absent"
    /\ \A w \in Workers : call[w] = "opened" =>
          /\ object[worker[w].event] = "partial"
          /\ \A v \in Workers \ {w} :
                call[v] = "opened" => worker[v].event # worker[w].event
=============================================================================
