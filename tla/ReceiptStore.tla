----------------------------- MODULE ReceiptStore -----------------------------
(***************************************************************************)
(* The two artifact stores of the worker, call by call: a directory of     *)
(* files in local mode, a bucket of S3 in AWS mode.  Both write an object  *)
(* once and, when it exists already, accept it if its contents are those   *)
(* that would have been written.                                           *)
(*                                                                         *)
(* The key of a receipt names its source and its event, and its contents   *)
(* are a function of the event, so two puts of one key never differ: what  *)
(* a comparison can find is the whole object or a file cut short.          *)
(***************************************************************************)
EXTENDS Integers

CONSTANTS Workers, Events, MaxFaults

VARIABLES
    store,   \* "files" or "s3": chosen when the process starts
    object,  \* [Events -> Contents]: the receipt of each event
    call,    \* [Workers -> Calls]: where each worker is in put_receipt
    faults

Contents == {"absent", "partial", "whole"}

\* "opened": the file is created and not written; "exists": the store has
\* refused the write because the object exists.
Calls == {"none", "opened", "exists"}

Init ==
    /\ store \in {"files", "s3"}
    /\ object = [e \in Events |-> "absent"]
    /\ call = [w \in Workers |-> "none"]
-----------------------------------------------------------------------------
Fault == faults < MaxFaults /\ faults' = faults + 1
Enter(w, c) == call' = [call EXCEPT ![w] = c]
Keep(e, contents) == object' = [object EXCEPT ![e] = contents]

\* In each step of a call, result is what the caller learns by it: "more"
\* (nothing yet), "ok" or "error" (a ReceiptStoreError).

\* path.open("x") creates the file or finds it; mkdir and open may fail.
OpenFile(w, e, result) ==
    /\ store = "files"
    /\ call[w] = "none"
    /\ \/ /\ object[e] = "absent"
          /\ Keep(e, "partial")
          /\ Enter(w, "opened")
          /\ result = "more"
          /\ UNCHANGED faults
       \/ /\ object[e] # "absent"
          /\ Enter(w, "exists")
          /\ result = "more"
          /\ UNCHANGED <<object, faults>>
       \/ result = "error" /\ Fault /\ UNCHANGED <<object, call>>

\* write and close.
WriteFile(w, e, result) ==
    /\ call[w] = "opened"
    /\ Enter(w, "none")
    /\ \/ result = "ok" /\ Keep(e, "whole") /\ UNCHANGED faults
       \/ result = "error" /\ Fault /\ object' \in {object, [object EXCEPT ![e] = "whole"]}

\* put_object with IfNoneMatch: the object appears whole or not at all, and
\* the answer may be lost either way.
PutObject(w, e, result) ==
    /\ store = "s3"
    /\ call[w] = "none"
    /\ \/ /\ object[e] = "absent"
          /\ Keep(e, "whole")
          /\ result = "ok"
          /\ UNCHANGED <<call, faults>>
       \/ /\ object[e] = "whole"
          /\ Enter(w, "exists")
          /\ result = "more"
          /\ UNCHANGED <<object, faults>>
       \/ /\ result = "error"
          /\ Fault
          /\ object' \in {object, [object EXCEPT ![e] = "whole"]}
          /\ UNCHANGED call

\* Mutant: what exists is taken for what was asked for.
CompareNothing(w, e, result) ==
    /\ call[w] = "exists"
    /\ Enter(w, "none")
    /\ result = "ok"
    /\ UNCHANGED <<object, faults>>

\* The existing object is read and compared; the read may fail.
Compare(w, e, result) ==
    /\ call[w] = "exists"
    /\ Enter(w, "none")
    /\ \/ object[e] = "whole" /\ result = "ok" /\ UNCHANGED faults
       \/ object[e] # "whole" /\ result = "error" /\ UNCHANGED faults
       \/ result = "error" /\ Fault
    /\ UNCHANGED object

\* put_receipt
Put(w, e, result) ==
    /\ \/ OpenFile(w, e, result) \/ WriteFile(w, e, result)
       \/ PutObject(w, e, result) \/ Compare(w, e, result)
    /\ UNCHANGED store

\* The worker dies in a call: a file it has opened stays as it is.
Forget(w) == Enter(w, "none") /\ UNCHANGED <<store, object>>
-----------------------------------------------------------------------------
TypeOK ==
    /\ store \in {"files", "s3"}
    /\ object \in [Events -> Contents]
    /\ call \in [Workers -> Calls]

Whole == {e \in Events : object[e] = "whole"}
=============================================================================
