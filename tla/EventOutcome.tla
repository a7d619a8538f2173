----------------------------- MODULE EventOutcome -----------------------------
(***************************************************************************)
(* What the worker promises of each event, without claims, leases,         *)
(* retries, receipts or crashes: an event is pending until, in one atomic  *)
(* step, it either takes all its effects or is given up with one notice,   *)
(* and that verdict is final.                                              *)
(***************************************************************************)
EXTENDS Integers

CONSTANTS Events,
          Sources,
          SourceOf,
          Ledgered,  \* events that record a ledger transaction
          Counted,   \* events that increment the daily statistics
          Gifts,     \* events that mark a gift processed
          Refused    \* events no handler accepts

VARIABLES verdict, ledger, recorded, stats, processed, notices

vars == <<verdict, ledger, recorded, stats, processed, notices>>

Init ==
    /\ verdict = [e \in Events |-> "pending"]
    /\ ledger = {}
    /\ recorded = [e \in Events |-> 0]
    /\ stats = [e \in Events |-> 0]
    /\ processed = {}
    /\ notices = [e \in Events |-> 0]

\* All effects of e, once, and only for a source nothing was recorded for.
Complete(e) ==
    /\ verdict[e] = "pending"
    /\ e \notin Refused
    /\ e \in Ledgered => \A row \in ledger : row[1] # SourceOf[e]
    /\ verdict' = [verdict EXCEPT ![e] = "done"]
    /\ ledger' = IF e \in Ledgered
                 THEN ledger \union {<<SourceOf[e], e>>} ELSE ledger
    /\ recorded' = IF e \in Ledgered
                   THEN [recorded EXCEPT ![e] = 1] ELSE recorded
    /\ stats' = IF e \in Counted THEN [stats EXCEPT ![e] = 1] ELSE stats
    /\ processed' = IF e \in Gifts
                    THEN processed \union {SourceOf[e]} ELSE processed
    /\ UNCHANGED notices

\* The event is given up, with its single notice.
GiveUp(e) ==
    /\ verdict[e] = "pending"
    /\ verdict' = [verdict EXCEPT ![e] = "terminal"]
    /\ notices' = [notices EXCEPT ![e] = 1]
    /\ UNCHANGED <<ledger, recorded, stats, processed>>

Next == \E e \in Events : Complete(e) \/ GiveUp(e)

Spec == Init /\ [][Next]_vars
=============================================================================
