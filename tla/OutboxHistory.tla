---------------------------- MODULE OutboxHistory ----------------------------
(***************************************************************************)
(* Outbox with a memory of the recorded failures of each row.  The memory  *)
(* is not in the program, which keeps the time of the next attempt only;   *)
(* here the attempts themselves tell whether they were spread.             *)
(***************************************************************************)
EXTENDS Outbox, Sequences

VARIABLE
    tries  \* [Rows -> Seq(Nat)]: when the polls read the clock whose failures
           \* of a row were committed

historyVars == <<vars, tries>>

HistoryInit == Init /\ tries = [r \in Rows |-> <<>>]

Recorded(p) ==
    /\ Commit(p)
    /\ tries' = [r \in Rows |->
                    IF r \in poller[p].failed THEN Append(tries[r], poller[p].now)
                    ELSE tries[r]]

Unrecorded(p) ==
    /\ \/ Begin(p) \/ Select(p) \/ Crash(p)
       \/ \E r \in Rows : PublishOk(p, r) \/ PublishError(p, r)
    /\ UNCHANGED tries

HistoryNext ==
    \/ \E p \in Pollers : Recorded(p) \/ Unrecorded(p)
    \/ (Tick \/ \E r \in Rows : Enqueue(r)) /\ UNCHANGED tries

HistorySpec == HistoryInit /\ [][HistoryNext]_historyVars
HistoryFairSpec == HistorySpec /\ Fairness
-----------------------------------------------------------------------------
\* The nth attempt at a row and the one after it are RetryBase * 2^(n-1) apart.
Backoff(n) == RetryBase * 2 ^ (n - 1)

Apart(s) == \A n \in 1 .. Len(s) - 1 : s[n] + Backoff(n) <= s[n + 1]

\* The attempts at a row are spread ("exponential retry backoff
\* (5 s x 2^(n-1))", docs/SPEC.md:316), whichever processes make them: the polls
\* that recorded its failures, and one that works on it now, read their clocks
\* that far apart, although each computes the next time from a clock that is
\* old by then, and polls that die have tried it in between.  A row is given up
\* only after MaxAttempts such failures.
RetriesAreSpread ==
    \A r \in Rows :
        /\ Apart(tries[r])
        /\ \A p \in Pollers :
              r \in poller[p].batch => Apart(Append(tries[r], poller[p].now))
        /\ row[r].terminal => Len(tries[r]) = MaxAttempts

\* What makes it inductive: the row remembers its last failure by the time of
\* the next attempt, which no poll that holds the row has read a clock before.
HistoryOK ==
    \A r \in Rows :
        /\ row[r].status \in {"absent", "pending"} => tries[r] = <<>>
        /\ row[r].status = "failed" =>
              /\ Len(tries[r]) = row[r].attempts /\ tries[r] # <<>>
              /\ ~row[r].terminal =>
                    row[r].nextAt = tries[r][Len(tries[r])] + Backoff(Len(tries[r]))
        /\ \A p \in Pollers : r \in poller[p].batch => row[r].nextAt <= poller[p].now
=============================================================================
