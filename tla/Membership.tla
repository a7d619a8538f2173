------------------------------ MODULE Membership ------------------------------
(***************************************************************************)
(* What a subscription gives: the commerce services of Commerce with the   *)
(* time their rows carry, and the reads that decide from the rows who may  *)
(* see the body of a paid post.  Nothing expires a row: a period that is   *)
(* over is noticed, or not, by whoever reads.                              *)
(***************************************************************************)
EXTENDS Commerce, FiniteSets

CONSTANTS
    Period,    \* SUBSCRIPTION_PERIOD
    MaxClock   \* bound on time

ASSUME MembershipAssumption == Period \in Nat /\ MaxClock \in Nat

VARIABLES
    clock,
    now,       \* [Requests -> Nat]: the time a request has read
    raced      \* pairs {q, r}: one committed after the other had read the row
               \* and before it was over; remembered for the properties only

memberVars == <<vars, clock, now, raced>>

MembershipInit ==
    /\ Init
    /\ clock = 0
    /\ now = [r \in Requests |-> 0]
    /\ raced = {}
-----------------------------------------------------------------------------
\* The checks of a create end with the reading of the clock.
TimedCheck(r) ==
    /\ Check(r)
    /\ now' = IF Req[r].op = "create" /\ req'[r].stage = "checked"
              THEN [now EXCEPT ![r] = clock] ELSE now

\* r has read the row s and is not over.
Reading(r, s) ==
    /\ req[r].stage \in {"checked", "written"}
    /\ Req[r].op \in {"change", "cancel"}
    /\ Req[r].sub = s

TimedCommit(r) ==
    /\ Commit(r)
    /\ raced' = raced \union
          {{q, r} : q \in {q \in Requests \ {r} : Reading(q, Req[r].sub)}}
    /\ UNCHANGED now

TimedStep(r) ==
    \/ TimedCheck(r) /\ UNCHANGED raced
    \/ TimedCommit(r)
    \/ (Claim(r) \/ Flush(r) \/ Abort(r)) /\ UNCHANGED <<now, raced>>

Tick ==
    /\ clock < MaxClock
    /\ clock' = clock + 1
    /\ UNCHANGED <<vars, now, raced>>

MembershipNext ==
    \/ Tick
    \/ UNCHANGED clock /\ \E r \in Requests : TimedStep(r)

MembershipSpec == MembershipInit /\ [][MembershipNext]_memberVars
-----------------------------------------------------------------------------
\* The request that drew the id s; period_end is fixed when the row is made,
\* and access_until, which a cancellation sets, is the same.
Creator(s) == CHOOSE r \in Requests : Req[r].op = "create" /\ Req[r].sub = s
PeriodEnd(s) == now[Creator(s)] + Period

\* Mutant: a cancellation takes effect at once.
PaidAccessOfActive(u, p) ==
    \E s \in Subs :
        /\ IsActive(s)
        /\ subs[s].user = u /\ subs[s].pub = p /\ subs[s].amount > 0
        /\ PeriodEnd(s) >= clock

HasPaidAccess(u, p) ==
    \E s \in Subs :
        /\ subs[s].status \in {"active", "canceled"}
        /\ subs[s].user = u /\ subs[s].pub = p /\ subs[s].amount > 0
        /\ PeriodEnd(s) >= clock

\* Whether get_post shows u the body of a paid post of p.
Entitled(u, p) == Owner[p] = u \/ HasPaidAccess(u, p)

\* r has moved the subscription to a free plan.
Downgraded(r, s) ==
    r \in outbox /\ Req[r].op = "change" /\ Req[r].sub = s /\ Req[r].amount = 0

\* Whoever was charged for a period may read until its end: no cancellation,
\* no other subscription, no tier change between paid plans and no race of
\* these takes the access away (docs/SPEC.md:231, _has_paid_access).
PaidPeriodIsHonoured ==
    \A s \in Subs :
        /\ subs[s] # NoSub
        /\ subs[s].charged > 0
        /\ PeriodEnd(s) >= clock
        /\ \A r \in Requests : ~Downgraded(r, s)
        => Entitled(subs[s].user, subs[s].pub)
-----------------------------------------------------------------------------
\* The subscribers that get_publication_summary counts.
SubscriberCount(p) == Cardinality({s \in Subs : IsActive(s) /\ subs[s].pub = p})

\* "Every read that counts or entitles subscribers applies the predicate
\* status='active' AND (period_end IS NULL OR period_end >= now) or
\* status='canceled' AND access_until >= now."  (docs/SPEC.md:232, of the count
\* in get_publication_summary)
CountsApplyPredicate ==
    \A p \in Pubs :
        SubscriberCount(p) =
            Cardinality({s \in Subs : subs[s] # NoSub /\ subs[s].pub = p
                                          /\ PeriodEnd(s) >= clock})
-----------------------------------------------------------------------------
\* The committed requests that did op to the subscription s.
Doers(op, s) == {r \in outbox : Req[r].op = op /\ Req[r].sub = s}

\* A cancellation is announced twice only by requests that overlap: one that
\* begins after another is over is the no-op that commerce.py:279 promises.
SecondCancelOverlaps ==
    \A s \in Subs : \A q, r \in Doers("cancel", s) : q # r => {q, r} \in raced

\* A row pays an amount that its plan does not take (a free plan that counts as
\* paid, a paid one below its price) only after two tier changes that overlap:
\* the columns that an update leaves out belong to the row that it read.
MisfitNeedsOverlap ==
    \A s \in Subs :
        subs[s] # NoSub /\ ~Accepts(subs[s].plan, subs[s].amount) =>
            \E q, r \in Doers("change", s) : q # r /\ {q, r} \in raced
=============================================================================
