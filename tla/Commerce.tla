------------------------------ MODULE Commerce ------------------------------
(***************************************************************************)
(* The commerce services of the API: subscribe, change tier, cancel and    *)
(* gift.  Each request is one database transaction at READ COMMITTED: it   *)
(* claims its idempotency key, reads, flushes its writes and commits.      *)
(* Requests run in parallel threads; what orders them is the unique index  *)
(* on (user, key), the partial unique index on active subscriptions and    *)
(* the row locks that UPDATE takes.  Nothing is locked by a read.          *)
(*                                                                         *)
(* A client that retries sends another request with the same key.  The     *)
(* process may die at any point of a request, and an answer may be lost.   *)
(***************************************************************************)
EXTENDS Integers

CONSTANTS
    Requests,  \* HTTP requests, each sent at most once
    Keys,      \* pairs <<user, Idempotency-Key>>
    Users,
    Pubs,      \* active publications
    Owner,     \* [Pubs -> Users]
    Plans,     \* active plans
    PlanPub,   \* [Plans -> Pubs]
    Price,     \* [Plans -> Nat]: monthly_price_cents
    Open,      \* plans with allow_open_amount
    Subs,      \* subscription ids
    Req,       \* [Requests -> Request]: what each request asks
    Nobody     \* no request

Ops == {"create", "change", "cancel", "gift"}

\* sub is the fresh id of a create and the path parameter of a change or a
\* cancel; pub, plan and amount are the body's.
Request == [op : Ops, user : Users, key : Keys, pub : Pubs, plan : Plans,
            amount : Nat, sub : Subs]

ASSUME CommerceAssumption ==
    /\ Owner \in [Pubs -> Users]
    /\ PlanPub \in [Plans -> Pubs]
    /\ Price \in [Plans -> Nat]
    /\ Open \subseteq Plans
    /\ Nobody \notin Requests
    /\ Req \in [Requests -> Request]
    \* a key belongs to a user, and every create draws a new uuid
    /\ \A q, r \in Requests : Req[q].key = Req[r].key => Req[q].user = Req[r].user
    /\ \A q, r \in Requests :
          Req[q].op = "create" /\ Req[r].op = "create" /\ Req[q].sub = Req[r].sub
              => q = r

VARIABLES
    subs,    \* [Subs -> Sub]: committed rows
    gifts,   \* requests whose gift row is committed
    keys,    \* [Keys -> Requests \union {Nobody}]: whose response is stored
    outbox,  \* requests whose outbox event is committed
    req,     \* [Requests -> Progress]
    answer   \* [Requests -> Answer]: what the client has been told

vars == <<subs, gifts, keys, outbox, req, answer>>

\* A row.  charged is charged_amount_cents.
LiveSub == [status : {"active", "canceled"}, user : Users, pub : Pubs,
            plan : Plans, amount : Nat, charged : Nat]
NoSub == [status |-> "none"]
Sub == LiveSub \union {NoSub}

Stages == {"new", "claimed", "checked", "written", "done"}

\* seen is the subscription row a change or a cancel has read.
Progress == [stage : Stages, seen : Sub]

\* The stored response is that of the request "of"; a replay repeats it.
Answer == [kind : {"none", "ok", "replay", "mismatch", "refused", "lost"},
           of : Requests \union {Nobody}]
NoAnswer == [kind |-> "none", of |-> Nobody]

Init ==
    /\ subs = [s \in Subs |-> NoSub]
    /\ gifts = {}
    /\ keys = [k \in Keys |-> Nobody]
    /\ outbox = {}
    /\ req = [r \in Requests |-> [stage |-> "new", seen |-> NoSub]]
    /\ answer = [r \in Requests |-> NoAnswer]
-----------------------------------------------------------------------------
\* The request is over; its transaction is committed or rolled back.
End(r, kind, of) ==
    /\ req' = [req EXCEPT ![r] = [stage |-> "done", seen |-> NoSub]]
    /\ answer' = [answer EXCEPT ![r] = [kind |-> kind, of |-> of]]

Refuse(r) == End(r, "refused", Nobody) /\ UNCHANGED <<subs, gifts, keys, outbox>>

Reach(r, stage, seen) ==
    /\ req' = [req EXCEPT ![r] = [stage |-> stage, seen |-> seen]]
    /\ UNCHANGED <<subs, gifts, keys, outbox, answer>>

\* What the request hash covers: the operation and its body.
SameRequest(q, r) ==
    /\ Req[q].op = Req[r].op
    /\ Req[q].op \in {"create", "gift"} => Req[q].pub = Req[r].pub
    /\ Req[q].op \in {"change", "cancel"} => Req[q].sub = Req[r].sub
    /\ Req[q].op \in {"create", "change"} => Req[q].plan = Req[r].plan
    /\ Req[q].op # "cancel" => Req[q].amount = Req[r].amount

\* Mutant: the key has no unique index.
KeyFreeAlways(r) == req[r].stage = "new"

\* The key row of r is inserted and not committed: others who insert the
\* same key wait.
HoldsKey(r) == req[r].stage \in {"claimed", "checked", "written"}
KeyFree(r) == \A q \in Requests : HoldsKey(q) => Req[q].key # Req[r].key

\* Mutant: the request hash is not compared.
ClaimUnhashed(r) ==
    LET owner == keys[Req[r].key] IN
    /\ req[r].stage = "new"
    /\ KeyFree(r)
    /\ \/ owner = Nobody /\ Reach(r, "claimed", NoSub)
       \/ /\ owner # Nobody
          /\ End(r, "replay", owner)
          /\ UNCHANGED <<subs, gifts, keys, outbox>>

\* idempotency.claim.  A committed key row always has its response.
Claim(r) ==
    LET owner == keys[Req[r].key] IN
    /\ req[r].stage = "new"
    /\ KeyFree(r)
    /\ \/ owner = Nobody /\ Reach(r, "claimed", NoSub)
       \/ /\ owner # Nobody
          /\ SameRequest(owner, r)
          /\ End(r, "replay", owner)
          /\ UNCHANGED <<subs, gifts, keys, outbox>>
       \/ /\ owner # Nobody
          /\ ~SameRequest(owner, r)
          /\ End(r, "mismatch", Nobody)
          /\ UNCHANGED <<subs, gifts, keys, outbox>>

\* _resolve_tier_and_amount
Accepts(plan, amount) ==
    IF Price[plan] = 0 THEN amount = 0
    ELSE amount >= Price[plan] /\ (amount > Price[plan] => plan \in Open)

IsActive(s) == subs[s].status = "active"

\* s is an active subscription of r's user to r's publication.
Duplicates(r, s) ==
    IsActive(s) /\ subs[s].user = Req[r].user /\ subs[s].pub = Req[r].pub

\* The reads and checks of each service; seen is what it goes on with.
Passes(r, seen) ==
    LET b == Req[r] IN
    CASE b.op = "create" ->
            /\ Owner[b.pub] # b.user
            /\ PlanPub[b.plan] = b.pub
            /\ Accepts(b.plan, b.amount)
            /\ \A s \in Subs : ~Duplicates(r, s)
      [] b.op = "change" ->
            /\ seen # NoSub
            /\ seen.user = b.user
            /\ seen.status = "active"
            /\ PlanPub[b.plan] = seen.pub
            /\ Accepts(b.plan, b.amount)
      [] b.op = "cancel" -> seen # NoSub /\ seen.user = b.user
      [] b.op = "gift" -> Owner[b.pub] # b.user

\* The row a change or a cancel reads.
Read(r) == IF Req[r].op \in {"change", "cancel"} THEN subs[Req[r].sub] ELSE NoSub

Check(r) ==
    /\ req[r].stage = "claimed"
    /\ \/ Passes(r, Read(r)) /\ Reach(r, "checked", Read(r))
       \/ ~Passes(r, Read(r)) /\ Refuse(r)

\* The flush of r updates its subscription row: the ORM writes the columns
\* whose value differs from the one it read, and nothing if none does.
Updates(r) ==
    LET seen == req[r].seen IN
    \/ Req[r].op = "change" /\ (seen.plan # Req[r].plan \/ seen.amount # Req[r].amount)
    \/ Req[r].op = "cancel" /\ seen.status = "active"

\* r has flushed a write of row s and not committed it.
Holds(r, s) ==
    /\ req[r].stage = "written"
    /\ Req[r].sub = s
    /\ Req[r].op = "create" \/ Updates(r)

\* Mutant: the row is read with a share lock.
BlockedByReaders(r) ==
    \E q \in Requests \ {r} :
        /\ Req[r].op \in {"change", "cancel"} /\ Updates(r)
        /\ Req[q].op \in {"change", "cancel"} /\ Req[q].sub = Req[r].sub
        /\ req[q].stage \in {"checked", "written"}

\* The flush waits for another transaction: one that has written the row it
\* updates, one that has inserted the row it would duplicate, or one that is
\* about to change such a row.
Blocked(r) ==
    \E q \in Requests \ {r} :
        \/ Req[r].op \in {"change", "cancel"} /\ Updates(r) /\ Holds(q, Req[r].sub)
        \/ /\ Req[r].op = "create"
           /\ \E s \in Subs :
                 /\ Holds(q, s)
                 /\ \/ Duplicates(r, s)
                    \/ /\ Req[q].op = "create"
                       /\ Req[q].user = Req[r].user /\ Req[q].pub = Req[r].pub

\* Mutant: there is no partial unique index.
FlushUnindexed(r) ==
    req[r].stage = "checked" /\ ~Blocked(r) /\ Reach(r, "written", req[r].seen)

\* db.flush().  A duplicate that was committed since the check violates the
\* partial unique index: the transaction is rolled back.
Flush(r) ==
    LET duplicate == Req[r].op = "create" /\ \E s \in Subs : Duplicates(r, s) IN
    /\ req[r].stage = "checked"
    /\ ~Blocked(r)
    /\ \/ duplicate /\ Refuse(r)
       \/ ~duplicate /\ Reach(r, "written", req[r].seen)

\* The row s after the writes of r; an UPDATE writes over the row as it is
\* when the lock is granted.
Created(r) == [status |-> "active", user |-> Req[r].user, pub |-> Req[r].pub,
               plan |-> Req[r].plan, amount |-> Req[r].amount,
               charged |-> Req[r].amount]

\* Mutants: the charged amount follows the tier; the old amount is kept.
ChangedCharged(r, row) ==
    [row EXCEPT !.plan = Req[r].plan, !.amount = Req[r].amount,
                !.charged = Req[r].amount]
ChangedPlanOnly(r, row) == [row EXCEPT !.plan = Req[r].plan]

Changed(r, row) ==
    LET seen == req[r].seen IN
    [row EXCEPT !.plan = IF seen.plan = Req[r].plan THEN @ ELSE Req[r].plan,
                !.amount = IF seen.amount = Req[r].amount THEN @ ELSE Req[r].amount]

Written(r, row) ==
    CASE Req[r].op = "create" -> Created(r)
      [] Req[r].op = "change" -> Changed(r, row)
      [] Req[r].op = "cancel" /\ Updates(r) -> [row EXCEPT !.status = "canceled"]
      [] OTHER -> row

\* Mutant: every cancellation is announced.
EmitsAlways(r) == TRUE

\* A cancel that read a canceled subscription emits nothing.
Emits(r) == Req[r].op = "cancel" => Updates(r)

\* db.commit() with the stored response.  The answer may be lost.
Commit(r) ==
    LET s == Req[r].sub IN
    /\ req[r].stage = "written"
    /\ subs' = [subs EXCEPT ![s] = Written(r, @)]
    /\ gifts' = IF Req[r].op = "gift" THEN gifts \union {r} ELSE gifts
    /\ keys' = [keys EXCEPT ![Req[r].key] = r]
    /\ outbox' = IF Emits(r) THEN outbox \union {r} ELSE outbox
    /\ End(r, "ok", r) \/ End(r, "lost", Nobody)

\* Mutant: the event is not part of the transaction.
AbortAfterEvent(r) ==
    /\ HoldsKey(r)
    /\ outbox' = IF req[r].stage = "written" THEN outbox \union {r} ELSE outbox
    /\ End(r, "lost", Nobody)
    /\ UNCHANGED <<subs, gifts, keys>>

\* The process dies or the database fails: everything is rolled back.
Abort(r) ==
    /\ HoldsKey(r)
    /\ End(r, "lost", Nobody)
    /\ UNCHANGED <<subs, gifts, keys, outbox>>

Step(r) == Claim(r) \/ Check(r) \/ Flush(r) \/ Commit(r)

Next == \E r \in Requests : Step(r) \/ Abort(r)

Spec == Init /\ [][Next]_vars
-----------------------------------------------------------------------------
TypeOK ==
    /\ subs \in [Subs -> Sub]
    /\ gifts \subseteq Requests
    /\ keys \in [Keys -> Requests \union {Nobody}]
    /\ outbox \subseteq Requests
    /\ req \in [Requests -> Progress]
    /\ answer \in [Requests -> Answer]

\* A user never has two active subscriptions to one publication, whatever
\* passed the duplicate check together (uq_active_subscriber_publication).
OneActivePerPair ==
    \A s, t \in Subs :
        /\ IsActive(s) /\ IsActive(t)
        /\ subs[s].user = subs[t].user /\ subs[s].pub = subs[t].pub
        => s = t

\* A key pays for one effect: every committed event belongs to the one
\* request whose response its key stores, and a stored response stands for a
\* committed effect (a cancel may have had nothing to do).
OneEffectPerKey ==
    /\ \A r \in outbox : keys[Req[r].key] = r
    /\ \A k \in Keys : keys[k] # Nobody =>
          /\ Req[keys[k]].key = k
          /\ Req[keys[k]].op # "cancel" => keys[k] \in outbox

\* Whoever is answered for a key is told of the same effect, which is
\* committed; only a different request is turned away (idempotency.claim).
AnswersAgree ==
    \A r \in Requests :
        /\ answer[r].kind \in {"ok", "replay"} =>
              answer[r].of = keys[Req[r].key] /\ SameRequest(answer[r].of, r)
        /\ answer[r].kind = "mismatch" =>
              keys[Req[r].key] # Nobody /\ ~SameRequest(keys[Req[r].key], r)

\* The events of a subscription tell its history: it exists exactly when its
\* created event is in the outbox, and is canceled exactly when a canceled
\* event is.  A gift exists exactly when its event does.
EventsMatchRows ==
    /\ \A r \in Requests : Req[r].op = "create" =>
          (r \in outbox <=> subs[Req[r].sub] # NoSub)
    /\ \A s \in Subs : subs[s].status = "canceled" <=>
          \E r \in outbox : Req[r].op = "cancel" /\ Req[r].sub = s
    /\ \A r \in Requests : Req[r].op = "gift" => (r \in outbox <=> r \in gifts)

\* What the worker's _validate_subscription_source asks of the row.
SourceAccepted(r) ==
    LET row == subs[Req[r].sub] IN
    /\ row.status \in {"active", "canceled"}
    /\ row.pub = Req[r].pub
    /\ row.charged = Req[r].amount

\* A subscription.created event that waits in the outbox or in the queue is
\* accepted by the worker however late it comes: no tier change and no
\* cancellation touches what the worker compares (charged_amount_cents).
CreatedEventsAccepted ==
    \A r \in outbox : Req[r].op = "create" => SourceAccepted(r)

\* A canceled subscription stays canceled, also under a tier change that
\* read it while it was active.
CanceledStays ==
    [][\A s \in Subs : subs[s].status = "canceled" => subs'[s].status = "canceled"]_vars

\* r need not wait for another transaction now.
CanMove(r) ==
    \/ req[r].stage = "new" /\ KeyFree(r)
    \/ req[r].stage = "checked" /\ ~Blocked(r)
    \/ req[r].stage \in {"claimed", "written"}

\* Waiting for keys, rows and index entries never becomes circular: whoever
\* holds a key, for which others may wait, can go on without a rollback, or one
\* that holds another can.
NoCircularWait ==
    (\E r \in Requests : HoldsKey(r)) => \E r \in Requests : HoldsKey(r) /\ CanMove(r)
=============================================================================
