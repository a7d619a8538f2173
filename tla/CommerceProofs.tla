--------------------------- MODULE CommerceProofs ---------------------------
(***************************************************************************)
(* The safety of the commerce services for every set of requests, keys,    *)
(* plans and subscriptions: what the unique indexes and the row locks      *)
(* guarantee although nothing is locked by a read.  And what time adds:    *)
(* Membership behaves as Commerce, so all that is proved of Commerce holds *)
(* of it; a period that was paid for gives access until its end; and what  *)
(* goes wrong for want of locks needs requests that overlap.               *)
(***************************************************************************)
EXTENDS Membership, TLAPS

(***************************************************************************)
(* The inductive invariant                                                 *)
(***************************************************************************)

\* A key is held by one request, whose predecessors have stored nothing.
KeyInv ==
    /\ \A q, r \in Requests :
          HoldsKey(q) /\ HoldsKey(r) /\ Req[q].key = Req[r].key => q = r
    /\ \A r \in Requests : HoldsKey(r) => keys[Req[r].key] = Nobody

\* What an event stands for is over.
EventsAreDone == \A r \in outbox : req[r].stage = "done"

\* A change or a cancel that has passed its checks has read a row that still
\* exists, and that is canceled if it was canceled when read.
SeenInv ==
    \A r \in Requests :
        req[r].stage \in {"checked", "written"} /\ Req[r].op \in {"change", "cancel"} =>
            /\ req[r].seen \in LiveSub
            /\ subs[Req[r].sub] # NoSub
            /\ req[r].seen.status = "canceled" => subs[Req[r].sub].status = "canceled"

SamePair(q, r) == Req[q].user = Req[r].user /\ Req[q].pub = Req[r].pub

\* A flushed create is the only one of its pair, and has no active rival.
PairInv ==
    \A q \in Requests :
        req[q].stage = "written" /\ Req[q].op = "create" =>
            /\ \A s \in Subs : ~Duplicates(q, s)
            /\ \A r \in Requests :
                  req[r].stage = "written" /\ Req[r].op = "create" /\ SamePair(q, r)
                      => q = r

\* An answer that names a response names a request.
AnswersNamed ==
    \A r \in Requests : answer[r].kind \in {"ok", "replay"} => answer[r].of \in Requests

Inv ==
    /\ TypeOK
    /\ KeyInv
    /\ EventsAreDone
    /\ SeenInv
    /\ PairInv
    /\ AnswersNamed
    /\ OneActivePerPair
    /\ OneEffectPerKey
    /\ AnswersAgree
    /\ EventsMatchRows
    /\ CreatedEventsAccepted

(***************************************************************************)
(* Rows and requests                                                       *)
(***************************************************************************)

LEMMA RowKinds ==
    /\ NoSub \notin LiveSub
    /\ NoSub.status = "none"
    /\ \A row \in Sub : row # NoSub <=> row \in LiveSub
    /\ \A row \in LiveSub : row.status \in {"active", "canceled"}
BY DEF Sub, LiveSub, NoSub

LEMMA RequestTyped ==
    ASSUME NEW r \in Requests
    PROVE  /\ Req[r] \in Request
           /\ Req[r].op \in Ops /\ Req[r].user \in Users /\ Req[r].key \in Keys
           /\ Req[r].pub \in Pubs /\ Req[r].plan \in Plans
           /\ Req[r].amount \in Nat /\ Req[r].sub \in Subs
BY CommerceAssumption DEF Request

LEMMA CreatedIsLive ==
    ASSUME NEW r \in Requests
    PROVE  /\ Created(r) \in LiveSub
           /\ Created(r).status = "active"
           /\ Created(r).user = Req[r].user
           /\ Created(r).pub = Req[r].pub
           /\ Created(r).charged = Req[r].amount
BY RequestTyped DEF Created, LiveSub

\* A tier change leaves the status, the pair and the charged amount alone.
LEMMA ChangedIsLive ==
    ASSUME NEW r \in Requests, NEW row \in LiveSub
    PROVE  /\ Changed(r, row) \in LiveSub
           /\ Changed(r, row).status = row.status
           /\ Changed(r, row).user = row.user
           /\ Changed(r, row).pub = row.pub
           /\ Changed(r, row).charged = row.charged
<1> DEFINE plan == IF req[r].seen.plan = Req[r].plan THEN row.plan ELSE Req[r].plan
           amount == IF req[r].seen.amount = Req[r].amount THEN row.amount ELSE Req[r].amount
<1>1. plan \in Plans /\ amount \in Nat
  BY RequestTyped DEF LiveSub
<1>2. Changed(r, row) = [row EXCEPT !.plan = plan, !.amount = amount]
  BY DEF Changed
<1> HIDE DEF plan, amount
<1> QED
  BY <1>1, <1>2 DEF LiveSub

LEMMA CanceledIsLive ==
    ASSUME NEW row \in LiveSub
    PROVE  LET new == [row EXCEPT !.status = "canceled"] IN
           /\ new \in LiveSub
           /\ new.status = "canceled"
           /\ new.user = row.user /\ new.pub = row.pub /\ new.charged = row.charged
BY DEF LiveSub

(***************************************************************************)
(* Steps that commit nothing                                               *)
(***************************************************************************)

\* What a step of r that commits nothing must establish for the stage it
\* reaches and for the answer it gives.
Established(r, stage, seen, told) ==
    /\ stage \in {"claimed", "checked", "written"} =>
          HoldsKey(r) \/ (KeyFree(r) /\ keys[Req[r].key] = Nobody)
    /\ stage \in {"checked", "written"} /\ Req[r].op \in {"change", "cancel"} =>
          /\ seen \in LiveSub
          /\ subs[Req[r].sub] # NoSub
          /\ seen.status = "canceled" => subs[Req[r].sub].status = "canceled"
    /\ stage = "written" /\ Req[r].op = "create" =>
          /\ \A s \in Subs : ~Duplicates(r, s)
          /\ \A q \in Requests :
                req[q].stage = "written" /\ Req[q].op = "create" /\ SamePair(q, r)
                    => q = r
    /\ told.kind \in {"ok", "replay"} =>
          /\ told.of \in Requests
          /\ told.of = keys[Req[r].key] /\ SameRequest(told.of, r)
    /\ told.kind = "mismatch" =>
          keys[Req[r].key] # Nobody /\ ~SameRequest(keys[Req[r].key], r)

LEMMA LocalKeeps ==
    ASSUME Inv, NEW r \in Requests, NEW stage \in Stages, NEW seen \in Sub,
           NEW told \in Answer,
           req' = [req EXCEPT ![r] = [stage |-> stage, seen |-> seen]],
           answer' = [answer EXCEPT ![r] = told],
           UNCHANGED <<subs, gifts, keys, outbox>>,
           req[r].stage # "done",
           Established(r, stage, seen, told)
    PROVE  Inv'
<1> DEFINE new == [stage |-> stage, seen |-> seen]
<1>1. new \in Progress /\ new.stage = stage /\ new.seen = seen
  BY DEF Progress
<1>2. req \in [Requests -> Progress] /\ answer \in [Requests -> Answer]
  BY DEF Inv, TypeOK
<1>3. \A q \in Requests : req'[q] = IF q = r THEN new ELSE req[q]
  BY <1>2
<1>4. \A q \in Requests : answer'[q] = IF q = r THEN told ELSE answer[q]
  BY <1>2
<1>5. req' \in [Requests -> Progress] /\ answer' \in [Requests -> Answer]
  BY <1>1, <1>2
<1> HIDE DEF new
<1>6. TypeOK'
  BY <1>5 DEF Inv, TypeOK
<1>7. \A q \in Requests : HoldsKey(q)' <=> IF q = r THEN stage \in {"claimed", "checked", "written"}
                                                 ELSE HoldsKey(q)
  BY <1>1, <1>3 DEF HoldsKey
<1>8. KeyInv'
  <2>1. ASSUME NEW p \in Requests, NEW q \in Requests,
               HoldsKey(p)', HoldsKey(q)', Req[p].key = Req[q].key
        PROVE  p = q
    <3>1. CASE p = r /\ q # r
      BY <1>7, <2>1, <3>1 DEF Inv, KeyInv, Established, KeyFree
    <3>2. CASE p # r /\ q = r
      BY <1>7, <2>1, <3>2 DEF Inv, KeyInv, Established, KeyFree
    <3>3. CASE p # r /\ q # r
      BY <1>7, <2>1, <3>3 DEF Inv, KeyInv
    <3> QED
      BY <3>1, <3>2, <3>3
  <2>2. ASSUME NEW q \in Requests, HoldsKey(q)'
        PROVE  keys[Req[q].key]' = Nobody
    <3>1. CASE q = r
      BY <1>7, <2>2, <3>1 DEF Inv, KeyInv, Established
    <3>2. CASE q # r
      BY <1>7, <2>2, <3>2 DEF Inv, KeyInv
    <3> QED
      BY <3>1, <3>2
  <2> QED
    BY <2>1, <2>2 DEF KeyInv
<1>9. EventsAreDone'
  <2>1. r \notin outbox /\ outbox' = outbox /\ outbox \subseteq Requests
    BY DEF Inv, EventsAreDone, TypeOK
  <2> QED
    BY <1>3, <2>1 DEF Inv, EventsAreDone
<1>10. SeenInv'
  <2> SUFFICES ASSUME NEW q \in Requests,
                      req'[q].stage \in {"checked", "written"}, Req[q].op \in {"change", "cancel"}
               PROVE  /\ req'[q].seen \in LiveSub
                      /\ subs[Req[q].sub] # NoSub
                      /\ req'[q].seen.status = "canceled" => subs[Req[q].sub].status = "canceled"
    BY DEF SeenInv
  <2>1. CASE q = r
    BY <1>1, <1>3, <2>1 DEF Established
  <2>2. CASE q # r
    BY <1>3, <2>2 DEF Inv, SeenInv
  <2> QED
    BY <2>1, <2>2
<1>11. \A q \in Requests, s \in Subs : Duplicates(q, s)' <=> Duplicates(q, s)
  BY DEF Duplicates, IsActive
<1>12. PairInv'
  <2>1. ASSUME NEW q \in Requests, req'[q].stage = "written", Req[q].op = "create"
        PROVE  \A s \in Subs : ~Duplicates(q, s)
    <3>1. CASE q = r
      BY <1>1, <1>3, <2>1, <3>1 DEF Established
    <3>2. CASE q # r
      BY <1>3, <2>1, <3>2 DEF Inv, PairInv
    <3> QED
      BY <3>1, <3>2
  <2>2. ASSUME NEW p \in Requests, req'[p].stage = "written", Req[p].op = "create",
               NEW q \in Requests, req'[q].stage = "written", Req[q].op = "create",
               SamePair(p, q)
        PROVE  p = q
    <3>1. CASE p = r /\ q # r
      BY <1>1, <1>3, <2>2, <3>1 DEF Established, SamePair
    <3>2. CASE p # r /\ q = r
      BY <1>1, <1>3, <2>2, <3>2 DEF Established
    <3>3. CASE p # r /\ q # r
      BY <1>3, <2>2, <3>3 DEF Inv, PairInv
    <3> QED
      BY <3>1, <3>2, <3>3
  <2> QED
    BY <1>11, <2>1, <2>2 DEF PairInv, SamePair
<1>13. AnswersNamed' /\ AnswersAgree'
  <2>1. keys' = keys
    OBVIOUS
  <2>2. ASSUME NEW q \in Requests
        PROVE  /\ answer'[q].kind \in {"ok", "replay"} =>
                     /\ answer'[q].of \in Requests
                     /\ answer'[q].of = keys[Req[q].key] /\ SameRequest(answer'[q].of, q)
               /\ answer'[q].kind = "mismatch" =>
                     keys[Req[q].key] # Nobody /\ ~SameRequest(keys[Req[q].key], q)
    <3>1. CASE q = r
      BY <1>4, <3>1 DEF Established
    <3>2. CASE q # r
      BY <1>4, <3>2 DEF Inv, AnswersNamed, AnswersAgree
    <3> QED
      BY <3>1, <3>2
  <2> QED
    BY <2>1, <2>2 DEF AnswersNamed, AnswersAgree, SameRequest
<1>14. OneActivePerPair' /\ OneEffectPerKey' /\ EventsMatchRows' /\ CreatedEventsAccepted'
  BY DEF Inv, OneActivePerPair, OneEffectPerKey, EventsMatchRows, CreatedEventsAccepted,
         IsActive, SourceAccepted
<1> QED
  BY <1>6, <1>8, <1>9, <1>10, <1>12, <1>13, <1>14 DEF Inv

\* A step that reaches a stage and answers nothing.
LEMMA ReachKeeps ==
    ASSUME Inv, NEW r \in Requests, NEW stage \in Stages, NEW seen \in Sub,
           Reach(r, stage, seen), req[r].stage # "done",
           Established(r, stage, seen, NoAnswer)
    PROVE  Inv'
<1>1. answer \in [Requests -> Answer]
  BY DEF Inv, TypeOK
<1>2. answer[r] \in Answer /\ answer' = [answer EXCEPT ![r] = answer[r]]
  BY <1>1 DEF Reach
<1>3. /\ answer[r].kind \in {"ok", "replay"} =>
             /\ answer[r].of \in Requests
             /\ answer[r].of = keys[Req[r].key] /\ SameRequest(answer[r].of, r)
      /\ answer[r].kind = "mismatch" =>
             keys[Req[r].key] # Nobody /\ ~SameRequest(keys[Req[r].key], r)
  BY DEF Inv, AnswersNamed, AnswersAgree
<1>4. Established(r, stage, seen, answer[r])
  BY <1>3 DEF Established
<1>5. /\ req' = [req EXCEPT ![r] = [stage |-> stage, seen |-> seen]]
      /\ UNCHANGED <<subs, gifts, keys, outbox>>
  BY DEF Reach
<1> QED
  BY <1>2, <1>4, <1>5, LocalKeeps

\* A step that ends the request without a commit.
LEMMA EndKeeps ==
    ASSUME Inv, NEW r \in Requests, NEW kind, NEW of,
           [kind |-> kind, of |-> of] \in Answer,
           End(r, kind, of), UNCHANGED <<subs, gifts, keys, outbox>>,
           req[r].stage # "done",
           Established(r, "done", NoSub, [kind |-> kind, of |-> of])
    PROVE  Inv'
BY LocalKeeps DEF End, Stages, Sub

LEMMA RefuseKeeps ==
    ASSUME Inv, NEW r \in Requests, Refuse(r), req[r].stage # "done"
    PROVE  Inv'
<1>1. [kind |-> "refused", of |-> Nobody] \in Answer
  BY DEF Answer
<1>2. Established(r, "done", NoSub, [kind |-> "refused", of |-> Nobody])
  BY DEF Established
<1> QED
  BY <1>1, <1>2, EndKeeps DEF Refuse

LEMMA AbortKeeps ==
    ASSUME Inv, NEW r \in Requests, Abort(r)
    PROVE  Inv'
<1>1. [kind |-> "lost", of |-> Nobody] \in Answer
  BY DEF Answer
<1>2. Established(r, "done", NoSub, [kind |-> "lost", of |-> Nobody])
  BY DEF Established
<1>3. req[r].stage # "done"
  BY DEF Abort, HoldsKey
<1> QED
  BY <1>1, <1>2, <1>3, EndKeeps DEF Abort

LEMMA ClaimKeeps ==
    ASSUME Inv, NEW r \in Requests, Claim(r)
    PROVE  Inv'
<1> DEFINE owner == keys[Req[r].key]
<1>1. owner \in Requests \union {Nobody} /\ req[r].stage = "new" /\ KeyFree(r)
  BY RequestTyped DEF Inv, TypeOK, Claim
<1>2. CASE owner = Nobody /\ Reach(r, "claimed", NoSub)
  <2>1. Established(r, "claimed", NoSub, NoAnswer)
    BY <1>1, <1>2 DEF Established, NoAnswer
  <2>2. "claimed" \in Stages /\ NoSub \in Sub
    BY DEF Stages, Sub
  <2> QED
    BY <1>1, <1>2, <2>1, <2>2, ReachKeeps
<1>3. CASE /\ owner # Nobody /\ SameRequest(owner, r)
           /\ End(r, "replay", owner) /\ UNCHANGED <<subs, gifts, keys, outbox>>
  <2>1. [kind |-> "replay", of |-> owner] \in Answer
    BY <1>1 DEF Answer
  <2>2. Established(r, "done", NoSub, [kind |-> "replay", of |-> owner])
    BY <1>1, <1>3 DEF Established
  <2> QED
    BY <1>1, <1>3, <2>1, <2>2, EndKeeps
<1>4. CASE /\ owner # Nobody /\ ~SameRequest(owner, r)
           /\ End(r, "mismatch", Nobody) /\ UNCHANGED <<subs, gifts, keys, outbox>>
  <2>1. [kind |-> "mismatch", of |-> Nobody] \in Answer
    BY DEF Answer
  <2>2. Established(r, "done", NoSub, [kind |-> "mismatch", of |-> Nobody])
    BY <1>4 DEF Established
  <2> QED
    BY <1>1, <1>4, <2>1, <2>2, EndKeeps
<1> QED
  BY <1>2, <1>3, <1>4 DEF Claim

LEMMA CheckKeeps ==
    ASSUME Inv, NEW r \in Requests, Check(r)
    PROVE  Inv'
<1>1. req[r].stage = "claimed"
  BY DEF Check
<1>2. CASE Passes(r, Read(r)) /\ Reach(r, "checked", Read(r))
  <2>1. Req[r].sub \in Subs /\ Req[r].op \in Ops
    BY RequestTyped
  <2>2. Read(r) \in Sub
    BY <2>1 DEF Inv, TypeOK, Read, Sub
  <2>3. Req[r].op \in {"change", "cancel"} =>
            /\ Read(r) = subs[Req[r].sub] /\ Read(r) # NoSub
            /\ Read(r) \in LiveSub
    <3>1. CASE Req[r].op = "change"
      BY <1>2, <2>2, <3>1, RowKinds DEF Passes, Read
    <3>2. CASE Req[r].op = "cancel"
      BY <1>2, <2>2, <3>2, RowKinds DEF Passes, Read
    <3> QED
      BY <3>1, <3>2
  <2>4. HoldsKey(r)
    BY <1>1 DEF HoldsKey
  <2>5. Established(r, "checked", Read(r), NoAnswer)
    BY <2>3, <2>4 DEF Established, NoAnswer
  <2> QED
    BY <1>1, <1>2, <2>2, <2>5, ReachKeeps DEF Stages
<1>3. CASE Refuse(r)
  BY <1>1, <1>3, RefuseKeeps
<1> QED
  BY <1>2, <1>3 DEF Check

LEMMA FlushKeeps ==
    ASSUME Inv, NEW r \in Requests, Flush(r)
    PROVE  Inv'
<1>1. req[r].stage = "checked" /\ ~Blocked(r)
  BY DEF Flush
<1>2. CASE Refuse(r)
  BY <1>1, <1>2, RefuseKeeps
<1>3. CASE /\ ~(Req[r].op = "create" /\ \E s \in Subs : Duplicates(r, s))
           /\ Reach(r, "written", req[r].seen)
  <2>1. req[r].seen \in Sub /\ HoldsKey(r)
    BY <1>1 DEF Inv, TypeOK, Progress, HoldsKey
  <2>2. Req[r].op \in {"change", "cancel"} =>
            /\ req[r].seen \in LiveSub
            /\ subs[Req[r].sub] # NoSub
            /\ req[r].seen.status = "canceled" => subs[Req[r].sub].status = "canceled"
    BY <1>1 DEF Inv, SeenInv
  <2>3. ASSUME Req[r].op = "create", NEW q \in Requests,
               req[q].stage = "written", Req[q].op = "create", SamePair(q, r), q # r
        PROVE  FALSE
    <3>1. Req[q].sub \in Subs /\ Holds(q, Req[q].sub)
      BY <2>3, RequestTyped DEF Holds
    <3>2. Blocked(r)
      BY <2>3, <3>1 DEF Blocked, SamePair
    <3> QED
      BY <1>1, <3>2
  <2>4. Established(r, "written", req[r].seen, NoAnswer)
    BY <1>3, <2>1, <2>2, <2>3 DEF Established, NoAnswer
  <2> QED
    BY <1>1, <1>3, <2>1, <2>4, ReachKeeps DEF Stages
<1> QED
  BY <1>2, <1>3 DEF Flush

(***************************************************************************)
(* The commit                                                              *)
(***************************************************************************)

\* What a commit writes over the row it finds.
LEMMA WrittenRow ==
    ASSUME Inv, NEW r \in Requests, req[r].stage = "written",
           NEW row \in Sub, row = subs[Req[r].sub],
           NEW new, new = Written(r, row)
    PROVE  /\ new \in Sub
           /\ Req[r].op = "create" => row = NoSub /\ new = Created(r)
           /\ Req[r].op # "create" =>
                 /\ new # NoSub <=> row # NoSub
                 /\ row # NoSub =>
                       new.user = row.user /\ new.pub = row.pub /\ new.charged = row.charged
                 /\ new.status = "active" => row.status = "active"
                 /\ new.status = "canceled" <=> row.status = "canceled" \/ Req[r].op = "cancel"
           /\ Req[r].op = "cancel" /\ ~Updates(r) => row.status = "canceled"
<1>1. r \notin outbox
  BY DEF Inv, EventsAreDone
<1>2. CASE Req[r].op = "create"
  <2>1. row = NoSub
    BY <1>1, <1>2 DEF Inv, EventsMatchRows
  <2>2. new = Created(r)
    BY <1>2 DEF Written
  <2> QED
    BY <1>2, <2>1, <2>2, CreatedIsLive, RowKinds DEF Sub
<1>3. CASE Req[r].op = "change"
  <2>1. row \in LiveSub
    BY <1>3, RowKinds DEF Inv, SeenInv
  <2>2. new = Changed(r, row)
    BY <1>3 DEF Written
  <2> QED
    BY <1>3, <2>1, <2>2, ChangedIsLive, RowKinds DEF Sub
<1>4. CASE Req[r].op = "cancel"
  <2>1. row \in LiveSub /\ req[r].seen \in LiveSub
    BY <1>4, RowKinds DEF Inv, SeenInv
  <2>2. CASE Updates(r)
    <3>1. new = [row EXCEPT !.status = "canceled"]
      BY <1>4, <2>2 DEF Written
    <3> QED
      BY <1>4, <2>1, <2>2, <3>1, CanceledIsLive, RowKinds DEF Sub
  <2>3. CASE ~Updates(r)
    <3>1. new = row
      BY <1>4, <2>3 DEF Written
    <3>2. req[r].seen.status = "canceled"
      BY <1>4, <2>1, <2>3, RowKinds DEF Updates
    <3>3. row.status = "canceled"
      BY <1>4, <3>2 DEF Inv, SeenInv
    <3> QED
      BY <1>4, <2>1, <3>1, <3>3, RowKinds
  <2> QED
    BY <2>2, <2>3
<1>5. CASE Req[r].op = "gift"
  <2>1. new = row
    BY <1>5 DEF Written
  <2> QED
    BY <1>5, <2>1
<1> QED
  BY <1>2, <1>3, <1>4, <1>5, RequestTyped DEF Ops

LEMMA CommitKeeps ==
    ASSUME Inv, NEW r \in Requests, Commit(r)
    PROVE  Inv'
<1> DEFINE key == Req[r].key
           emitted == IF Emits(r) THEN {r} ELSE {}
<1>1. PICK s \in Subs : s = Req[r].sub
  BY RequestTyped
<1>2. PICK row \in Sub : row = subs[s]
  BY DEF Inv, TypeOK
<1>3. PICK new \in Sub : new = Written(r, row)
  BY <1>1, <1>2, WrittenRow DEF Commit
<1>4. PICK told \in Answer :
          /\ answer' = [answer EXCEPT ![r] = told]
          /\ told.kind \in {"ok", "lost"}
          /\ told.kind = "ok" => told.of = r
  <2>1. [kind |-> "ok", of |-> r] \in Answer /\ [kind |-> "lost", of |-> Nobody] \in Answer
    BY DEF Answer
  <2> QED
    BY <2>1 DEF Commit, End
<1>5. /\ req[r].stage = "written" /\ r \notin outbox
      /\ Req[r].op = "create" => row = NoSub /\ new = Created(r)
      /\ Req[r].op # "create" =>
             /\ new # NoSub <=> row # NoSub
             /\ row # NoSub =>
                   new.user = row.user /\ new.pub = row.pub /\ new.charged = row.charged
             /\ new.status = "active" => row.status = "active"
             /\ new.status = "canceled" <=> row.status = "canceled" \/ Req[r].op = "cancel"
      /\ Req[r].op = "cancel" /\ ~Updates(r) => row.status = "canceled"
  BY <1>1, <1>2, <1>3, WrittenRow DEF Commit, Inv, EventsAreDone
<1>6. /\ subs \in [Subs -> Sub] /\ keys \in [Keys -> Requests \union {Nobody}]
      /\ req \in [Requests -> Progress] /\ answer \in [Requests -> Answer]
      /\ gifts \subseteq Requests /\ outbox \subseteq Requests /\ key \in Keys
  BY RequestTyped DEF Inv, TypeOK
<1>7. /\ subs' = [subs EXCEPT ![s] = new]
      /\ keys' = [keys EXCEPT ![key] = r]
      /\ gifts' = IF Req[r].op = "gift" THEN gifts \union {r} ELSE gifts
      /\ outbox' = outbox \union emitted
      /\ req' = [req EXCEPT ![r] = [stage |-> "done", seen |-> NoSub]]
  BY <1>1, <1>2, <1>3 DEF Commit, End
<1>8. \A t \in Subs : subs'[t] = IF t = s THEN new ELSE subs[t]
  BY <1>6, <1>7
<1>9. \A k \in Keys : keys'[k] = IF k = key THEN r ELSE keys[k]
  BY <1>6, <1>7
<1>10. \A q \in Requests : q # r => req'[q] = req[q] /\ answer'[q] = answer[q]
  BY <1>4, <1>6, <1>7
<1>11. req'[r].stage = "done" /\ answer'[r] = told
  BY <1>4, <1>6, <1>7
<1>12. HoldsKey(r) /\ keys[key] = Nobody
  BY <1>5 DEF HoldsKey, Inv, KeyInv
<1>13. emitted \subseteq {r} /\ (Req[r].op # "cancel" => emitted = {r})
  BY DEF Emits
<1>14. emitted = {} => Req[r].op = "cancel" /\ row.status = "canceled"
  BY <1>5 DEF Emits
<1>15. \A q \in Requests : Req[q].op = "create" /\ r # q /\ Req[r].op = "create"
             => Req[q].sub # s
  BY <1>1, CommerceAssumption
<1> HIDE DEF key, emitted
<1>16. TypeOK'
  <2>1. [stage |-> "done", seen |-> NoSub] \in Progress
    BY DEF Progress, Stages, Sub
  <2>2. req' \in [Requests -> Progress] /\ answer' \in [Requests -> Answer]
    BY <1>4, <1>6, <1>7, <2>1
  <2>3. subs' \in [Subs -> Sub] /\ keys' \in [Keys -> Requests \union {Nobody}]
    BY <1>6, <1>7
  <2>4. gifts' \subseteq Requests /\ outbox' \subseteq Requests
    BY <1>6, <1>7, <1>13
  <2> QED
    BY <2>2, <2>3, <2>4 DEF TypeOK
<1>17. \A q \in Requests : HoldsKey(q)' <=> q # r /\ HoldsKey(q)
  BY <1>10, <1>11 DEF HoldsKey
<1>18. KeyInv'
  <2>1. ASSUME NEW p \in Requests, NEW q \in Requests,
               HoldsKey(p)', HoldsKey(q)', Req[p].key = Req[q].key
        PROVE  p = q
    BY <1>17, <2>1 DEF Inv, KeyInv
  <2>2. ASSUME NEW q \in Requests, HoldsKey(q)'
        PROVE  keys'[Req[q].key] = Nobody
    <3>1. q # r /\ HoldsKey(q) /\ Req[q].key # key
      BY <1>12, <1>17, <2>2 DEF Inv, KeyInv, key
    <3> QED
      BY <1>9, <3>1, RequestTyped DEF Inv, KeyInv
  <2> QED
    BY <2>1, <2>2 DEF KeyInv
<1>19. EventsAreDone'
  BY <1>7, <1>10, <1>11, <1>13, <1>6 DEF Inv, EventsAreDone
<1>20. SeenInv'
  <2> SUFFICES ASSUME NEW q \in Requests,
                      req'[q].stage \in {"checked", "written"}, Req[q].op \in {"change", "cancel"}
               PROVE  /\ req'[q].seen \in LiveSub
                      /\ subs'[Req[q].sub] # NoSub
                      /\ req'[q].seen.status = "canceled" => subs'[Req[q].sub].status = "canceled"
    BY DEF SeenInv
  <2>1. q # r /\ req'[q] = req[q]
    BY <1>10, <1>11
  <2>2. /\ req[q].seen \in LiveSub
        /\ subs[Req[q].sub] # NoSub
        /\ req[q].seen.status = "canceled" => subs[Req[q].sub].status = "canceled"
    BY <2>1 DEF Inv, SeenInv
  <2>3. CASE Req[q].sub = s
    <3>1. row # NoSub /\ Req[r].op # "create" /\ subs'[s] = new
      BY <1>2, <1>5, <1>8, <2>2, <2>3
    <3> QED
      BY <1>2, <1>5, <2>1, <2>2, <2>3, <3>1
  <2>4. CASE Req[q].sub # s
    BY <1>8, <2>1, <2>2, <2>4, RequestTyped
  <2> QED
    BY <2>3, <2>4
<1>21. new.status = "active" =>
           \/ Req[r].op = "create" /\ new.user = Req[r].user /\ new.pub = Req[r].pub
           \/ /\ row # NoSub /\ row.status = "active"
              /\ new.user = row.user /\ new.pub = row.pub
  BY <1>5, CreatedIsLive, RowKinds
<1>22. PairInv'
  <2>1. ASSUME NEW q \in Requests, req'[q].stage = "written", Req[q].op = "create",
               NEW t \in Subs, subs'[t].status = "active",
               subs'[t].user = Req[q].user, subs'[t].pub = Req[q].pub
        PROVE  FALSE
    <3>1. q # r /\ req[q].stage = "written"
      BY <1>10, <1>11, <2>1
    <3>2. ~Duplicates(q, t)
      BY <2>1, <3>1 DEF Inv, PairInv
    <3>3. t = s
      BY <1>8, <2>1, <3>2 DEF Duplicates, IsActive
    <3>4. CASE Req[r].op = "create" /\ new.user = Req[r].user /\ new.pub = Req[r].pub
      BY <1>5, <1>8, <2>1, <3>1, <3>3, <3>4 DEF Inv, PairInv, SamePair
    <3>5. CASE row.status = "active" /\ new.user = row.user /\ new.pub = row.pub
      BY <1>2, <1>8, <2>1, <3>2, <3>3, <3>5 DEF Duplicates, IsActive
    <3> QED
      BY <1>8, <1>21, <2>1, <3>3, <3>4, <3>5
  <2>2. ASSUME NEW p \in Requests, req'[p].stage = "written", Req[p].op = "create",
               NEW q \in Requests, req'[q].stage = "written", Req[q].op = "create",
               SamePair(p, q)
        PROVE  p = q
    <3>1. req[p].stage = "written" /\ req[q].stage = "written"
      BY <1>10, <1>11, <2>2
    <3> QED
      BY <2>2, <3>1 DEF Inv, PairInv
  <2> QED
    BY <2>1, <2>2 DEF PairInv, Duplicates, IsActive, SamePair
<1>23. AnswersNamed' /\ AnswersAgree'
  <2>1. ASSUME NEW q \in Requests
        PROVE  /\ answer'[q].kind \in {"ok", "replay"} =>
                     /\ answer'[q].of \in Requests
                     /\ answer'[q].of = keys'[Req[q].key] /\ SameRequest(answer'[q].of, q)
               /\ answer'[q].kind = "mismatch" =>
                     keys'[Req[q].key] # Nobody /\ ~SameRequest(keys'[Req[q].key], q)
    <3>1. CASE q = r
      BY <1>4, <1>6, <1>9, <1>11, <3>1 DEF SameRequest, key
    <3>2. CASE q # r
      <4>1. answer'[q] = answer[q]
        BY <1>10, <3>2
      <4>2. CASE answer[q].kind \in {"ok", "replay", "mismatch"}
        <5>1. keys[Req[q].key] # Nobody
          BY <4>2, CommerceAssumption DEF Inv, AnswersNamed, AnswersAgree
        <5>2. keys'[Req[q].key] = keys[Req[q].key]
          BY <1>9, <1>12, <5>1, RequestTyped
        <5> QED
          BY <4>1, <4>2, <5>2 DEF Inv, AnswersNamed, AnswersAgree
      <4> QED
        BY <4>1, <4>2
    <3> QED
      BY <3>1, <3>2
  <2> QED
    BY <2>1 DEF AnswersNamed, AnswersAgree, SameRequest
<1>24. OneActivePerPair'
  <2>1. ASSUME NEW t \in Subs, NEW u \in Subs, t # u, t = s,
               subs'[t].status = "active", subs'[u].status = "active",
               subs'[t].user = subs'[u].user, subs'[t].pub = subs'[u].pub
        PROVE  FALSE
    <3>1. subs'[t] = new /\ subs'[u] = subs[u]
      BY <1>8, <2>1
    <3>2. CASE Req[r].op = "create" /\ new.user = Req[r].user /\ new.pub = Req[r].pub
      <4>1. Duplicates(r, u)
        BY <2>1, <3>1, <3>2 DEF Duplicates, IsActive
      <4> QED
        BY <1>5, <3>2, <4>1 DEF Inv, PairInv
    <3>3. CASE row.status = "active" /\ new.user = row.user /\ new.pub = row.pub
      BY <1>2, <2>1, <3>1, <3>3 DEF Inv, OneActivePerPair, IsActive
    <3> QED
      BY <1>21, <2>1, <3>1, <3>2, <3>3
  <2>2. ASSUME NEW t \in Subs, NEW u \in Subs, t # u,
               subs'[t].status = "active", subs'[u].status = "active",
               subs'[t].user = subs'[u].user, subs'[t].pub = subs'[u].pub
        PROVE  FALSE
    <3>1. CASE t = s
      BY <2>1, <2>2, <3>1
    <3>2. CASE u = s
      BY <2>1, <2>2, <3>2
    <3>3. CASE t # s /\ u # s
      BY <1>8, <2>2, <3>3 DEF Inv, OneActivePerPair, IsActive
    <3> QED
      BY <3>1, <3>2, <3>3
  <2> QED
    BY <2>2 DEF OneActivePerPair, IsActive
<1>25. OneEffectPerKey'
  <2>1. ASSUME NEW q \in outbox' PROVE keys'[Req[q].key] = q
    <3>1. CASE q = r
      BY <1>6, <1>9, <3>1 DEF key
    <3>2. CASE q \in outbox
      <4>1. keys[Req[q].key] = q /\ q \in Requests /\ q # Nobody
        BY <1>6, <3>2, CommerceAssumption DEF Inv, OneEffectPerKey
      <4> QED
        BY <1>9, <1>12, <4>1, RequestTyped
    <3> QED
      BY <1>7, <1>13, <3>1, <3>2
  <2>2. ASSUME NEW k \in Keys, keys'[k] # Nobody
        PROVE  /\ Req[keys'[k]].key = k
               /\ Req[keys'[k]].op # "cancel" => keys'[k] \in outbox'
    <3>1. CASE k = key
      BY <1>7, <1>9, <1>13, <3>1 DEF key
    <3>2. CASE k # key
      BY <1>7, <1>9, <2>2, <3>2 DEF Inv, OneEffectPerKey
    <3> QED
      BY <3>1, <3>2
  <2> QED
    BY <2>1, <2>2 DEF OneEffectPerKey
<1>26. EventsMatchRows'
  <2>1. ASSUME NEW q \in Requests, Req[q].op = "create"
        PROVE  q \in outbox' <=> subs'[Req[q].sub] # NoSub
    <3>1. CASE q = r
      <4>1. q \in outbox' /\ subs'[Req[q].sub] = Created(r)
        BY <1>1, <1>5, <1>7, <1>8, <1>13, <2>1, <3>1
      <4> QED
        BY <4>1, CreatedIsLive, RowKinds
    <3>2. CASE q # r
      <4>1. q \in outbox' <=> q \in outbox
        BY <1>7, <1>13, <3>2
      <4>2. subs'[Req[q].sub] # NoSub <=> subs[Req[q].sub] # NoSub
        BY <1>2, <1>5, <1>8, <1>15, <2>1, <3>2, RequestTyped
      <4> QED
        BY <2>1, <4>1, <4>2 DEF Inv, EventsMatchRows
    <3> QED
      BY <3>1, <3>2
  <2>2. ASSUME NEW t \in Subs
        PROVE  subs'[t].status = "canceled" <=>
                  \E q \in outbox' : Req[q].op = "cancel" /\ Req[q].sub = t
    <3>1. subs[t].status = "canceled" <=>
             \E q \in outbox : Req[q].op = "cancel" /\ Req[q].sub = t
      BY DEF Inv, EventsMatchRows
    <3>2. CASE t # s
      BY <1>1, <1>7, <1>8, <1>13, <3>1, <3>2
    <3>3. CASE t = s /\ Req[r].op = "cancel"
      <4>1. subs'[t].status = "canceled"
        BY <1>5, <1>8, <3>3
      <4>2. CASE emitted = {}
        BY <1>2, <1>7, <1>14, <3>1, <3>3, <4>1, <4>2
      <4>3. CASE r \in emitted
        BY <1>1, <1>7, <3>3, <4>1, <4>3
      <4> QED
        BY <1>13, <4>2, <4>3
    <3>4. CASE t = s /\ Req[r].op # "cancel"
      <4>1. subs'[t].status = "canceled" <=> row.status = "canceled"
        <5>1. CASE Req[r].op = "create"
          BY <1>5, <1>8, <3>4, <5>1, CreatedIsLive, RowKinds
        <5>2. CASE Req[r].op # "create"
          BY <1>5, <1>8, <3>4, <5>2
        <5> QED
          BY <5>1, <5>2
      <4> QED
        BY <1>2, <1>7, <1>13, <3>1, <3>4, <4>1
    <3> QED
      BY <3>2, <3>3, <3>4
  <2>3. ASSUME NEW q \in Requests, Req[q].op = "gift"
        PROVE  q \in outbox' <=> q \in gifts'
    BY <1>7, <1>13, <2>3 DEF Inv, EventsMatchRows
  <2> QED
    BY <2>1, <2>2, <2>3 DEF EventsMatchRows
<1>27. CreatedEventsAccepted'
  <2> SUFFICES ASSUME NEW q \in outbox', Req[q].op = "create"
               PROVE  SourceAccepted(q)'
    BY DEF CreatedEventsAccepted
  <2>1. q \in Requests
    BY <1>6, <1>7, <1>13
  <2>2. CASE q = r
    <3>1. subs'[Req[q].sub] = Created(r)
      BY <1>1, <1>5, <1>8, <2>2
    <3> QED
      BY <2>2, <3>1, CreatedIsLive DEF SourceAccepted
  <2>3. CASE q # r
    <3>1. q \in outbox /\ SourceAccepted(q)
      BY <1>7, <1>13, <2>3 DEF Inv, CreatedEventsAccepted
    <3>2. CASE Req[q].sub # s
      BY <1>8, <2>1, <3>1, <3>2, RequestTyped DEF SourceAccepted
    <3>3. CASE Req[q].sub = s
      <4>1. Req[r].op # "create" /\ row.status \in {"active", "canceled"} /\ row # NoSub
        BY <1>2, <1>15, <2>1, <2>3, <3>1, <3>3, RowKinds DEF SourceAccepted
      <4>2. /\ new.pub = row.pub /\ new.charged = row.charged
            /\ new # NoSub
        BY <1>5, <4>1
      <4>3. new.status \in {"active", "canceled"}
        BY <4>2, RowKinds
      <4> QED
        BY <1>2, <1>8, <3>1, <3>3, <4>2, <4>3 DEF SourceAccepted
    <3> QED
      BY <3>2, <3>3
  <2> QED
    BY <2>2, <2>3
<1> QED
  BY <1>16, <1>18, <1>19, <1>20, <1>22, <1>23, <1>24, <1>25, <1>26, <1>27 DEF Inv

(***************************************************************************)
(* The theorems                                                            *)
(***************************************************************************)

LEMMA InitHolds == Init => Inv
<1> SUFFICES ASSUME Init PROVE Inv
  OBVIOUS
<1> USE DEF Init
<1>1. TypeOK
  BY DEF TypeOK, Sub, Progress, Stages, NoAnswer, Answer
<1>2. \A s \in Subs : subs[s] = NoSub /\ subs[s].status = "none"
  BY RowKinds
<1>3. \A r \in Requests : req[r].stage = "new" /\ answer[r].kind = "none" /\ r \notin outbox
  BY DEF NoAnswer
<1>4. KeyInv
  BY <1>3 DEF KeyInv, HoldsKey
<1>5. EventsAreDone /\ CreatedEventsAccepted
  BY DEF EventsAreDone, CreatedEventsAccepted
<1>6. SeenInv /\ PairInv /\ AnswersNamed /\ AnswersAgree
  BY <1>3 DEF SeenInv, PairInv, AnswersNamed, AnswersAgree
<1>7. OneActivePerPair
  BY <1>2 DEF OneActivePerPair, IsActive
<1>8. OneEffectPerKey
  BY DEF OneEffectPerKey
<1>9. EventsMatchRows
  BY <1>2, <1>3, RequestTyped DEF EventsMatchRows
<1> QED
  BY <1>1, <1>4, <1>5, <1>6, <1>7, <1>8, <1>9 DEF Inv

LEMMA StutterKeeps ==
    ASSUME Inv, UNCHANGED vars
    PROVE  Inv'
BY DEF Inv, vars, TypeOK, KeyInv, HoldsKey, EventsAreDone, SeenInv, PairInv, Duplicates,
       IsActive, AnswersNamed, OneActivePerPair, OneEffectPerKey, AnswersAgree,
       EventsMatchRows, CreatedEventsAccepted, SourceAccepted

LEMMA InvHolds == Spec => []Inv
<1>1. Inv /\ [Next]_vars => Inv'
  <2> SUFFICES ASSUME Inv, [Next]_vars PROVE Inv'
    OBVIOUS
  <2>1. ASSUME NEW r \in Requests, Claim(r) PROVE Inv'
    BY <2>1, ClaimKeeps
  <2>2. ASSUME NEW r \in Requests, Check(r) PROVE Inv'
    BY <2>2, CheckKeeps
  <2>3. ASSUME NEW r \in Requests, Flush(r) PROVE Inv'
    BY <2>3, FlushKeeps
  <2>4. ASSUME NEW r \in Requests, Commit(r) PROVE Inv'
    BY <2>4, CommitKeeps
  <2>5. ASSUME NEW r \in Requests, Abort(r) PROVE Inv'
    BY <2>5, AbortKeeps
  <2>6. CASE UNCHANGED vars
    BY <2>6, StutterKeeps
  <2> QED
    BY <2>1, <2>2, <2>3, <2>4, <2>5, <2>6 DEF Next, Step
<1> QED
  BY <1>1, InitHolds, PTL DEF Spec

\* Rows, keys, events, requests and answers keep their types, with any number
\* of parallel requests.
THEOREM TypeCorrect == Spec => []TypeOK
<1>1. Inv => TypeOK
  BY DEF Inv
<1> QED
  BY <1>1, InvHolds, PTL

\* The partial unique index keeps a user to one active subscription per
\* publication, also against a tier change or a cancellation in flight.
THEOREM OneActivePair == Spec => []OneActivePerPair
<1>1. Inv => OneActivePerPair
  BY DEF Inv
<1> QED
  BY <1>1, InvHolds, PTL

\* An idempotency key stands for one committed effect, whatever retries run
\* beside each other.
THEOREM KeysPayOnce == Spec => []OneEffectPerKey
<1>1. Inv => OneEffectPerKey
  BY DEF Inv
<1> QED
  BY <1>1, InvHolds, PTL

\* The first answer, the replays and the stored response are one.
THEOREM AnswersAreConsistent == Spec => []AnswersAgree
<1>1. Inv => AnswersAgree
  BY DEF Inv
<1> QED
  BY <1>1, InvHolds, PTL

\* Rows and events are committed together: each tells of the other.
THEOREM EventsTellHistory == Spec => []EventsMatchRows
<1>1. Inv => EventsMatchRows
  BY DEF Inv
<1> QED
  BY <1>1, InvHolds, PTL

\* The worker accepts a subscription.created event however late it comes.
THEOREM LateEventsAccepted == Spec => []CreatedEventsAccepted
<1>1. Inv => CreatedEventsAccepted
  BY DEF Inv
<1> QED
  BY <1>1, InvHolds, PTL

\* No step takes a cancellation back: a tier change in flight writes over the
\* row as it finds it and never its status.
THEOREM CancellationIsFinal == Spec => CanceledStays
<1>1. Inv /\ [Next]_vars
        => \A s \in Subs : subs[s].status = "canceled" => subs'[s].status = "canceled"
  <2> SUFFICES ASSUME Inv, [Next]_vars, NEW s \in Subs, subs[s].status = "canceled"
               PROVE  subs'[s].status = "canceled"
    OBVIOUS
  <2>1. ASSUME NEW r \in Requests, Commit(r) PROVE subs'[s].status = "canceled"
    <3> DEFINE t == Req[r].sub
    <3>1. /\ t \in Subs /\ subs[t] \in Sub /\ req[r].stage = "written"
          /\ subs' = [subs EXCEPT ![t] = Written(r, subs[t])]
          /\ subs \in [Subs -> Sub]
      BY <2>1, RequestTyped DEF Commit, Inv, TypeOK
    <3>2. CASE s # t
      BY <3>1, <3>2
    <3>3. CASE s = t
      <4>1. PICK new : new = Written(r, subs[t])
        OBVIOUS
      <4>2. subs'[s] = new
        BY <3>1, <3>3, <4>1
      <4>3. /\ Req[r].op = "create" => subs[t] = NoSub
            /\ Req[r].op # "create" /\ subs[t].status = "canceled" => new.status = "canceled"
        BY <3>1, <4>1, WrittenRow
      <4> QED
        BY <3>3, <4>2, <4>3, RowKinds
    <3> QED
      BY <3>2, <3>3
  <2>2. ASSUME NEW r \in Requests, Claim(r) \/ Check(r) \/ Flush(r) \/ Abort(r)
        PROVE  subs' = subs
    BY <2>2 DEF Claim, Check, Flush, Abort, Reach, Refuse
  <2> QED
    BY <2>1, <2>2 DEF Next, Step, vars
<1> QED
  BY <1>1, InvHolds, PTL DEF Spec, CanceledStays

\* Whoever waits for a row or an index entry waits for a request that has all
\* it needs to commit; whoever waits for a key holds nothing.
THEOREM WaitsAreNotCircular == Spec => []NoCircularWait
<1>1. NoCircularWait
  <2> SUFFICES ASSUME NEW r \in Requests, HoldsKey(r)
               PROVE  \E q \in Requests : HoldsKey(q) /\ CanMove(q)
    BY DEF NoCircularWait
  <2>1. CASE CanMove(r)
    BY <2>1
  <2>2. CASE ~CanMove(r)
    <3>1. Blocked(r)
      BY <2>2 DEF HoldsKey, CanMove
    <3>2. PICK q \in Requests : req[q].stage = "written"
      BY <3>1 DEF Blocked, Holds
    <3> QED
      BY <3>2 DEF HoldsKey, CanMove
  <2> QED
    BY <2>1, <2>2
<1> QED
  BY <1>1, PTL

(***************************************************************************)
(* Membership                                                              *)
(***************************************************************************)

\* A charged subscription that was not moved to a free plan has an amount.
ChargedHaveAmount ==
    \A s \in Subs :
        /\ subs[s] # NoSub
        /\ subs[s].charged > 0
        /\ \A r \in Requests : ~Downgraded(r, s)
        => subs[s].amount > 0

LEMMA StepsAreCommerce == [MembershipNext]_memberVars => [Next]_vars
<1> SUFFICES ASSUME [MembershipNext]_memberVars PROVE [Next]_vars
  OBVIOUS
<1>1. ASSUME NEW r \in Requests, TimedStep(r) PROVE Next
  BY <1>1 DEF TimedStep, TimedCheck, TimedCommit, Next, Step
<1>2. CASE Tick
  BY <1>2 DEF Tick
<1>3. CASE UNCHANGED memberVars
  BY <1>3 DEF memberVars
<1> QED
  BY <1>1, <1>2, <1>3 DEF MembershipNext

\* The clock and the times that requests read change nothing of what Commerce
\* promises (commerce.py).
THEOREM MembershipIsCommerce == MembershipSpec => Spec
<1>1. MembershipInit => Init
  BY DEF MembershipInit
<1> QED
  BY <1>1, StepsAreCommerce, PTL DEF MembershipSpec, Spec

\* The terms of an existing row after the commit of r: an update writes the
\* columns that differ from the row it read.
LEMMA TermsAfterCommit ==
    ASSUME Inv, NEW r \in Requests, Commit(r), subs[Req[r].sub] # NoSub
    PROVE  LET row == subs[Req[r].sub]
               new == subs'[Req[r].sub]
               seen == req[r].seen
           IN /\ new.charged = row.charged
              /\ Req[r].op # "change" => new.plan = row.plan /\ new.amount = row.amount
              /\ Req[r].op = "change" =>
                    /\ new.plan = IF seen.plan = Req[r].plan THEN row.plan ELSE Req[r].plan
                    /\ new.amount = IF seen.amount = Req[r].amount THEN row.amount
                                    ELSE Req[r].amount
<1> DEFINE s == Req[r].sub
           row == subs[s]
<1>1. /\ s \in Subs /\ row \in Sub /\ row \in LiveSub
      /\ req[r].stage = "written" /\ r \notin outbox
      /\ subs' = [subs EXCEPT ![s] = Written(r, row)]
      /\ subs \in [Subs -> Sub]
  BY RequestTyped, RowKinds DEF Commit, Inv, TypeOK, EventsAreDone
<1>2. Req[r].op # "create"
  BY <1>1 DEF Inv, EventsMatchRows
<1>3. PICK new : new = Written(r, row)
  OBVIOUS
<1>4. subs'[s] = new
  BY <1>1, <1>3
<1>5. new.charged = row.charged
  BY <1>1, <1>2, <1>3, WrittenRow
<1>6. CASE Req[r].op = "change"
  <2> DEFINE plan == IF req[r].seen.plan = Req[r].plan THEN row.plan ELSE Req[r].plan
             amount == IF req[r].seen.amount = Req[r].amount THEN row.amount
                       ELSE Req[r].amount
  <2>1. new = [row EXCEPT !.plan = plan, !.amount = amount]
    BY <1>3, <1>6 DEF Written, Changed
  <2>2. new.plan = plan /\ new.amount = amount
    <3> HIDE DEF plan, amount
    <3> QED
      BY <1>1, <2>1 DEF LiveSub
  <2> QED
    BY <1>4, <1>5, <1>6, <2>2
<1>7. CASE Req[r].op # "change"
  <2>1. new = row \/ new = [row EXCEPT !.status = "canceled"]
    BY <1>2, <1>3, <1>7 DEF Written
  <2>2. new.plan = row.plan /\ new.amount = row.amount
    BY <1>1, <2>1 DEF LiveSub
  <2> QED
    BY <1>4, <1>5, <1>7, <2>2
<1> QED
  BY <1>6, <1>7

LEMMA CommitKeepsAmounts ==
    ASSUME Inv, ChargedHaveAmount, NEW r \in Requests, Commit(r)
    PROVE  ChargedHaveAmount'
<1> SUFFICES ASSUME NEW s \in Subs, subs'[s] # NoSub, subs'[s].charged > 0,
                    \A q \in Requests : ~Downgraded(q, s)'
             PROVE  subs'[s].amount > 0
  BY DEF ChargedHaveAmount
<1> DEFINE t == Req[r].sub
<1>1. /\ t \in Subs /\ subs[t] \in Sub /\ req[r].stage = "written"
      /\ subs' = [subs EXCEPT ![t] = Written(r, subs[t])]
      /\ subs \in [Subs -> Sub]
      /\ outbox' = IF Emits(r) THEN outbox \union {r} ELSE outbox
  BY RequestTyped DEF Commit, Inv, TypeOK
<1>2. \A q \in Requests : ~Downgraded(q, s)
  BY <1>1 DEF Downgraded
<1>3. CASE s # t
  BY <1>1, <1>2, <1>3 DEF ChargedHaveAmount
<1>4. CASE s = t /\ subs[t] = NoSub
  <2>1. PICK new : new = Written(r, subs[t])
    OBVIOUS
  <2>2. subs'[s] = new
    BY <1>1, <1>4, <2>1
  <2>3. Req[r].op = "create"
    BY <1>1, <1>4, <2>1, <2>2, WrittenRow
  <2>4. new = Created(r)
    BY <1>1, <2>1, <2>3, WrittenRow
  <2> QED
    BY <2>2, <2>4 DEF Created
<1>5. CASE s = t /\ subs[t] # NoSub
  <2>1. /\ subs'[s].charged = subs[s].charged
        /\ subs'[s].amount \in {subs[s].amount, Req[r].amount}
        /\ Req[r].op # "change" => subs'[s].amount = subs[s].amount
    BY <1>5, TermsAfterCommit
  <2>2. subs[s].amount > 0
    BY <1>2, <1>5, <2>1 DEF ChargedHaveAmount
  <2>3. Req[r].op = "change" => Req[r].amount # 0
    BY <1>1, <1>5 DEF Downgraded, Emits
  <2>4. Req[r].op = "change" => Req[r].amount > 0
    BY <2>3, RequestTyped
  <2> QED
    BY <2>1, <2>2, <2>4
<1> QED
  BY <1>3, <1>4, <1>5

\* The inductive step, for the invariant of Commerce with the amounts.
LEMMA AmountsHold == Spec => []ChargedHaveAmount
<1>1. Init => ChargedHaveAmount
  BY DEF Init, ChargedHaveAmount
<1>2. Inv /\ ChargedHaveAmount /\ [Next]_vars => ChargedHaveAmount'
  <2> SUFFICES ASSUME Inv, ChargedHaveAmount, [Next]_vars PROVE ChargedHaveAmount'
    OBVIOUS
  <2>1. ASSUME NEW r \in Requests, Commit(r) PROVE ChargedHaveAmount'
    BY <2>1, CommitKeepsAmounts
  <2>2. ASSUME NEW r \in Requests, Claim(r) \/ Check(r) \/ Flush(r) \/ Abort(r)
        PROVE  UNCHANGED <<subs, outbox>>
    BY <2>2 DEF Claim, Check, Flush, Abort, Reach, Refuse
  <2>3. UNCHANGED <<subs, outbox>> => ChargedHaveAmount'
    BY DEF ChargedHaveAmount, Downgraded
  <2> QED
    BY <2>1, <2>2, <2>3 DEF Next, Step, vars
<1> QED
  BY <1>1, <1>2, InvHolds, PTL DEF Spec

\* Whoever was charged for a period may read until its end, whatever is
\* canceled, changed or subscribed to meanwhile (_has_paid_access).
THEOREM PaidPeriodsAreHonoured == MembershipSpec => []PaidPeriodIsHonoured
<1>1. Inv /\ ChargedHaveAmount => PaidPeriodIsHonoured
  <2> SUFFICES ASSUME Inv, ChargedHaveAmount, NEW s \in Subs,
                      subs[s] # NoSub, subs[s].charged > 0, PeriodEnd(s) >= clock,
                      \A r \in Requests : ~Downgraded(r, s)
               PROVE  HasPaidAccess(subs[s].user, subs[s].pub)
    BY DEF PaidPeriodIsHonoured, Entitled
  <2>1. subs[s].amount > 0
    BY DEF ChargedHaveAmount
  <2>2. subs[s].status \in {"active", "canceled"}
    BY RowKinds DEF Inv, TypeOK
  <2> QED
    BY <2>1, <2>2 DEF HasPaidAccess
<1> QED
  BY <1>1, MembershipIsCommerce, InvHolds, AmountsHold, PTL

(***************************************************************************)
(* Requests that overlap                                                   *)
(***************************************************************************)

\* A cancel that saw the row active was overtaken by every cancellation that
\* is committed by now.
CancelSeen ==
    \A r \in Requests :
        Reading(r, Req[r].sub) /\ Req[r].op = "cancel" /\ req[r].seen.status = "active" =>
            \A q \in Doers("cancel", Req[r].sub) : {q, r} \in raced

\* A change knows the terms of its row, or was overtaken by another change.
ChangeSeen ==
    \A r \in Requests :
        Reading(r, Req[r].sub) /\ Req[r].op = "change" =>
            \/ /\ req[r].seen.plan = subs[Req[r].sub].plan
               /\ req[r].seen.amount = subs[Req[r].sub].amount
            \/ \E q \in Doers("change", Req[r].sub) : {q, r} \in raced

\* What a request that has passed its checks will write fits together.
TermsAccepted ==
    \A r \in Requests :
        req[r].stage \in {"checked", "written"} /\ Req[r].op \in {"create", "change"} =>
            Accepts(Req[r].plan, Req[r].amount)

RaceInv ==
    /\ CancelSeen
    /\ ChangeSeen
    /\ TermsAccepted
    /\ SecondCancelOverlaps
    /\ MisfitNeedsOverlap

\* A step that commits nothing: only the request r moves, to a stage in which
\* it knows what it has just read or what it knew before.
LEMMA LocalKeepsRaces ==
    ASSUME Inv, RaceInv, NEW r \in Requests, NEW stage, NEW seen,
           req' = [req EXCEPT ![r] = [stage |-> stage, seen |-> seen]],
           UNCHANGED <<subs, outbox, raced>>,
           \/ stage \notin {"checked", "written"}
           \/ req[r].stage \in {"checked", "written"} /\ seen = req[r].seen
           \/ seen = Read(r) /\ Passes(r, seen)
    PROVE  RaceInv'
<1>1. /\ req'[r].stage = stage /\ req'[r].seen = seen
      /\ \A q \in Requests \ {r} : req'[q] = req[q]
  BY DEF Inv, TypeOK
<1>2. \A op, s : Doers(op, s)' = Doers(op, s)
  BY DEF Doers
<1>3. CancelSeen'
  <2> SUFFICES ASSUME NEW q \in Requests, Reading(q, Req[q].sub)', Req[q].op = "cancel",
                      req'[q].seen.status = "active",
                      NEW d \in Doers("cancel", Req[q].sub)
               PROVE  {d, q} \in raced
    BY <1>2 DEF CancelSeen
  <2>1. CASE q # r
    BY <1>1, <2>1 DEF RaceInv, CancelSeen, Reading
  <2>2. CASE q = r /\ req[r].stage \in {"checked", "written"} /\ seen = req[r].seen
    BY <1>1, <2>2 DEF RaceInv, CancelSeen, Reading
  <2>3. CASE q = r /\ seen = Read(r)
    <3>1. subs[Req[r].sub].status = "active"
      BY <1>1, <2>3 DEF Read
    <3>2. Req[r].sub \in Subs /\ d \in outbox /\ Req[d].op = "cancel" /\ Req[d].sub = Req[r].sub
      BY <2>3, RequestTyped DEF Doers
    <3> QED
      BY <3>1, <3>2 DEF Inv, EventsMatchRows
  <2> QED
    BY <1>1, <2>1, <2>2, <2>3 DEF Reading
<1>4. ChangeSeen'
  <2> SUFFICES ASSUME NEW q \in Requests, Reading(q, Req[q].sub)', Req[q].op = "change"
               PROVE  \/ /\ req'[q].seen.plan = subs[Req[q].sub].plan
                         /\ req'[q].seen.amount = subs[Req[q].sub].amount
                      \/ \E d \in Doers("change", Req[q].sub) : {d, q} \in raced
    BY <1>2 DEF ChangeSeen
  <2>1. CASE q # r
    BY <1>1, <2>1 DEF RaceInv, ChangeSeen, Reading
  <2>2. CASE q = r /\ req[r].stage \in {"checked", "written"} /\ seen = req[r].seen
    BY <1>1, <2>2 DEF RaceInv, ChangeSeen, Reading
  <2>3. CASE q = r /\ seen = Read(r)
    BY <1>1, <2>3 DEF Read
  <2> QED
    BY <1>1, <2>1, <2>2, <2>3 DEF Reading
<1>5. TermsAccepted'
  <2> SUFFICES ASSUME NEW q \in Requests, req'[q].stage \in {"checked", "written"},
                      Req[q].op \in {"create", "change"}
               PROVE  Accepts(Req[q].plan, Req[q].amount)
    BY DEF TermsAccepted
  <2>1. CASE q # r
    BY <1>1, <2>1 DEF RaceInv, TermsAccepted
  <2>2. CASE q = r /\ req[r].stage \in {"checked", "written"}
    BY <1>1, <2>2 DEF RaceInv, TermsAccepted
  <2>3. CASE q = r /\ Passes(r, seen)
    BY <2>3 DEF Passes
  <2> QED
    BY <1>1, <2>1, <2>2, <2>3
<1>6. SecondCancelOverlaps' /\ MisfitNeedsOverlap'
  BY <1>2 DEF RaceInv, SecondCancelOverlaps, MisfitNeedsOverlap
<1> QED
  BY <1>3, <1>4, <1>5, <1>6 DEF RaceInv


\* What a commit does to whoever reads the row.
LEMMA CommitRaces ==
    ASSUME Inv, NEW r \in Requests, TimedCommit(r)
    PROVE  /\ req[r].stage = "written" /\ r \notin outbox
           /\ \A t : \A q \in Requests :
                 Reading(q, t)' => Reading(q, t) /\ req'[q] = req[q] /\ q # r
           /\ raced \subseteq raced'
           /\ \A q \in Requests : Reading(q, Req[r].sub)' => {q, r} \in raced'
           /\ \A op, t : Doers(op, t) \subseteq Doers(op, t)'
           /\ \A op, t : \A d \in Doers(op, t)' :
                 d \in Doers(op, t) \/ (d = r /\ Emits(r) /\ Req[r].op = op /\ Req[r].sub = t)
           /\ \A t \in Subs \ {Req[r].sub} : subs'[t] = subs[t]
           /\ Emits(r) => r \in Doers(Req[r].op, Req[r].sub)'
<1>1. /\ req[r].stage = "written"
      /\ req' = [req EXCEPT ![r] = [stage |-> "done", seen |-> NoSub]]
      /\ outbox' = IF Emits(r) THEN outbox \union {r} ELSE outbox
      /\ subs' = [subs EXCEPT ![Req[r].sub] = Written(r, @)]
      /\ raced' = raced \union
            {{q, r} : q \in {q \in Requests \ {r} : Reading(q, Req[r].sub)}}
      /\ req \in [Requests -> Progress] /\ subs \in [Subs -> Sub]
  BY DEF TimedCommit, Commit, End, Inv, TypeOK
<1>2. r \notin outbox
  BY <1>1 DEF Inv, EventsAreDone
<1>3. /\ req'[r].stage = "done"
      /\ \A q \in Requests \ {r} : req'[q] = req[q]
  BY <1>1
<1>4. \A t : \A q \in Requests : Reading(q, t)' => Reading(q, t) /\ req'[q] = req[q] /\ q # r
  BY <1>3 DEF Reading
<1>5. \A q \in Requests : Reading(q, Req[r].sub)' => {q, r} \in raced'
  BY <1>1, <1>4
<1>6. \A op, t : Doers(op, t) \subseteq Doers(op, t)'
  BY <1>1 DEF Doers
<1>7. \A op, t : \A d \in Doers(op, t)' :
         d \in Doers(op, t) \/ (d = r /\ Emits(r) /\ Req[r].op = op /\ Req[r].sub = t)
  BY <1>1 DEF Doers
<1>8. \A t \in Subs \ {Req[r].sub} : subs'[t] = subs[t]
  BY <1>1
<1>9. Emits(r) => r \in Doers(Req[r].op, Req[r].sub)'
  BY <1>1 DEF Doers
<1> QED
  BY <1>1, <1>2, <1>4, <1>5, <1>6, <1>7, <1>8, <1>9

LEMMA CommitKeepsRaces ==
    ASSUME Inv, RaceInv, NEW r \in Requests, TimedCommit(r)
    PROVE  RaceInv'
<1>1. PICK s \in Subs : s = Req[r].sub
  BY RequestTyped
<1>2. /\ req[r].stage = "written" /\ r \notin outbox
      /\ \A t : \A q \in Requests : Reading(q, t)' => Reading(q, t) /\ req'[q] = req[q] /\ q # r
      /\ raced \subseteq raced'
      /\ \A q \in Requests : Reading(q, s)' => {q, r} \in raced'
      /\ \A op, t : Doers(op, t) \subseteq Doers(op, t)'
      /\ \A op, t : \A d \in Doers(op, t)' :
            d \in Doers(op, t) \/ (d = r /\ Emits(r) /\ Req[r].op = op /\ s = t)
      /\ \A t \in Subs \ {s} : subs'[t] = subs[t]
      /\ Emits(r) => r \in Doers(Req[r].op, s)'
  BY <1>1, CommitRaces
<1>3. Commit(r)
  BY DEF TimedCommit
<1>4. subs[s] # NoSub =>
        /\ Req[r].op # "change" => subs'[s].plan = subs[s].plan /\ subs'[s].amount = subs[s].amount
        /\ Req[r].op = "change" =>
              /\ subs'[s].plan = IF req[r].seen.plan = Req[r].plan THEN subs[s].plan
                                ELSE Req[r].plan
              /\ subs'[s].amount = IF req[r].seen.amount = Req[r].amount THEN subs[s].amount
                                  ELSE Req[r].amount
  BY <1>1, <1>3, TermsAfterCommit
<1>5. CancelSeen'
  <2> SUFFICES ASSUME NEW q \in Requests, Reading(q, Req[q].sub)', Req[q].op = "cancel",
                      req'[q].seen.status = "active",
                      NEW d \in Doers("cancel", Req[q].sub)'
               PROVE  {d, q} \in raced'
    BY DEF CancelSeen
  <2>1. Reading(q, Req[q].sub) /\ req[q].seen.status = "active"
    BY <1>2
  <2>2. CASE d \in Doers("cancel", Req[q].sub)
    BY <1>2, <2>1, <2>2 DEF RaceInv, CancelSeen
  <2>3. CASE d = r /\ s = Req[q].sub
    <3>1. {q, r} \in raced'
      BY <1>2, <2>3
    <3>2. {d, q} = {q, r}
      BY <2>3
    <3> QED
      BY <3>1, <3>2
  <2> QED
    BY <1>2, <2>2, <2>3
<1>6. ChangeSeen'
  <2> SUFFICES ASSUME NEW q \in Requests, Reading(q, Req[q].sub)', Req[q].op = "change"
               PROVE  \/ /\ req'[q].seen.plan = subs'[Req[q].sub].plan
                         /\ req'[q].seen.amount = subs'[Req[q].sub].amount
                      \/ \E d \in Doers("change", Req[q].sub)' : {d, q} \in raced'
    BY DEF ChangeSeen
  <2>1. PICK t \in Subs : t = Req[q].sub
    BY RequestTyped
  <2>0. Reading(q, t) /\ req'[q] = req[q]
    <3>1. Reading(q, t)'
      BY <2>1
    <3> QED
      BY <1>2, <3>1
  <2>2. /\ Reading(q, t) /\ req'[q] = req[q]
        /\ subs[t] # NoSub
        /\ \/ req[q].seen.plan = subs[t].plan /\ req[q].seen.amount = subs[t].amount
           \/ \E d \in Doers("change", t) : {d, q} \in raced
    BY <2>0, <2>1 DEF RaceInv, ChangeSeen, Inv, SeenInv, Reading
  <2>3. CASE \E d \in Doers("change", t) : {d, q} \in raced
    BY <1>2, <2>1, <2>3
  <2>4. CASE t # s /\ req[q].seen.plan = subs[t].plan /\ req[q].seen.amount = subs[t].amount
    BY <1>2, <2>1, <2>2, <2>4
  <2>5. CASE t = s /\ Req[r].op = "change"
    <3>1. r \in Doers("change", t)'
      BY <1>2, <2>5 DEF Emits
    <3>2. {r, q} \in raced'
      <4>1. {q, r} \in raced'
        BY <1>2, <2>1, <2>5
      <4>2. {r, q} = {q, r}
        OBVIOUS
      <4> QED
        BY <4>1, <4>2
    <3> QED
      BY <2>1, <3>1, <3>2
  <2>6. CASE /\ t = s /\ Req[r].op # "change"
             /\ req[q].seen.plan = subs[t].plan /\ req[q].seen.amount = subs[t].amount
    BY <1>4, <2>1, <2>2, <2>6
  <2> QED
    BY <2>2, <2>3, <2>4, <2>5, <2>6
<1>7. TermsAccepted'
  <2> SUFFICES ASSUME NEW q \in Requests, req'[q].stage \in {"checked", "written"},
                      Req[q].op \in {"create", "change"}
               PROVE  Accepts(Req[q].plan, Req[q].amount)
    BY DEF TermsAccepted
  <2>1. req[q].stage \in {"checked", "written"}
    BY <1>2, <1>3 DEF Commit, End, Inv, TypeOK
  <2> QED
    BY <2>1 DEF RaceInv, TermsAccepted
<1>8. SecondCancelOverlaps'
  <2> SUFFICES ASSUME NEW t \in Subs, NEW p \in Doers("cancel", t)',
                      NEW q \in Doers("cancel", t)', p # q
               PROVE  {p, q} \in raced'
    BY DEF SecondCancelOverlaps
  <2>1. ASSUME Emits(r), Req[r].op = "cancel", s = t, NEW d \in Doers("cancel", t)
        PROVE  {d, r} \in raced
    <3>1. req[r].seen.status = "active" /\ Reading(r, s)
      BY <1>1, <1>2, <2>1 DEF Emits, Updates, Reading
    <3> QED
      BY <1>1, <2>1, <3>1 DEF RaceInv, CancelSeen
  <2>2. CASE p \in Doers("cancel", t) /\ q \in Doers("cancel", t)
    BY <1>2, <2>2 DEF RaceInv, SecondCancelOverlaps
  <2>3. CASE p \in Doers("cancel", t) /\ q \notin Doers("cancel", t)
    BY <1>2, <2>1, <2>3
  <2>4. CASE p \notin Doers("cancel", t)
    <3>1. p = r /\ Emits(r) /\ Req[r].op = "cancel" /\ s = t /\ q \in Doers("cancel", t)
      BY <1>2, <2>4
    <3>2. {q, r} \in raced
      BY <2>1, <3>1
    <3>3. {p, q} = {q, r}
      BY <3>1
    <3> QED
      BY <1>2, <3>2, <3>3
  <2> QED
    BY <2>2, <2>3, <2>4
<1>9. MisfitNeedsOverlap'
  <2> SUFFICES ASSUME NEW t \in Subs, subs'[t] # NoSub,
                      ~Accepts(subs'[t].plan, subs'[t].amount)
               PROVE  \E p, q \in Doers("change", t)' : p # q /\ {p, q} \in raced'
    BY DEF MisfitNeedsOverlap, Accepts
  <2>1. CASE subs[t] # NoSub /\ ~Accepts(subs[t].plan, subs[t].amount)
    <3>1. PICK p \in Doers("change", t), q \in Doers("change", t) : p # q /\ {p, q} \in raced
      BY <2>1 DEF RaceInv, MisfitNeedsOverlap
    <3> QED
      BY <1>2, <3>1
  <2>2. CASE subs[t] # NoSub /\ Accepts(subs[t].plan, subs[t].amount)
    <3>1. t = s /\ Req[r].op = "change"
      BY <1>2, <1>4, <2>2
    <3>2. Accepts(Req[r].plan, Req[r].amount)
      BY <1>2, <3>1 DEF RaceInv, TermsAccepted
    <3>3. ~(req[r].seen.plan = subs[t].plan /\ req[r].seen.amount = subs[t].amount)
      BY <1>4, <2>2, <3>1, <3>2
    <3>4. PICK d \in Doers("change", t) : {d, r} \in raced
      BY <1>1, <1>2, <3>1, <3>3 DEF RaceInv, ChangeSeen, Reading
    <3>5. d # r /\ d \in Doers("change", t)' /\ r \in Doers("change", t)'
      BY <1>2, <3>1, <3>4 DEF Doers, Emits
    <3> QED
      BY <1>2, <3>4, <3>5
  <2>3. CASE subs[t] = NoSub
    <3>1. t = s
      BY <1>2, <2>3
    <3>2. PICK new : new = Written(r, subs[s])
      OBVIOUS
    <3>3. subs'[s] = new
      BY <1>1, <1>3, <3>2 DEF Commit, Inv, TypeOK
    <3>4. Req[r].op = "create" /\ new = Created(r)
      BY <1>1, <1>2, <2>3, <3>1, <3>2, <3>3, WrittenRow DEF Inv, TypeOK
    <3>5. Accepts(Req[r].plan, Req[r].amount)
      BY <1>2, <3>4 DEF RaceInv, TermsAccepted
    <3> QED
      BY <3>1, <3>3, <3>4, <3>5 DEF Created
  <2> QED
    BY <2>1, <2>2, <2>3
<1> QED
  BY <1>5, <1>6, <1>7, <1>8, <1>9 DEF RaceInv

LEMMA CheckKeepsRaces ==
    ASSUME Inv, RaceInv, NEW r \in Requests, Check(r), UNCHANGED raced
    PROVE  RaceInv'
<1>1. CASE Passes(r, Read(r)) /\ Reach(r, "checked", Read(r))
  <2>1. PICK seen : seen = Read(r)
    OBVIOUS
  <2> QED
    BY <1>1, <2>1, LocalKeepsRaces DEF Reach
<1>2. CASE Refuse(r)
  BY <1>2, LocalKeepsRaces DEF Refuse, End
<1> QED
  BY <1>1, <1>2 DEF Check

LEMMA OthersKeepRaces ==
    ASSUME Inv, RaceInv, NEW r \in Requests, Claim(r) \/ Flush(r) \/ Abort(r),
           UNCHANGED raced
    PROVE  RaceInv'
<1>1. CASE Claim(r)
  <2>1. CASE Reach(r, "claimed", NoSub)
    BY <2>1, LocalKeepsRaces DEF Reach
  <2>2. ASSUME NEW kind, NEW of, End(r, kind, of), UNCHANGED <<subs, gifts, keys, outbox>>
        PROVE  RaceInv'
    BY <2>2, LocalKeepsRaces DEF End
  <2> QED
    BY <1>1, <2>1, <2>2 DEF Claim
<1>2. CASE Flush(r)
  <2>1. CASE Reach(r, "written", req[r].seen)
    BY <1>2, <2>1, LocalKeepsRaces DEF Reach, Flush
  <2>2. CASE Refuse(r)
    BY <2>2, LocalKeepsRaces DEF Refuse, End
  <2> QED
    BY <1>2, <2>1, <2>2 DEF Flush
<1>3. CASE Abort(r)
  BY <1>3, LocalKeepsRaces DEF Abort, End
<1> QED
  BY <1>1, <1>2, <1>3

LEMMA RacesHold == MembershipSpec => []RaceInv
<1>1. MembershipInit => RaceInv
  BY DEF MembershipInit, Init, RaceInv, CancelSeen, ChangeSeen, TermsAccepted,
         SecondCancelOverlaps, MisfitNeedsOverlap, Reading, Doers
<1>2. Inv /\ RaceInv /\ [MembershipNext]_memberVars => RaceInv'
  <2> SUFFICES ASSUME Inv, RaceInv, [MembershipNext]_memberVars PROVE RaceInv'
    OBVIOUS
  <2>1. ASSUME NEW r \in Requests, TimedStep(r) PROVE RaceInv'
    <3>1. CASE TimedCheck(r) /\ UNCHANGED raced
      BY <3>1, CheckKeepsRaces DEF TimedCheck
    <3>2. CASE TimedCommit(r)
      BY <3>2, CommitKeepsRaces
    <3>3. CASE (Claim(r) \/ Flush(r) \/ Abort(r)) /\ UNCHANGED <<now, raced>>
      BY <3>3, OthersKeepRaces
    <3> QED
      BY <2>1, <3>1, <3>2, <3>3 DEF TimedStep
  <2>2. UNCHANGED <<vars, raced>> => RaceInv'
    BY DEF vars, RaceInv, CancelSeen, ChangeSeen, TermsAccepted, SecondCancelOverlaps,
           MisfitNeedsOverlap, Reading, Doers
  <2>3. CASE Tick
    BY <2>2, <2>3 DEF Tick
  <2>4. CASE UNCHANGED memberVars
    BY <2>2, <2>4 DEF memberVars
  <2> QED
    BY <2>1, <2>3, <2>4 DEF MembershipNext
<1> QED
  BY <1>1, <1>2, MembershipIsCommerce, InvHolds, PTL DEF MembershipSpec

\* One cancellation event for each subscription, but for cancellations that
\* overlap (cancel_subscription).
THEOREM SecondCancelsOverlap == MembershipSpec => []SecondCancelOverlaps
<1>1. RaceInv => SecondCancelOverlaps
  BY DEF RaceInv
<1> QED
  BY <1>1, RacesHold, PTL

\* Every row pays what its plan takes, but after tier changes that overlap
\* (change_tier).
THEOREM MisfitsNeedOverlap == MembershipSpec => []MisfitNeedsOverlap
<1>1. RaceInv => MisfitNeedsOverlap
  BY DEF RaceInv
<1> QED
  BY <1>1, RacesHold, PTL
=============================================================================
