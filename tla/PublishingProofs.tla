--------------------------- MODULE PublishingProofs ---------------------------
(***************************************************************************)
(* Proofs about Publishing: one event per post, that it tells the version  *)
(* it names, and that a publication is complete and never undone.          *)
(*                                                                         *)
(* The argument is about the row lock.  Only a request that has inserted a *)
(* version of its own finds no event, and from the flush of that version   *)
(* to the commit it holds the lock of the post, so no other event of the   *)
(* post is committed between its search and its insert.                    *)
(***************************************************************************)
EXTENDS Publishing, TLAPS

HasVersion(p) == \E v \in versions : v.post = p
HasEvent(p) == \E e \in events : e.post = p

\* What a request under way has read of the post still holds where it matters:
\* a post that was published once stays so.
SeenHolds(r) ==
    LET seen == req[r].seen
        row == posts[PostOf(r)]
    IN  /\ seen.status # "draft" => row.status # "draft"
        /\ seen.publishedBy # Nobody => row.publishedBy # Nobody

\* The version in hand: none or another one's until the flush, then one.
VersionHolds(r) ==
    /\ req[r].stage = "looked" => req[r].version # r
    /\ req[r].stage # "looked" => req[r].version # Nobody
    /\ req[r].version \notin {Nobody, r} => HasVersion(PostOf(r))

\* The result of the search for an event.
DecisionHolds(r) ==
    IF req[r].emits THEN OwnVersion(r) /\ ~HasEvent(PostOf(r)) ELSE HasEvent(PostOf(r))

RequestInv(r) ==
    /\ req[r].stage \in {"read", "looked", "flushed", "decided"} => SeenHolds(r)
    /\ req[r].stage \in {"looked", "flushed", "decided"} => VersionHolds(r)
    /\ req[r].stage = "decided" => DecisionHolds(r)

OneHolder ==
    \A q, r \in Requests : HoldsPost(q) /\ HoldsPost(r) /\ PostOf(q) = PostOf(r) => q = r

PubInv ==
    /\ TypeOK
    /\ OneEventPerPost /\ EventTellsVersion /\ PublishedIsComplete
    /\ \A v \in versions : req[v.by].stage = "done"
    /\ OneHolder
    /\ \A r \in Requests : RequestInv(r)

Step(r) ==
    \/ Read(r) \/ Edit(r) \/ Archive(r)
    \/ Look(r) \/ Flush(r) \/ Decide(r) \/ Publish(r)
    \/ Abort(r)

LEMMA RequestTyped ==
    ASSUME NEW r \in Requests
    PROVE  /\ PostOf(r) \in Posts /\ Req[r].text \in Texts
           /\ Req[r].visibility \in Visibilities
BY PublishingAssumption DEF PostOf, Request

LEMMA DraftTyped == Draft \in Post /\ New \in Progress /\ New.stage = "new"
BY PublishingAssumption DEF Draft, Post, Visibilities, New, Progress, Stages

-----------------------------------------------------------------------------
\* What each commit makes of a row.
LEMMA EditedRow ==
    ASSUME TypeOK, NEW r \in Requests, NEW row \in Post
    PROVE  /\ Edited(r, row) \in Post
           /\ Edited(r, row).status = row.status
           /\ Edited(r, row).publishedBy = row.publishedBy
BY RequestTyped DEF Edited, Written, Post

LEMMA ArchivedRow ==
    ASSUME NEW row \in Post
    PROVE  /\ Archived(row) \in Post
           /\ Archived(row).status = "archived"
           /\ Archived(row).publishedBy = row.publishedBy
BY DEF Archived, Post

LEMMA PublishedRow ==
    ASSUME TypeOK, NEW r \in Requests, NEW row \in Post
    PROVE  /\ Published(r, row) \in Post
           /\ Published(r, row).status =
                 IF req[r].seen.status = "published" THEN row.status ELSE "published"
           /\ Published(r, row).publishedBy =
                 IF req[r].seen.publishedBy = Nobody THEN r ELSE row.publishedBy
BY DEF Published, Written, Post

-----------------------------------------------------------------------------
\* A request moves alone, and only on the row of its post.
LEMMA Progresses ==
    ASSUME TypeOK, NEW r \in Requests, Step(r)
    PROVE  /\ req' \in [Requests -> Progress]
           /\ \A q \in Requests \ {r} : req'[q] = req[q]
           /\ req[r].stage # "done"
<1> USE DEF TypeOK
<1>1. ASSUME End(r) PROVE /\ req' \in [Requests -> Progress]
                          /\ \A q \in Requests \ {r} : req'[q] = req[q]
  <2>1. [req[r] EXCEPT !.stage = "done"] \in Progress
    BY DEF Progress, Stages
  <2> QED
    BY <1>1, <2>1 DEF End
<1>2. CASE Read(r)
  <2>1. posts[PostOf(r)] \in Post
    BY RequestTyped
  <2>2. [New EXCEPT !.stage = "read", !.seen = posts[PostOf(r)]] \in Progress
    BY <2>1, DraftTyped DEF Progress, Stages
  <2> QED
    BY <1>1, <1>2, <2>2 DEF Read
<1>3. CASE Look(r)
  <2>1. CASE End(r)
    BY <1>1, <1>3, <2>1 DEF Look
  <2>2. CASE ~End(r)
    <3>1. PICK v \in Requests \union {Nobody} :
             req' = [req EXCEPT ![r].stage = "looked", ![r].version = v]
      BY <1>3, <2>2 DEF Look, Version
    <3>2. [req[r] EXCEPT !.stage = "looked", !.version = v] \in Progress
      BY DEF Progress, Stages
    <3> QED
      BY <1>3, <3>1, <3>2 DEF Look
  <2> QED
    BY <2>1, <2>2
<1>4. CASE Flush(r)
  <2>1. /\ [req[r] EXCEPT !.stage = "flushed"] \in Progress
        /\ [req[r] EXCEPT !.stage = "flushed", !.version = r] \in Progress
    BY DEF Progress, Stages
  <2> QED
    BY <1>4, <2>1 DEF Flush
<1>5. CASE Decide(r)
  <2>1. PICK b \in BOOLEAN : req' = [req EXCEPT ![r].stage = "decided", ![r].emits = b]
    BY <1>5 DEF Decide
  <2>2. [req[r] EXCEPT !.stage = "decided", !.emits = b] \in Progress
    BY DEF Progress, Stages
  <2> QED
    BY <1>5, <2>1, <2>2 DEF Decide
<1>6. CASE Edit(r) \/ Archive(r) \/ Publish(r) \/ Abort(r)
  BY <1>1, <1>6 DEF Edit, Archive, Publish, Abort
<1> QED
  BY <1>2, <1>3, <1>4, <1>5, <1>6 DEF Step

\* The rows are written by the commits only, and tables only grow.
LEMMA RowsGrow ==
    ASSUME PubInv, NEW r \in Requests, Step(r)
    PROVE  /\ posts' \in [Posts -> Post]
           /\ \A p \in Posts \ {PostOf(r)} : posts'[p] = posts[p]
           /\ versions' \subseteq Version /\ versions \subseteq versions'
           /\ events' \subseteq Event /\ events \subseteq events'
<1>0. TypeOK
  BY DEF PubInv
<1> USE <1>0, RequestTyped DEF TypeOK
<1>00. posts[PostOf(r)] \in Post
  OBVIOUS
<1>1. CASE Edit(r)
  BY <1>00, <1>1, EditedRow DEF Edit
<1>2. CASE Archive(r)
  BY <1>00, <1>2, ArchivedRow DEF Archive
<1>3. CASE Publish(r)
  <2> DEFINE v == [by |-> r, post |-> PostOf(r), text |-> req[r].seen.text,
                   visibility |-> req[r].seen.visibility]
             e == [by |-> r, post |-> PostOf(r), version |-> req[r].version,
                   visibility |-> req[r].seen.visibility]
  <2>1. v \in Version
    BY DEF Version, Progress, Post
  <2>2. req[r].version \in Requests
    BY <1>3 DEF Publish, PubInv, RequestInv, VersionHolds, Progress
  <2>3. e \in Event
    BY <2>2 DEF Event, Progress, Post
  <2>4. versions' \in {versions, versions \union {v}}
    BY <1>3 DEF Publish
  <2>5. events' \in {events, events \union {e}}
    BY <1>3 DEF Publish
  <2>6. /\ posts' \in [Posts -> Post]
        /\ \A p \in Posts \ {PostOf(r)} : posts'[p] = posts[p]
    BY <1>3, <1>00, PublishedRow DEF Publish
  <2> HIDE DEF v, e
  <2> QED
    BY <2>1, <2>3, <2>4, <2>5, <2>6
<1>4. CASE Read(r) \/ Look(r) \/ Flush(r) \/ Decide(r) \/ Abort(r)
  BY <1>4 DEF Read, Look, Flush, Decide, Abort
<1> QED
  BY <1>1, <1>2, <1>3, <1>4 DEF Step

LEMMA StepTyped ==
    ASSUME PubInv, NEW r \in Requests, Step(r)
    PROVE  TypeOK'
BY Progresses, RowsGrow DEF PubInv, TypeOK

\* What holds of a row once holds for ever.
LEMMA RowsStay ==
    ASSUME PubInv, NEW r \in Requests, Step(r), NEW p \in Posts
    PROVE  /\ posts[p].status # "draft" => posts'[p].status # "draft"
           /\ posts[p].publishedBy # Nobody => posts'[p].publishedBy # Nobody
           /\ HasVersion(p) => HasVersion(p)'
           /\ HasEvent(p) => HasEvent(p)'
<1>0. TypeOK /\ RequestInv(r)
  BY DEF PubInv
<1>1. /\ HasVersion(p) => HasVersion(p)'
      /\ HasEvent(p) => HasEvent(p)'
  BY RowsGrow DEF HasVersion, HasEvent
<1>2. CASE p # PostOf(r)
  BY <1>1, <1>2, RowsGrow
<1>3. CASE p = PostOf(r)
  <2>1. posts[p] \in Post
    BY <1>0 DEF TypeOK
  <2>2. CASE Edit(r)
    BY <1>0, <1>1, <1>3, <2>1, <2>2, EditedRow DEF Edit, TypeOK
  <2>3. CASE Archive(r)
    BY <1>0, <1>1, <1>3, <2>1, <2>3, ArchivedRow DEF Archive, TypeOK
  <2>4. CASE Publish(r)
    <3>1. posts'[p] = Published(r, posts[p])
      BY <1>0, <1>3, <2>4 DEF Publish, TypeOK
    <3>2. SeenHolds(r)
      BY <1>0, <2>4 DEF Publish, RequestInv
    <3>3. r # Nobody
      BY PublishingAssumption
    <3> QED
      BY <1>0, <1>1, <1>3, <2>1, <3>1, <3>2, <3>3, PublishedRow DEF SeenHolds
  <2>5. CASE Read(r) \/ Look(r) \/ Flush(r) \/ Decide(r) \/ Abort(r)
    BY <1>1, <2>5 DEF Read, Look, Flush, Decide, Abort
  <2> QED
    BY <2>2, <2>3, <2>4, <2>5 DEF Step
<1> QED
  BY <1>2, <1>3

-----------------------------------------------------------------------------
\* The lock.
LEMMA OneHolderStays ==
    ASSUME PubInv, NEW r \in Requests, Step(r)
    PROVE  OneHolder'
<1>0. TypeOK /\ OneHolder /\ RequestInv(r)
  BY DEF PubInv
<1>1. \A q \in Requests \ {r} : HoldsPost(q)' <=> HoldsPost(q)
  BY <1>0, Progresses DEF HoldsPost, OwnVersion
<1>2. ASSUME HoldsPost(r)', ~HoldsPost(r) PROVE ~Locked(r)
  <2>1. ASSUME End(r) PROVE FALSE
    BY <1>0, <1>2, <2>1 DEF End, HoldsPost, TypeOK, Progress
  <2>2. CASE Flush(r)
    <3>1. CASE req[r].version # Nobody /\ req' = [req EXCEPT ![r].stage = "flushed"]
      BY <1>0, <1>2, <2>2, <3>1
      DEF Flush, HoldsPost, OwnVersion, TypeOK, Progress, RequestInv, VersionHolds
    <3> QED
      BY <2>2, <3>1 DEF Flush
  <2>3. CASE Decide(r)
    BY <1>0, <1>2, <2>3 DEF Decide, HoldsPost, OwnVersion, TypeOK, Progress
  <2>4. CASE Read(r)
    <3>1. req' = [req EXCEPT ![r] = [New EXCEPT !.stage = "read", !.seen = posts[PostOf(r)]]]
      BY <2>1, <1>2, <2>4 DEF Read
    <3>2. req'[r].stage = "read"
      BY <1>0, <3>1, DraftTyped DEF TypeOK, Progress
    <3> QED
      BY <1>2, <3>2 DEF HoldsPost
  <2>5. CASE Look(r)
    BY <1>0, <1>2, <2>1, <2>5 DEF Look, HoldsPost, TypeOK, Progress
  <2>6. CASE Edit(r) \/ Archive(r) \/ Publish(r) \/ Abort(r)
    BY <2>1, <2>6 DEF Edit, Archive, Publish, Abort
  <2> QED
    BY <2>2, <2>3, <2>4, <2>5, <2>6 DEF Step
<1>3. ASSUME NEW q \in Requests \ {r}, HoldsPost(q), HoldsPost(r)', PostOf(q) = PostOf(r)
      PROVE  FALSE
  BY <1>0, <1>2, <1>3 DEF OneHolder, Locked
<1> QED
  BY <1>0, <1>1, <1>3 DEF OneHolder, PostOf

\* Who does not move keeps what holds of it.
LEMMA OthersKeep ==
    ASSUME PubInv, NEW r \in Requests, Step(r), NEW q \in Requests \ {r}
    PROVE  RequestInv(q)'
<1>0. TypeOK /\ RequestInv(q) /\ req'[q] = req[q] /\ PostOf(q) \in Posts
  BY Progresses, RequestTyped DEF PubInv
<1>1. SeenHolds(q) => SeenHolds(q)'
  BY <1>0, RowsStay DEF SeenHolds, PostOf
<1>2. VersionHolds(q) => VersionHolds(q)'
  BY <1>0, RowsStay DEF VersionHolds, PostOf, HasVersion
<1>3. ASSUME req[q].stage = "decided", DecisionHolds(q) PROVE DecisionHolds(q)'
  <2>1. CASE ~req[q].emits
    BY <1>0, <1>3, <2>1, RowsStay DEF DecisionHolds, PostOf, HasEvent
  <2>2. CASE req[q].emits
    <3>1. HoldsPost(q) /\ ~HasEvent(PostOf(q))
      BY <1>3, <2>2 DEF DecisionHolds, HoldsPost
    <3>2. ~HasEvent(PostOf(q))'
      <4>1. CASE Publish(r)
        <5>1. PostOf(r) # PostOf(q)
          BY <3>1, <4>1 DEF Publish, Locked
        <5> QED
          BY <3>1, <4>1, <5>1 DEF Publish, HasEvent, PostOf
      <4>2. CASE ~Publish(r)
        <5>1. events' = events
          BY <4>2 DEF Step, Read, Edit, Archive, Look, Flush, Decide, Abort
        <5> QED
          BY <3>1, <5>1 DEF HasEvent, PostOf
      <4> QED
        BY <4>1, <4>2
    <3> QED
      BY <1>0, <1>3, <2>2, <3>2 DEF DecisionHolds, OwnVersion
  <2> QED
    BY <2>1, <2>2
<1> QED
  BY <1>0, <1>1, <1>2, <1>3 DEF RequestInv

\* The request that moves.
LEMMA MoverKeeps ==
    ASSUME PubInv, NEW r \in Requests, Step(r)
    PROVE  RequestInv(r)'
<1>0. /\ TypeOK /\ RequestInv(r) /\ PublishedIsComplete
      /\ PostOf(r) \in Posts /\ posts[PostOf(r)] \in Post /\ req[r] \in Progress
  BY RequestTyped DEF PubInv, TypeOK
<1>1. ASSUME End(r) PROVE RequestInv(r)'
  BY <1>0, <1>1 DEF End, RequestInv, TypeOK, Progress
<1>2. CASE Read(r)
  <2>1. CASE End(r)
    BY <1>1, <2>1
  <2>2. CASE ~End(r)
    <3>1. /\ req' = [req EXCEPT ![r] = [New EXCEPT !.stage = "read", !.seen = posts[PostOf(r)]]]
          /\ UNCHANGED <<posts, versions, events>>
      BY <1>2, <2>2 DEF Read
    <3>2. req'[r].stage = "read" /\ req'[r].seen = posts[PostOf(r)]
      BY <1>0, <3>1, DraftTyped DEF TypeOK, Progress
    <3> QED
      BY <3>1, <3>2 DEF RequestInv, SeenHolds, PostOf
  <2> QED
    BY <2>1, <2>2
<1>3. CASE Look(r)
  <2>1. CASE End(r)
    BY <1>1, <2>1
  <2>2. CASE ~End(r)
    <3>1. PICK v \in Requests \union {Nobody} :
             /\ req' = [req EXCEPT ![r].stage = "looked", ![r].version = v]
             /\ v # Nobody => \E u \in versions : u.by = v /\ u.post = PostOf(r)
      BY <1>0, <1>3, <2>2 DEF Look, Version, TypeOK
    <3>2. /\ req'[r].stage = "looked" /\ req'[r].version = v
          /\ req'[r].seen = req[r].seen /\ req[r].stage = "read"
          /\ UNCHANGED <<posts, versions, events>>
      BY <1>0, <1>3, <3>1 DEF Look, TypeOK, Progress
    <3>3. v # r
      BY <3>1, <3>2, PublishingAssumption DEF PubInv
    <3>4. SeenHolds(r)'
      BY <1>0, <3>2 DEF RequestInv, SeenHolds, PostOf
    <3>5. VersionHolds(r)'
      BY <3>1, <3>2, <3>3 DEF VersionHolds, HasVersion, PostOf
    <3> QED
      BY <3>2, <3>4, <3>5 DEF RequestInv
  <2> QED
    BY <2>1, <2>2
<1>4. CASE Flush(r)
  <2>1. /\ req'[r].stage = "flushed" /\ req'[r].seen = req[r].seen
        /\ req[r].stage = "looked" /\ UNCHANGED <<posts, versions, events>>
        /\ req'[r].version = IF req[r].version = Nobody THEN r ELSE req[r].version
    BY <1>0, <1>4 DEF Flush, TypeOK, Progress
  <2>2. SeenHolds(r)' /\ VersionHolds(r)
    BY <1>0, <2>1 DEF RequestInv, SeenHolds, PostOf
  <2>3. VersionHolds(r)'
    BY <2>1, <2>2, PublishingAssumption DEF VersionHolds, HasVersion, PostOf
  <2> QED
    BY <2>1, <2>2, <2>3 DEF RequestInv
<1>5. CASE Decide(r)
  <2>1. PICK b \in BOOLEAN :
           /\ req' = [req EXCEPT ![r].stage = "decided", ![r].emits = b]
           /\ b <=> ~HasEvent(PostOf(r))
           /\ req[r].stage = "flushed" /\ UNCHANGED <<posts, versions, events>>
    BY <1>5 DEF Decide, HasEvent
  <2>2. /\ req'[r].stage = "decided" /\ req'[r].seen = req[r].seen
        /\ req'[r].version = req[r].version
        /\ req[r].stage = "flushed" /\ UNCHANGED <<posts, versions, events>>
    BY <1>0, <2>1 DEF TypeOK, Progress
  <2>2a. req'[r].emits = b
    BY <1>0, <2>1 DEF TypeOK, Progress
  <2>3. SeenHolds(r)' /\ VersionHolds(r)
    BY <1>0, <2>2 DEF RequestInv, SeenHolds, PostOf
  <2>4. VersionHolds(r)'
    BY <2>2, <2>3 DEF VersionHolds, HasVersion, PostOf
  <2>5. HasVersion(PostOf(r)) => HasEvent(PostOf(r))
    BY <1>0 DEF PublishedIsComplete, HasVersion, HasEvent
  <2>6. ~HasEvent(PostOf(r)) => req[r].version = r
    BY <2>2, <2>3, <2>5 DEF VersionHolds
  <2>7. HasEvent(PostOf(r))' <=> HasEvent(PostOf(r))
    BY <2>2 DEF HasEvent, PostOf
  <2>8. DecisionHolds(r)'
    <3>1. CASE b
      BY <2>1, <2>2, <2>6, <2>7, <2>2a, <3>1 DEF DecisionHolds, OwnVersion
    <3>2. CASE ~b
      BY <2>1, <2>2, <2>7, <2>2a, <3>2 DEF DecisionHolds
    <3> QED
      BY <3>1, <3>2
  <2> QED
    BY <2>2, <2>3, <2>4, <2>8 DEF RequestInv
<1>6. CASE Edit(r) \/ Archive(r) \/ Publish(r) \/ Abort(r)
  BY <1>1, <1>6 DEF Edit, Archive, Publish, Abort
<1> QED
  BY <1>2, <1>3, <1>4, <1>5, <1>6 DEF Step

-----------------------------------------------------------------------------
\* The rows.  Everything but a publication leaves the versions and the events
\* alone, and when posts were published.
LEMMA OthersKeepRows ==
    ASSUME PubInv, NEW r \in Requests, Step(r), ~Publish(r)
    PROVE  /\ versions' = versions /\ events' = events
           /\ \A p \in Posts :
                 /\ posts'[p].publishedBy = posts[p].publishedBy
                 /\ posts'[p].status \in {posts[p].status, "archived"}
<1>0. TypeOK
  BY DEF PubInv
<1>1. ASSUME NEW p \in Posts
      PROVE  /\ posts'[p].publishedBy = posts[p].publishedBy
             /\ posts'[p].status \in {posts[p].status, "archived"}
  <2>1. posts[p] \in Post
    BY <1>0 DEF TypeOK
  <2>2. CASE p # PostOf(r)
    BY <2>2, RowsGrow
  <2>3. CASE p = PostOf(r)
    <3>1. CASE Edit(r)
      BY <1>0, <2>1, <2>3, <3>1, EditedRow DEF Edit, TypeOK
    <3>2. CASE Archive(r)
      BY <1>0, <2>1, <2>3, <3>2, ArchivedRow DEF Archive, TypeOK
    <3>3. CASE Read(r) \/ Look(r) \/ Flush(r) \/ Decide(r) \/ Abort(r)
      BY <3>3 DEF Read, Look, Flush, Decide, Abort
    <3> QED
      BY <3>1, <3>2, <3>3 DEF Step
  <2> QED
    BY <2>2, <2>3
<1>2. versions' = versions /\ events' = events
  BY DEF Step, Read, Edit, Archive, Look, Flush, Decide, Abort
<1> QED
  BY <1>1, <1>2

\* What a publication commits: a version of its own or the one it has found,
\* and an event for a version of its own if there is none.
LEMMA PublishCommits ==
    ASSUME PubInv, NEW r \in Requests, Publish(r)
    PROVE  /\ HasVersion(PostOf(r))' /\ HasEvent(PostOf(r))'
           /\ posts'[PostOf(r)].publishedBy # Nobody
           /\ posts'[PostOf(r)].status # "draft"
           /\ \A v \in versions' \ versions : v.by = r /\ v.post = PostOf(r)
           /\ \A e \in events' \ events :
                 /\ e.post = PostOf(r) /\ ~HasEvent(PostOf(r))
                 /\ events' = events \union {e}
                 /\ \E v \in versions' : /\ v.by = e.version /\ v.post = e.post
                                         /\ v.visibility = e.visibility
<1> DEFINE v == [by |-> r, post |-> PostOf(r), text |-> req[r].seen.text,
                 visibility |-> req[r].seen.visibility]
           e == [by |-> r, post |-> PostOf(r), version |-> req[r].version,
                 visibility |-> req[r].seen.visibility]
<1>0. /\ TypeOK /\ SeenHolds(r) /\ VersionHolds(r) /\ DecisionHolds(r) /\ Step(r)
      /\ req[r].stage = "decided" /\ PostOf(r) \in Posts /\ posts[PostOf(r)] \in Post
  BY RequestTyped DEF PubInv, TypeOK, RequestInv, Publish, Step
<1>1. /\ versions' = IF req[r].version = r THEN versions \union {v} ELSE versions
      /\ events' = IF req[r].emits THEN events \union {e} ELSE events
  BY DEF Publish, OwnVersion
<1>2. v.by = r /\ v.post = PostOf(r) /\ v.visibility = req[r].seen.visibility
  OBVIOUS
<1>3. /\ e.post = PostOf(r) /\ e.version = req[r].version
      /\ e.visibility = req[r].seen.visibility
  OBVIOUS
<1> HIDE DEF v, e
<1>4. HasVersion(PostOf(r))'
  <2>1. CASE req[r].version = r
    BY <1>1, <1>2, <2>1 DEF HasVersion, PostOf
  <2>2. CASE req[r].version # r
    BY <1>0, <1>1, <2>2 DEF VersionHolds, HasVersion, PostOf
  <2> QED
    BY <2>1, <2>2
<1>5. HasEvent(PostOf(r))'
  <2>1. CASE req[r].emits
    BY <1>1, <1>3, <2>1 DEF HasEvent, PostOf
  <2>2. CASE ~req[r].emits
    BY <1>0, <1>1, <2>2 DEF DecisionHolds, HasEvent, PostOf
  <2> QED
    BY <2>1, <2>2
<1>6. posts'[PostOf(r)].publishedBy # Nobody /\ posts'[PostOf(r)].status # "draft"
  <2>1. posts'[PostOf(r)] = Published(r, posts[PostOf(r)])
    BY <1>0 DEF Publish, TypeOK
  <2> QED
    BY <1>0, <2>1, PublishedRow, PublishingAssumption DEF SeenHolds
<1>7. \A u \in versions' \ versions : u.by = r /\ u.post = PostOf(r)
  BY <1>1, <1>2
<1>8. ASSUME NEW d \in events' \ events
      PROVE  /\ d.post = PostOf(r) /\ ~HasEvent(PostOf(r))
             /\ events' = events \union {d}
             /\ \E u \in versions' : /\ u.by = d.version /\ u.post = d.post
                                     /\ u.visibility = d.visibility
  <2>1. req[r].emits /\ d = e
    BY <1>1, <1>8
  <2>2. req[r].version = r /\ ~HasEvent(PostOf(r))
    BY <1>0, <2>1 DEF DecisionHolds, OwnVersion
  <2>3. v \in versions'
    BY <1>1, <2>2
  <2> QED
    BY <1>1, <1>2, <1>3, <2>1, <2>2, <2>3
<1> QED
  BY <1>4, <1>5, <1>6, <1>7, <1>8

\* The rows after a step are as complete as before it.
LEMMA RowsKeep ==
    ASSUME PubInv, NEW r \in Requests, Step(r)
    PROVE  /\ OneEventPerPost' /\ EventTellsVersion' /\ PublishedIsComplete'
           /\ \A v \in versions' : req'[v.by].stage = "done"
<1>0. /\ OneEventPerPost /\ EventTellsVersion /\ PublishedIsComplete
      /\ \A v \in versions : v.by \in Requests /\ req[v.by].stage = "done"
      /\ req[r].stage # "done" /\ versions \subseteq versions'
      /\ \A q \in Requests \ {r} : req'[q] = req[q]
  BY Progresses, RowsGrow DEF PubInv, TypeOK, Version
<1>1. \A v \in versions : req'[v.by].stage = "done"
  BY <1>0
<1>2. CASE ~Publish(r)
  <2>1. /\ versions' = versions /\ events' = events
        /\ \A p \in Posts :
              /\ posts'[p].publishedBy = posts[p].publishedBy
              /\ posts'[p].status \in {posts[p].status, "archived"}
    BY <1>2, OthersKeepRows
  <2>2. PublishedIsComplete'
    BY <1>0, <2>1 DEF PublishedIsComplete
  <2> QED
    BY <1>0, <1>1, <2>1, <2>2 DEF OneEventPerPost, EventTellsVersion
<1>3. CASE Publish(r)
  <2>1. req'[r].stage = "done"
    BY <1>3 DEF Publish, End, PubInv, TypeOK, Progress
  <2>2. \A v \in versions' : req'[v.by].stage = "done"
    BY <1>1, <1>3, <2>1, PublishCommits
  <2>3. OneEventPerPost'
    <3> SUFFICES ASSUME NEW c \in events', NEW d \in events', c.post = d.post
                 PROVE  c = d
      BY DEF OneEventPerPost
    <3>1. CASE c \in events /\ d \in events
      BY <1>0, <3>1 DEF OneEventPerPost
    <3>2. ASSUME c \notin events PROVE c = d
      BY <1>3, <3>2, PublishCommits DEF HasEvent
    <3>3. ASSUME d \notin events PROVE c = d
      BY <1>3, <3>3, PublishCommits DEF HasEvent
    <3> QED
      BY <3>1, <3>2, <3>3
  <2>4. EventTellsVersion'
    <3> SUFFICES ASSUME NEW d \in events'
                 PROVE  \E v \in versions' : /\ v.by = d.version /\ v.post = d.post
                                             /\ v.visibility = d.visibility
      BY DEF EventTellsVersion
    <3>1. CASE d \in events
      BY <1>0, <3>1 DEF EventTellsVersion
    <3>2. CASE d \notin events
      BY <1>3, <3>2, PublishCommits
    <3> QED
      BY <3>1, <3>2
  <2>5. ASSUME NEW p \in Posts
        PROVE  /\ (posts[p].publishedBy # Nobody <=> HasVersion(p))'
               /\ (HasVersion(p) <=> HasEvent(p))'
               /\ (posts[p].status = "published" => HasVersion(p))'
               /\ (posts[p].status = "draft" => ~HasVersion(p))'
    <3>1. CASE p = PostOf(r)
      <4>1. HasVersion(p)' /\ HasEvent(p)'
        BY <1>3, <3>1, PublishCommits DEF HasVersion, HasEvent, PostOf
      <4> QED
        BY <1>3, <3>1, <4>1, PublishCommits
    <3>2. CASE p # PostOf(r)
      <4>1. posts'[p] = posts[p]
        BY <3>2, RowsGrow
      <4>2. HasVersion(p)' <=> HasVersion(p)
        BY <1>0, <1>3, <3>2, PublishCommits DEF HasVersion
      <4>3. HasEvent(p)' <=> HasEvent(p)
        BY <1>3, <3>2, PublishCommits, RowsGrow DEF HasEvent
      <4>4. /\ posts[p].publishedBy # Nobody <=> HasVersion(p)
            /\ HasVersion(p) <=> HasEvent(p)
            /\ posts[p].status = "published" => HasVersion(p)
            /\ posts[p].status = "draft" => ~HasVersion(p)
        BY <1>0 DEF PublishedIsComplete, HasVersion, HasEvent
      <4> QED
        BY <4>1, <4>2, <4>3, <4>4
    <3> QED
      BY <3>1, <3>2
  <2>6. PublishedIsComplete'
    BY <2>5 DEF PublishedIsComplete, HasVersion, HasEvent
  <2> QED
    BY <2>2, <2>3, <2>4, <2>6
<1> QED
  BY <1>2, <1>3

LEMMA StepKeeps ==
    ASSUME PubInv, NEW r \in Requests, Step(r)
    PROVE  PubInv'
<1>1. \A q \in Requests : RequestInv(q)'
  BY MoverKeeps, OthersKeep
<1> QED
  BY <1>1, StepTyped, OneHolderStays, RowsKeep DEF PubInv

LEMMA PubInvHolds == Spec => []PubInv
<1>1. Init => PubInv
  <2> SUFFICES ASSUME Init PROVE PubInv
    OBVIOUS
  <2>1. TypeOK
    BY DraftTyped DEF Init, TypeOK
  <2>2. \A r \in Requests : req[r].stage = "new"
    BY DraftTyped DEF Init
  <2>3. OneEventPerPost /\ EventTellsVersion /\ PublishedIsComplete
    BY DEF Init, OneEventPerPost, EventTellsVersion, PublishedIsComplete, Draft
  <2>4. OneHolder /\ \A r \in Requests : RequestInv(r)
    BY <2>2 DEF OneHolder, HoldsPost, RequestInv
  <2> QED
    BY <2>1, <2>3, <2>4 DEF PubInv, Init
<1>2. PubInv /\ [Next]_vars => PubInv'
  <2> SUFFICES ASSUME PubInv, [Next]_vars PROVE PubInv'
    OBVIOUS
  <2>1. ASSUME NEW r \in Requests, Step(r) PROVE PubInv'
    BY <2>1, StepKeeps
  <2>2. CASE UNCHANGED vars
    BY <2>2
    DEF vars, PubInv, TypeOK, OneEventPerPost, EventTellsVersion, PublishedIsComplete,
        OneHolder, HoldsPost, OwnVersion, RequestInv, SeenHolds, VersionHolds,
        DecisionHolds, HasVersion, HasEvent, PostOf
  <2> QED
    BY <2>1, <2>2 DEF Next, Step
<1> QED
  BY <1>1, <1>2, PTL DEF Spec

-----------------------------------------------------------------------------
\* The tables and the requests keep their types; an event always names a
\* version that exists (publish_post flushes the version before it uses its id).
THEOREM TypeCorrect == Spec => []TypeOK
<1>1. PubInv => TypeOK
  BY DEF PubInv
<1> QED
  BY <1>1, PubInvHolds, PTL

\* One post.published event per post, for any number of requests that publish,
\* edit and archive it together (publish_post).
THEOREM EventsAreUnique == Spec => []OneEventPerPost
<1>1. PubInv => OneEventPerPost
  BY DEF PubInv
<1> QED
  BY <1>1, PubInvHolds, PTL

\* The event tells the visibility of the version it names (publish_post).
THEOREM EventsTellTheirVersion == Spec => []EventTellsVersion
<1>1. PubInv => EventTellsVersion
  BY DEF PubInv
<1> QED
  BY <1>1, PubInvHolds, PTL

\* The post, its version and its event agree on whether it has been published.
THEOREM PublicationsAreComplete == Spec => []PublishedIsComplete
<1>1. PubInv => PublishedIsComplete
  BY DEF PubInv
<1> QED
  BY <1>1, PubInvHolds, PTL

\* Nothing makes a draft of a post again, whatever was read before it was
\* published (update_post, archive_post, publish_post).
THEOREM PublicationsStay == Spec => NeverDraftAgain
<1>1. PubInv /\ [Next]_vars =>
        \A p \in Posts : posts[p].status # "draft" => posts'[p].status # "draft"
  <2> SUFFICES ASSUME PubInv, [Next]_vars, NEW p \in Posts, posts[p].status # "draft"
               PROVE  posts'[p].status # "draft"
    OBVIOUS
  <2>1. ASSUME NEW r \in Requests, Step(r) PROVE posts'[p].status # "draft"
    BY <2>1, RowsStay
  <2> QED
    BY <2>1 DEF Next, Step, vars
<1> QED
  BY <1>1, PubInvHolds, PTL DEF Spec, NeverDraftAgain
===============================================================================
