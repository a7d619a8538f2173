----------------------------- MODULE Publishing -----------------------------
(***************************************************************************)
(* The life of a post: edit, publish and archive, as the API's publishing  *)
(* routes carry them out.  Each request is one READ COMMITTED transaction  *)
(* that reads the post without a lock, decides, and writes; an UPDATE      *)
(* waits for the row lock and then writes the columns that differ from the *)
(* row the request has read over the row as it is by then.  Publishing has *)
(* no idempotency key: what makes it repeatable is the state of the post,  *)
(* its version and its outbox event, read one after the other.             *)
(*                                                                         *)
(* Posts are those the API creates, as drafts.  A request may die at any   *)
(* point.                                                                  *)
(***************************************************************************)
EXTENDS Integers

CONSTANTS
    Requests,
    Posts,
    Users,
    Texts,     \* titles and bodies
    Author,    \* [Posts -> Users]
    FirstText, \* what every draft says
    Req,       \* [Requests -> Request]
    Nobody     \* no request

Ops == {"edit", "publish", "archive"}
Visibilities == {"free", "paid"}

\* text and visibility are what an edit sets.
Request == [op : Ops, post : Posts, user : Users, text : Texts,
            visibility : Visibilities]

ASSUME PublishingAssumption ==
    /\ Author \in [Posts -> Users]
    /\ FirstText \in Texts
    /\ Req \in [Requests -> Request]
    /\ Nobody \notin Requests

VARIABLES
    posts,     \* [Posts -> Post]
    versions,  \* committed post_versions
    events,    \* committed post.published events
    req        \* [Requests -> Progress]

vars == <<posts, versions, events, req>>

\* publishedBy is the request whose clock published_at shows; archived is
\* archived_at IS NOT NULL.
Post == [status : {"draft", "published", "archived"}, text : Texts,
         visibility : Visibilities, publishedBy : Requests \union {Nobody},
         archived : BOOLEAN]

Draft == [status |-> "draft", text |-> FirstText, visibility |-> "free",
          publishedBy |-> Nobody, archived |-> FALSE]

\* Rows are identified by the request that inserts them.
Version == [by : Requests, post : Posts, text : Texts, visibility : Visibilities]
Event == [by : Requests, post : Posts, version : Requests, visibility : Visibilities]

Stages == {"new", "read", "looked", "flushed", "decided", "done"}

\* seen is the post as read, version the id of the version found or inserted,
\* emits whether no event was found.
Progress == [stage : Stages, seen : Post, version : Requests \union {Nobody},
             emits : BOOLEAN]

New == [stage |-> "new", seen |-> Draft, version |-> Nobody, emits |-> FALSE]

Init ==
    /\ posts = [p \in Posts |-> Draft]
    /\ versions = {}
    /\ events = {}
    /\ req = [r \in Requests |-> New]
-----------------------------------------------------------------------------
PostOf(r) == Req[r].post

\* The request is answered, or dead; its transaction is over.
End(r) == req' = [req EXCEPT ![r].stage = "done"]

\* Mutant: the row is written at the commit only.
HoldsNothing(r) == req[r].stage = "committing"

\* The row the update of r waits for is written by a transaction under way.
OwnVersion(r) == req[r].version = r
HoldsPost(r) == req[r].stage \in {"flushed", "decided"} /\ OwnVersion(r)
Locked(r) == \E q \in Requests \ {r} : HoldsPost(q) /\ PostOf(q) = PostOf(r)

\* _get_post, _ensure_post_owner and the refusal of archived posts.  Archiving
\* an archived post changes nothing.
Read(r) ==
    LET row == posts[PostOf(r)] IN
    /\ req[r].stage = "new"
    /\ \/ /\ Author[PostOf(r)] = Req[r].user
          /\ row.status # "archived"
          /\ req' = [req EXCEPT ![r] = [New EXCEPT !.stage = "read", !.seen = row]]
       \/ /\ Author[PostOf(r)] # Req[r].user \/ row.status = "archived"
          /\ End(r)
    /\ UNCHANGED <<posts, versions, events>>

\* The value of a column after an UPDATE: one that equals what was read is
\* not part of the statement.
Written(seen, value, row) == IF value = seen THEN row ELSE value

\* Mutant: every column is written as it was read.
EditedWhole(r, row) ==
    [req[r].seen EXCEPT !.text = Req[r].text, !.visibility = Req[r].visibility]

\* The row after the commit of each request.
Edited(r, row) ==
    LET seen == req[r].seen IN
    [row EXCEPT !.text = Written(seen.text, Req[r].text, @),
                !.visibility = Written(seen.visibility, Req[r].visibility, @)]

Archived(row) == [row EXCEPT !.status = "archived", !.archived = TRUE]

Published(r, row) ==
    LET seen == req[r].seen IN
    [row EXCEPT !.status = Written(seen.status, "published", @),
                !.publishedBy = IF seen.publishedBy = Nobody THEN r ELSE @]

\* update_post and archive_post from their first assignment to the commit.  An
\* edit that changes nothing sends no UPDATE and does not wait.
Edit(r) ==
    /\ req[r].stage = "read"
    /\ Req[r].op = "edit"
    /\ ~Locked(r) \/ Edited(r, req[r].seen) = req[r].seen
    /\ posts' = [posts EXCEPT ![PostOf(r)] = Edited(r, @)]
    /\ End(r)
    /\ UNCHANGED <<versions, events>>

Archive(r) ==
    /\ req[r].stage = "read"
    /\ Req[r].op = "archive"
    /\ ~Locked(r)
    /\ posts' = [posts EXCEPT ![PostOf(r)] = Archived(@)]
    /\ End(r)
    /\ UNCHANGED <<versions, events>>

\* publish_post looks for a version; which one LIMIT 1 yields is open.  A post
\* that was read published and has one is answered at once.
Look(r) ==
    LET found == {v.by : v \in {u \in versions : u.post = PostOf(r)}} IN
    /\ req[r].stage = "read"
    /\ Req[r].op = "publish"
    /\ \/ found # {} /\ req[r].seen.status = "published" /\ End(r)
       \/ /\ found = {} \/ req[r].seen.status # "published"
          /\ \E v \in IF found = {} THEN {Nobody} ELSE found :
                req' = [req EXCEPT ![r].stage = "looked", ![r].version = v]
    /\ UNCHANGED <<posts, versions, events>>

\* Without a version publish_post inserts one and flushes, which takes the
\* lock of the post's row; with one it goes on without a flush.
Flush(r) ==
    /\ req[r].stage = "looked"
    /\ \/ req[r].version # Nobody /\ req' = [req EXCEPT ![r].stage = "flushed"]
       \/ /\ req[r].version = Nobody
          /\ ~Locked(r)
          /\ req' = [req EXCEPT ![r].stage = "flushed", ![r].version = r]
    /\ UNCHANGED <<posts, versions, events>>

\* Mutant: an event is written only for a version that was found.
DecideFound(r) ==
    /\ req[r].stage = "flushed"
    /\ req' = [req EXCEPT ![r].stage = "decided",
                 ![r].emits = ~OwnVersion(r) /\ \A e \in events : e.post # PostOf(r)]
    /\ UNCHANGED <<posts, versions, events>>

\* The search for an event of the post.
Decide(r) ==
    /\ req[r].stage = "flushed"
    /\ req' = [req EXCEPT ![r].stage = "decided",
                          ![r].emits = \A e \in events : e.post # PostOf(r)]
    /\ UNCHANGED <<posts, versions, events>>

\* Mutant: the event tells the visibility the post has by now.
PublishReread(r) ==
    LET seen == req[r].seen IN
    /\ req[r].stage = "decided"
    /\ ~Locked(r)
    /\ posts' = [posts EXCEPT ![PostOf(r)] = Published(r, @)]
    /\ versions' = IF OwnVersion(r)
                   THEN versions \union {[by |-> r, post |-> PostOf(r),
                            text |-> seen.text, visibility |-> seen.visibility]}
                   ELSE versions
    /\ events' = IF req[r].emits
                 THEN events \union {[by |-> r, post |-> PostOf(r),
                          version |-> req[r].version,
                          visibility |-> posts[PostOf(r)].visibility]}
                 ELSE events
    /\ End(r)

\* The event, the rest of the writes and the commit.
Publish(r) ==
    LET seen == req[r].seen IN
    /\ req[r].stage = "decided"
    /\ ~Locked(r)
    /\ posts' = [posts EXCEPT ![PostOf(r)] = Published(r, @)]
    /\ versions' = IF OwnVersion(r)
                   THEN versions \union {[by |-> r, post |-> PostOf(r),
                            text |-> seen.text, visibility |-> seen.visibility]}
                   ELSE versions
    /\ events' = IF req[r].emits
                 THEN events \union {[by |-> r, post |-> PostOf(r),
                          version |-> req[r].version, visibility |-> seen.visibility]}
                 ELSE events
    /\ End(r)

\* The process dies or the database fails: the transaction is rolled back.
Abort(r) ==
    /\ req[r].stage \notin {"new", "done"}
    /\ End(r)
    /\ UNCHANGED <<posts, versions, events>>

Next == \E r \in Requests :
    \/ Read(r) \/ Edit(r) \/ Archive(r)
    \/ Look(r) \/ Flush(r) \/ Decide(r) \/ Publish(r)
    \/ Abort(r)

Spec == Init /\ [][Next]_vars
-----------------------------------------------------------------------------
TypeOK ==
    /\ posts \in [Posts -> Post]
    /\ versions \subseteq Version
    /\ events \subseteq Event
    /\ req \in [Requests -> Progress]

\* However many publish requests of a post run together, one post.published
\* event is committed: the flush of the version takes the row lock before the
\* search for an event, and a request that finds a version finds its event.
OneEventPerPost == \A d, e \in events : d.post = e.post => d = e

\* The event names a committed version of its post and tells that version's
\* visibility, although edits run between the reads (publish_post).
EventTellsVersion ==
    \A e \in events : \E v \in versions :
        /\ v.by = e.version
        /\ v.post = e.post
        /\ v.visibility = e.visibility

\* A post has been published exactly when it has a version and an event; the
\* three are committed together, and no later write takes one of them back.
PublishedIsComplete ==
    \A p \in Posts :
        LET hasVersion == \E v \in versions : v.post = p
            hasEvent == \E e \in events : e.post = p
        IN  /\ posts[p].publishedBy # Nobody <=> hasVersion
            /\ hasVersion <=> hasEvent
            /\ posts[p].status = "published" => hasVersion
            /\ posts[p].status = "draft" => ~hasVersion

\* An edit that read a draft does not take back a publication or an archival.
NeverDraftAgain ==
    [][\A p \in Posts : posts[p].status # "draft" => posts'[p].status # "draft"]_vars

\* "Archived posts cannot be published" (api/publishing.py:412).
ArchivedStays ==
    [][\A p \in Posts : posts[p].status = "archived" => posts'[p].status = "archived"]_vars
=============================================================================
