------------------------------- MODULE Catalog -------------------------------
(***************************************************************************)
(* What the API creates outside commerce: users, on registration or at     *)
(* their first authenticated request, publications with a handle of their  *)
(* own, their plans, and posts with a slug.  Each service looks first and  *)
(* inserts afterwards, and other requests commit in between.  Users and    *)
(* handles have a unique constraint; slugs have none.                      *)
(*                                                                         *)
(* Rows are never deleted, and an insert is committed by the next          *)
(* statement, so the two are one step.  A row is named by the request that *)
(* inserted it.  Any request may die between two steps.  Nothing here      *)
(* waits for an answer, so a request that is answered or dead is "done",   *)
(* and "failed" if a constraint has refused its insert.                    *)
(***************************************************************************)
EXTENDS Integers, FiniteSets

CONSTANTS
    Requests,
    Subjects,   \* the sub of a token, or of a registration's address
    Handles,
    Titles,
    Slugs,
    MaxSuffix,  \* bound on the suffixes that are tried
    SlugAt,     \* [Titles -> [1 .. MaxSuffix -> Slugs]]: what is tried, in order
    Texts,      \* names and descriptions
    NoText,     \* before there is one
    MaxOpen,    \* bound on requests under way at once
    Req         \* [Requests -> Request]

\* A register, of the local router, carries no token; every other request does.
\* avatar_url is a field like description.
Ops == {"register", "found", "plan", "post", "update"}
Fields == {"name", "description"}

\* pub is the request that founded the publication of the path; an update sets
\* the fields in sets to text.
Request == [op : Ops, as : Subjects, handle : Handles, title : Titles,
            pub : Requests, sets : SUBSET Fields, text : Texts]

ASSUME CatalogAssumption ==
    /\ MaxSuffix \in Nat \ {0}
    /\ MaxOpen \in Nat
    /\ NoText \notin Texts
    /\ SlugAt \in [Titles -> [1 .. MaxSuffix -> Slugs]]
    /\ Req \in [Requests -> Request]

VARIABLES
    users,   \* subjects with a row
    pubs,    \* requests that inserted a publication
    plans,   \* requests that inserted a plan
    suffix,  \* [Requests -> 0 .. MaxSuffix]: which slug the post has, if any
    page,    \* [Requests -> Page]: name and description
    req,     \* [Requests -> Progress]
    before   \* [Requests -> SUBSET Requests]: those that were answered, and had their
             \* user's row, when it was sent, while it is under way

rows == <<users, pubs, plans, suffix, page>>
vars == <<rows, req, before>>

Ends == {"done", "failed"}
Stages == Ends \union {"new", "known", "unknown", "inserting", "naming", "writing"}

Page == [Fields -> Texts \union {NoText}]
NoPage == [f \in Fields |-> NoText]

\* try is the suffix in hand, seen the publication an update has read.
Progress == [stage : Stages, try : 1 .. MaxSuffix, seen : Page]
In(stage) == [stage |-> stage, try |-> 1, seen |-> NoPage]

Init ==
    /\ users = {} /\ pubs = {} /\ plans = {}
    /\ suffix = [r \in Requests |-> 0]
    /\ page = [r \in Requests |-> NoPage]
    /\ req = [r \in Requests |-> In("new")]
    /\ before = [r \in Requests |-> {}]
-----------------------------------------------------------------------------
At(r, stage) == req[r].stage = stage
Ended(r) == req[r].stage \in Ends
Open == Cardinality({r \in Requests : ~At(r, "new") /\ ~Ended(r)})
Goto(r, stage) == req' = [req EXCEPT ![r].stage = stage] /\ UNCHANGED before

End(r, how) ==
    /\ req' = [req EXCEPT ![r] = In(how)]
    /\ before' = [before EXCEPT ![r] = {}]

Registered(r) == Req[r].as \in users
Answered == {q \in Requests : Ended(q) /\ Registered(q)}
Taken(r) == \E p \in pubs : Req[p].handle = Req[r].handle

\* _get_publication and _ensure_publication_owner for the publication of r
Owns(r) == Req[r].pub \in pubs /\ Req[Req[r].pub].as = Req[r].as

SlugOf(p) == SlugAt[Req[p].title][suffix[p]]
SlugUsed(r, n) ==
    \E p \in Requests :
        /\ suffix[p] # 0
        /\ Req[p].pub = Req[r].pub
        /\ SlugOf(p) = SlugAt[Req[r].title][n]

\* The request arrives, and its user is looked up.
Arrive(r) ==
    /\ At(r, "new")
    /\ Open < MaxOpen
    /\ \/ Req[r].op = "register" /\ Registered(r) /\ End(r, "done")
       \/ /\ Req[r].op = "register" => ~Registered(r)
          /\ req' = [req EXCEPT ![r].stage = IF Registered(r) THEN "known"
                                             ELSE "unknown"]
          /\ before' = [before EXCEPT ![r] = Answered]
    /\ UNCHANGED rows

\* The user is inserted, by register or by get_current_user, unless another
\* request has inserted it since the look-up.
Enrol(r) ==
    /\ At(r, "unknown")
    /\ \/ /\ Registered(r)
          /\ End(r, "failed")
          /\ UNCHANGED users
       \/ /\ ~Registered(r)
          /\ users' = users \union {Req[r].as}
          /\ IF Req[r].op = "register" THEN End(r, "done") ELSE Goto(r, "known")
    /\ UNCHANGED <<pubs, plans, suffix, page>>

\* Mutant: a used handle is left to the constraint.
DecideUnlooked(r) ==
    /\ At(r, "known")
    /\ \/ Req[r].op = "found" /\ Goto(r, "inserting")
       \/ Req[r].op \in {"plan", "post", "update"} /\ ~Owns(r) /\ End(r, "done")
       \/ Req[r].op = "plan" /\ Owns(r) /\ Goto(r, "inserting")
       \/ Req[r].op = "post" /\ Owns(r) /\ Goto(r, "naming")
       \/ /\ Req[r].op = "update" /\ Owns(r)
          /\ req' = [req EXCEPT ![r].stage = "writing", ![r].seen = page[Req[r].pub]]
          /\ UNCHANGED before
    /\ UNCHANGED rows

\* What the service looks at before it writes.
Decide(r) ==
    /\ At(r, "known")
    /\ \/ Req[r].op = "found" /\ Taken(r) /\ End(r, "done")
       \/ Req[r].op = "found" /\ ~Taken(r) /\ Goto(r, "inserting")
       \/ Req[r].op \in {"plan", "post", "update"} /\ ~Owns(r) /\ End(r, "done")
       \/ Req[r].op = "plan" /\ Owns(r) /\ Goto(r, "inserting")
       \/ Req[r].op = "post" /\ Owns(r) /\ Goto(r, "naming")
       \/ /\ Req[r].op = "update" /\ Owns(r)
          /\ req' = [req EXCEPT ![r].stage = "writing", ![r].seen = page[Req[r].pub]]
          /\ UNCHANGED before
    /\ UNCHANGED rows

\* create_publication inserts, unless the handle was taken since.
Found(r) ==
    /\ At(r, "inserting") /\ Req[r].op = "found"
    /\ \/ Taken(r) /\ End(r, "failed") /\ UNCHANGED <<pubs, page>>
       \/ /\ ~Taken(r)
          /\ pubs' = pubs \union {r}
          /\ page' = [page EXCEPT ![r] = [f \in Fields |-> Req[r].text]]
          /\ End(r, "done")
    /\ UNCHANGED <<users, plans, suffix>>

\* create_plan
AddPlan(r) ==
    /\ At(r, "inserting") /\ Req[r].op = "plan"
    /\ plans' = plans \union {r}
    /\ End(r, "done")
    /\ UNCHANGED <<users, pubs, suffix, page>>

\* Mutant: the suffix is counted on before the slug is looked up.
TrySlugSkipping(r) ==
    LET n == req[r].try IN
    /\ At(r, "naming")
    /\ n < MaxSuffix
    /\ req' = [req EXCEPT ![r].try = n + 1,
                          ![r].stage = IF SlugUsed(r, n + 1) THEN @ ELSE "inserting"]
    /\ UNCHANGED <<rows, before>>

\* One turn of the loop of _unique_slug.
TrySlug(r) ==
    LET n == req[r].try IN
    /\ At(r, "naming")
    /\ \/ ~SlugUsed(r, n) /\ Goto(r, "inserting")
       \/ /\ SlugUsed(r, n)
          /\ n < MaxSuffix
          /\ req' = [req EXCEPT ![r].try = n + 1]
          /\ UNCHANGED before
    /\ UNCHANGED rows

\* create_post
AddPost(r) ==
    /\ At(r, "inserting") /\ Req[r].op = "post"
    /\ suffix' = [suffix EXCEPT ![r] = req[r].try]
    /\ End(r, "done")
    /\ UNCHANGED <<users, pubs, plans, page>>

\* update_publication writes the fields that differ from what was read.
Update(r) ==
    LET differs == {f \in Req[r].sets : req[r].seen[f] # Req[r].text} IN
    /\ At(r, "writing")
    /\ page' = [page EXCEPT ![Req[r].pub] =
                   [f \in Fields |-> IF f \in differs THEN Req[r].text ELSE @[f]]]
    /\ End(r, "done")
    /\ UNCHANGED <<users, pubs, plans, suffix>>

\* The process dies, or the connection to the database.
Die(r) ==
    /\ ~At(r, "new") /\ ~Ended(r)
    /\ End(r, "done")
    /\ UNCHANGED rows

Next ==
    \E r \in Requests :
        \/ Arrive(r) \/ Enrol(r) \/ Decide(r) \/ Found(r) \/ AddPlan(r)
        \/ TrySlug(r) \/ AddPost(r) \/ Update(r) \/ Die(r)

Spec == Init /\ [][Next]_vars
-----------------------------------------------------------------------------
\* The tables, with the unique handle.
TypeOK ==
    /\ users \subseteq Subjects /\ pubs \subseteq Requests /\ plans \subseteq Requests
    /\ suffix \in [Requests -> 0 .. MaxSuffix]
    /\ page \in [Requests -> Page]
    /\ req \in [Requests -> Progress]
    /\ before \in [Requests -> SUBSET Requests]
    /\ \A p, q \in pubs : Req[p].handle = Req[q].handle => p = q

SharesSlug(p, q) ==
    /\ suffix[p] # 0 /\ suffix[q] # 0
    /\ Req[p].pub = Req[q].pub
    /\ SlugOf(p) = SlugOf(q)

\* Requests collide only while they overlap.  A post takes the slug of another
\* one, and a constraint refuses a handle or a user, only if the other request
\* was not answered when this one was sent: whoever comes after an answer finds
\* another slug, is told of the conflict, or finds its row (_unique_slug,
\* create_publication, get_current_user).
OnlyOverlapsCollide ==
    [][\A r \in Requests :
          /\ suffix'[r] # suffix[r] => \A p \in before[r] : ~SharesSlug(p, r)'
          /\ At(r, "failed")' /\ ~Ended(r) =>
                \A p \in before[r] :
                    IF At(r, "unknown") THEN Req[p].as # Req[r].as
                    ELSE p \in pubs => Req[p].handle # Req[r].handle]_vars

\* A suffix is taken only when every earlier slug of the title is in use: a
\* post never skips a slug that is free, whatever runs beside it (_unique_slug).
SuffixesHaveNoGaps ==
    \A p \in Requests : \A n \in 1 .. suffix[p] - 1 : SlugUsed(p, n)
=============================================================================
