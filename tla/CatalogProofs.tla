---------------------------- MODULE CatalogProofs ----------------------------
(***************************************************************************)
(* Proofs about Catalog: the unique handle, suffixes without gaps, and     *)
(* that only requests under way at the same time collide.                  *)
(*                                                                         *)
(* What has ended does not change any more; so what a request has seen of  *)
(* the rows that were answered before it was sent still holds when it      *)
(* inserts its own.                                                        *)
(***************************************************************************)
EXTENDS Catalog, TLAPS

\* What holds of one request.
Keeps(r) ==
    /\ suffix[r] # 0 => Ended(r)
    /\ \A n \in 1 .. suffix[r] - 1 : SlugUsed(r, n)
    /\ ~At(r, "naming") /\ ~At(r, "inserting") => req[r].try = 1
    /\ At(r, "naming") => Req[r].op = "post"
    /\ At(r, "naming") \/ At(r, "inserting") => \A n \in 1 .. req[r].try - 1 : SlugUsed(r, n)
    /\ \A p \in before[r] : Ended(p)
    /\ At(r, "inserting") /\ Req[r].op = "post" =>
          \A p \in before[r] :
              suffix[p] # 0 /\ Req[p].pub = Req[r].pub
                  => SlugOf(p) # SlugAt[Req[r].title][req[r].try]
    /\ At(r, "inserting") /\ Req[r].op = "found" =>
          \A p \in before[r] \intersect pubs : Req[p].handle # Req[r].handle
    /\ At(r, "unknown") => \A p \in before[r] : Req[p].as # Req[r].as

CatInv == TypeOK /\ \A r \in Requests : Keeps(r)

\* What every step leaves alone.
Grows ==
    \A p \in Requests :
        /\ Ended(p) => Ended(p)' /\ suffix'[p] = suffix[p]
        /\ Ended(p) => (p \in pubs' => p \in pubs)
        /\ suffix[p] # 0 => suffix'[p] = suffix[p]

Step(r) ==
    \/ Arrive(r) \/ Enrol(r) \/ Decide(r) \/ Found(r) \/ AddPlan(r)
    \/ TrySlug(r) \/ AddPost(r) \/ Update(r) \/ Die(r)

LEMMA RequestTyped ==
    ASSUME NEW r \in Requests
    PROVE  /\ Req[r].op \in Ops /\ Req[r].as \in Subjects /\ Req[r].handle \in Handles
           /\ Req[r].title \in Titles /\ Req[r].pub \in Requests
           /\ Req[r].sets \in SUBSET Fields /\ Req[r].text \in Texts
BY CatalogAssumption DEF Request

LEMMA InTyped ==
    ASSUME NEW stage \in Stages
    PROVE  /\ In(stage) \in Progress
           /\ In(stage).stage = stage /\ In(stage).try = 1
BY CatalogAssumption DEF In, Progress, NoPage, Page

\* What r does to itself and to nobody else.
LEMMA OthersKeepTheirPlace ==
    ASSUME TypeOK, NEW r \in Requests, Step(r)
    PROVE  /\ \A q \in Requests \ {r} : req'[q] = req[q] /\ before'[q] = before[q]
           /\ ~Ended(r)
           /\ req' \in [Requests -> Progress]
           /\ before' \in [Requests -> SUBSET Requests]
<1> USE DEF TypeOK
<1>1. ASSUME NEW how \in Ends, End(r, how)
      PROVE  /\ \A q \in Requests \ {r} : req'[q] = req[q] /\ before'[q] = before[q]
             /\ req' \in [Requests -> Progress]
             /\ before' \in [Requests -> SUBSET Requests]
  <2>1. In(how) \in Progress
    BY InTyped DEF Stages
  <2> QED
    BY <1>1, <2>1 DEF End
<1>2. ASSUME NEW stage \in Stages, Goto(r, stage)
      PROVE  /\ \A q \in Requests \ {r} : req'[q] = req[q] /\ before'[q] = before[q]
             /\ req' \in [Requests -> Progress]
             /\ before' \in [Requests -> SUBSET Requests]
  <2>1. [req[r] EXCEPT !.stage = stage] \in Progress
    BY DEF Progress
  <2> QED
    BY <1>2, <2>1 DEF Goto
<1>3. CASE Arrive(r)
  <2>1. CASE End(r, "done")
    BY <1>1, <1>3, <2>1 DEF Arrive, At, Ended, Ends
  <2>2. CASE ~End(r, "done")
    <3>1. PICK stage \in {"known", "unknown"} :
             /\ req' = [req EXCEPT ![r].stage = stage]
             /\ before' = [before EXCEPT ![r] = Answered]
      BY <1>3, <2>2 DEF Arrive
    <3>2. [req[r] EXCEPT !.stage = stage] \in Progress
      BY DEF Progress, Stages
    <3> QED
      BY <1>3, <3>1, <3>2 DEF Arrive, Answered, At, Ended, Ends
  <2> QED
    BY <2>1, <2>2
<1>4. CASE Enrol(r)
  BY <1>1, <1>2, <1>4 DEF Enrol, At, Ended, Ends, Stages
<1>5. CASE Decide(r)
  <2>1. CASE End(r, "done") \/ Goto(r, "inserting") \/ Goto(r, "naming")
    BY <1>1, <1>2, <1>5, <2>1 DEF Decide, At, Ended, Ends, Stages
  <2>2. CASE /\ Owns(r)
             /\ req' = [req EXCEPT ![r].stage = "writing", ![r].seen = page[Req[r].pub]]
             /\ UNCHANGED before
    <3>1. [req[r] EXCEPT !.stage = "writing", !.seen = page[Req[r].pub]] \in Progress
      BY RequestTyped DEF Progress, Stages
    <3> QED
      BY <1>5, <2>2, <3>1 DEF Decide, At, Ended, Ends
  <2> QED
    BY <1>5, <2>1, <2>2 DEF Decide
<1>6. CASE Found(r)
  BY <1>1, <1>6 DEF Found, At, Ended, Ends
<1>7. CASE AddPlan(r)
  BY <1>1, <1>7 DEF AddPlan, At, Ended, Ends
<1>8. CASE TrySlug(r)
  <2>1. CASE Goto(r, "inserting")
    BY <1>2, <1>8, <2>1 DEF TrySlug, At, Ended, Ends, Stages
  <2>2. CASE /\ req[r].try < MaxSuffix
             /\ req' = [req EXCEPT ![r].try = req[r].try + 1]
             /\ UNCHANGED before
    <3>0. req[r].try + 1 \in 1 .. MaxSuffix
      BY <2>2, CatalogAssumption DEF Progress
    <3>1. [req[r] EXCEPT !.try = req[r].try + 1] \in Progress
      BY <3>0 DEF Progress
    <3> QED
      BY <1>8, <2>2, <3>1 DEF TrySlug, At, Ended, Ends
  <2> QED
    BY <1>8, <2>1, <2>2 DEF TrySlug
<1>9. CASE AddPost(r)
  BY <1>1, <1>9 DEF AddPost, At, Ended, Ends
<1>10. CASE Update(r)
  BY <1>1, <1>10 DEF Update, At, Ended, Ends
<1>11. CASE Die(r)
  BY <1>1, <1>11 DEF Die, At, Ended, Ends
<1> QED
  BY <1>3, <1>4, <1>5, <1>6, <1>7, <1>8, <1>9, <1>10, <1>11 DEF Step

\* The rows after a step of r.
LEMMA RowsGrow ==
    ASSUME CatInv, NEW r \in Requests, Step(r)
    PROVE  /\ users' \subseteq Subjects /\ pubs' \subseteq Requests
           /\ plans' \subseteq Requests
           /\ suffix' \in [Requests -> 0 .. MaxSuffix]
           /\ page' \in [Requests -> Page]
           /\ \A p, q \in pubs' : Req[p].handle = Req[q].handle => p = q
           /\ pubs' \subseteq pubs \union {r}
           /\ \A q \in Requests \ {r} : suffix'[q] = suffix[q]
           /\ suffix[r] = 0
<1>0. TypeOK /\ suffix[r] = 0
  BY OthersKeepTheirPlace DEF CatInv, Keeps
<1> USE <1>0 DEF TypeOK
<1>1. CASE Arrive(r) \/ Decide(r) \/ TrySlug(r) \/ Die(r)
  BY <1>1 DEF Arrive, Decide, TrySlug, Die, rows
<1>2. CASE Enrol(r)
  BY <1>2, RequestTyped DEF Enrol
<1>3. CASE Found(r)
  <2>1. [f \in Fields |-> Req[r].text] \in Page
    BY RequestTyped DEF Page
  <2> QED
    BY <1>3, <2>1 DEF Found, Taken
<1>4. CASE AddPlan(r)
  BY <1>4 DEF AddPlan
<1>5. CASE AddPost(r)
  <2>1. req[r].try \in 0 .. MaxSuffix
    BY CatalogAssumption DEF Progress
  <2> QED
    BY <1>5, <2>1 DEF AddPost
<1>6. CASE Update(r)
  <2> DEFINE differs == {f \in Req[r].sets : req[r].seen[f] # Req[r].text}
             old == page[Req[r].pub]
             new == [f \in Fields |-> IF f \in differs THEN Req[r].text ELSE old[f]]
  <2>1. old \in Page
    BY RequestTyped
  <2>2. new \in Page
    BY <2>1, RequestTyped DEF Page
  <2>3. page' = [page EXCEPT ![Req[r].pub] = new]
    BY <1>6 DEF Update
  <2> HIDE DEF new
  <2>4. page' \in [Requests -> Page]
    BY <2>2, <2>3
  <2> QED
    BY <1>6, <2>4 DEF Update
<1> QED
  BY <1>1, <1>2, <1>3, <1>4, <1>5, <1>6 DEF Step

LEMMA StepGrows ==
    ASSUME CatInv, NEW r \in Requests, Step(r)
    PROVE  Grows
<1>1. ASSUME NEW p \in Requests \ {r}
      PROVE  /\ Ended(p) => Ended(p)' /\ suffix'[p] = suffix[p]
             /\ Ended(p) => (p \in pubs' => p \in pubs)
             /\ suffix[p] # 0 => suffix'[p] = suffix[p]
  BY <1>1, OthersKeepTheirPlace, RowsGrow DEF CatInv, Ended
<1>2. ~Ended(r) /\ suffix[r] = 0
  BY OthersKeepTheirPlace, RowsGrow DEF CatInv
<1> QED
  BY <1>1, <1>2 DEF Grows

\* A slug that is used stays used.
LEMMA SlugsStayUsed ==
    ASSUME Grows, NEW r \in Requests, NEW n, SlugUsed(r, n)
    PROVE  SlugUsed(r, n)'
<1>1. PICK p \in Requests : /\ suffix[p] # 0
                            /\ Req[p].pub = Req[r].pub
                            /\ SlugOf(p) = SlugAt[Req[r].title][n]
  BY DEF SlugUsed
<1>2. suffix'[p] = suffix[p]
  BY <1>1 DEF Grows
<1> QED
  BY <1>1, <1>2 DEF SlugUsed, SlugOf

\* Whoever does not move keeps what holds of it.
LEMMA OthersKeep ==
    ASSUME CatInv, NEW r \in Requests, Step(r), NEW q \in Requests \ {r}
    PROVE  Keeps(q)'
<1>1. /\ req'[q] = req[q] /\ before'[q] = before[q] /\ suffix'[q] = suffix[q]
      /\ Keeps(q) /\ before[q] \subseteq Requests
  BY OthersKeepTheirPlace, RowsGrow DEF CatInv, TypeOK
<1>2. Grows
  BY StepGrows
<1>3. \A n : SlugUsed(q, n) => SlugUsed(q, n)'
  BY <1>2, SlugsStayUsed
<1>4. \A p \in before[q] : /\ Ended(p)' /\ suffix'[p] = suffix[p]
                           /\ p \in pubs' => p \in pubs
  BY <1>1, <1>2 DEF Grows, Keeps
<1> QED
  BY <1>1, <1>3, <1>4 DEF Keeps, Ended, At, SlugOf

\* A request that ends without a post.
LEMMA EndKeeps ==
    ASSUME CatInv, NEW r \in Requests, NEW how \in Ends, End(r, how), Step(r),
           suffix'[r] = suffix[r]
    PROVE  Keeps(r)'
<1>1. req'[r].stage = how /\ before'[r] = {} /\ req'[r].try = 1
  BY InTyped DEF End, CatInv, TypeOK, Stages
<1>2. suffix[r] = 0
  BY RowsGrow
<1>3. 1 .. suffix'[r] - 1 = {}
  BY <1>2
<1> QED
  BY <1>1, <1>2, <1>3 DEF Keeps, Ended, At, Ends

LEMMA ArriveKeeps ==
    ASSUME CatInv, NEW r \in Requests, Arrive(r)
    PROVE  Keeps(r)'
<1>0. Step(r) /\ UNCHANGED rows /\ suffix[r] = 0
  BY RowsGrow DEF Step, Arrive
<1>1. CASE End(r, "done")
  BY <1>0, <1>1, EndKeeps DEF Ends, rows
<1>2. CASE ~End(r, "done")
  <2>1. PICK stage \in {"known", "unknown"} :
           /\ req' = [req EXCEPT ![r].stage = stage]
           /\ before' = [before EXCEPT ![r] = Answered]
    BY <1>2 DEF Arrive
  <2>2. /\ req'[r].stage = stage /\ req'[r].try = req[r].try
        /\ before'[r] = Answered
    BY <2>1 DEF CatInv, TypeOK, Progress
  <2>3. Grows
    BY <1>0, StepGrows
  <2>4. \A p \in before'[r] : Ended(p)'
    BY <2>2, <2>3 DEF Grows, Answered
  <2>5. 1 .. suffix'[r] - 1 = {}
    BY <1>0 DEF rows
  <2>6. req[r].try = 1
    BY DEF Arrive, At, CatInv, Keeps
  <2>7. stage = "unknown" => \A p \in before'[r] : Req[p].as # Req[r].as
    <3>1. stage = "unknown" => ~Registered(r)
      BY <1>2, <2>2 DEF Arrive, CatInv, TypeOK, Progress
    <3> QED
      BY <2>2, <3>1 DEF Answered, Registered
  <2> QED
    BY <1>0, <2>6, <2>2, <2>4, <2>5, <2>7 DEF Keeps, Ended, At, rows
<1> QED
  BY <1>1, <1>2

\* A request that goes on keeps the rows it has to look at.
LEMMA GoKeeps ==
    ASSUME CatInv, NEW r \in Requests, Step(r), UNCHANGED <<suffix, before>>
    PROVE  /\ suffix'[r] = 0 /\ 1 .. suffix'[r] - 1 = {}
           /\ \A p \in before'[r] : Ended(p)'
<1>1. suffix[r] = 0 /\ Grows
  BY RowsGrow, StepGrows
<1>2. \A p \in before[r] : Ended(p) /\ p \in Requests
  BY DEF CatInv, Keeps, TypeOK
<1> QED
  BY <1>1, <1>2 DEF Grows

LEMMA EnrolKeeps ==
    ASSUME CatInv, NEW r \in Requests, Enrol(r)
    PROVE  Keeps(r)'
<1>0. Step(r) /\ UNCHANGED <<pubs, suffix>>
  BY DEF Step, Enrol
<1>1. CASE End(r, "done") \/ End(r, "failed")
  BY <1>0, <1>1, EndKeeps DEF Ends
<1>2. CASE Goto(r, "known")
  <2>1. req'[r].stage = "known" /\ UNCHANGED before /\ req'[r].try = req[r].try
    BY <1>2 DEF Goto, CatInv, TypeOK, Progress
  <2>2. req[r].try = 1
    BY DEF Enrol, At, CatInv, Keeps
  <2> QED
    BY <1>0, <2>1, <2>2, GoKeeps DEF Keeps, Ended, At
<1> QED
  BY <1>1, <1>2 DEF Enrol

LEMMA DecideKeeps ==
    ASSUME CatInv, NEW r \in Requests, Decide(r)
    PROVE  Keeps(r)'
<1>0. /\ Step(r) /\ UNCHANGED rows /\ At(r, "known")
      /\ req[r].try = 1 /\ 1 .. req[r].try - 1 = {}
  BY DEF Step, Decide, At, CatInv, Keeps
<1>1. CASE End(r, "done")
  BY <1>0, <1>1, EndKeeps DEF Ends, rows
<1>2. CASE Req[r].op = "found" /\ ~Taken(r) /\ Goto(r, "inserting")
  <2>1. req'[r].stage = "inserting" /\ UNCHANGED before /\ req'[r].try = req[r].try
    BY <1>2 DEF Goto, CatInv, TypeOK, Progress
  <2> QED
    BY <1>0, <1>2, <2>1, GoKeeps DEF Keeps, Ended, At, rows, Taken
<1>3. CASE Req[r].op = "plan" /\ Goto(r, "inserting")
  <2>1. req'[r].stage = "inserting" /\ UNCHANGED before /\ req'[r].try = req[r].try
    BY <1>3 DEF Goto, CatInv, TypeOK, Progress
  <2> QED
    BY <1>0, <1>3, <2>1, GoKeeps DEF Keeps, Ended, At, rows
<1>4. CASE Req[r].op = "post" /\ Goto(r, "naming")
  <2>1. req'[r].stage = "naming" /\ UNCHANGED before /\ req'[r].try = req[r].try
    BY <1>4 DEF Goto, CatInv, TypeOK, Progress
  <2> QED
    BY <1>0, <1>4, <2>1, GoKeeps DEF Keeps, Ended, At, rows
<1>5. CASE /\ req' = [req EXCEPT ![r].stage = "writing", ![r].seen = page[Req[r].pub]]
           /\ UNCHANGED before
  <2>1. req'[r].stage = "writing" /\ UNCHANGED before /\ req'[r].try = req[r].try
    BY <1>5 DEF CatInv, TypeOK, Progress
  <2> QED
    BY <1>0, <2>1, GoKeeps DEF Keeps, Ended, At, rows
<1> QED
  BY <1>1, <1>2, <1>3, <1>4, <1>5 DEF Decide

LEMMA TrySlugKeeps ==
    ASSUME CatInv, NEW r \in Requests, TrySlug(r)
    PROVE  Keeps(r)'
<1> DEFINE n == req[r].try
<1>0. /\ Step(r) /\ UNCHANGED rows /\ At(r, "naming") /\ n \in 1 .. MaxSuffix
      /\ \A k \in 1 .. n - 1 : SlugUsed(r, k)
  BY DEF Step, TrySlug, CatInv, Keeps, TypeOK, Progress
<1>1. \A k : SlugUsed(r, k)' <=> SlugUsed(r, k)
  BY <1>0 DEF SlugUsed, SlugOf, rows
<1>2. CASE ~SlugUsed(r, n) /\ Goto(r, "inserting")
  <2>1. req'[r].stage = "inserting" /\ UNCHANGED before /\ req'[r].try = n
    BY <1>2 DEF Goto, CatInv, TypeOK, Progress
  <2>2. \A p \in before'[r] :
           suffix'[p] # 0 /\ Req[p].pub = Req[r].pub
               => SlugOf(p)' # SlugAt[Req[r].title][req'[r].try]
    <3>1. before'[r] \subseteq Requests
      BY <2>1 DEF CatInv, TypeOK
    <3> QED
      BY <1>0, <1>2, <2>1, <3>1 DEF SlugUsed, SlugOf, rows
  <2>3. Req[r].op = "post"
    BY <1>0 DEF CatInv, Keeps
  <2> QED
    BY <1>0, <1>1, <2>1, <2>2, <2>3, GoKeeps DEF Keeps, Ended, At, rows
<1>3. CASE SlugUsed(r, n) /\ req' = [req EXCEPT ![r].try = n + 1] /\ UNCHANGED before
  <2>1. req'[r].stage = "naming" /\ req'[r].try = n + 1
    BY <1>0, <1>3 DEF CatInv, TypeOK, Progress, At
  <2>2. \A k \in 1 .. req'[r].try - 1 : SlugUsed(r, k)
    BY <1>0, <1>3, <2>1
  <2>3. Req[r].op = "post"
    BY <1>0 DEF CatInv, Keeps
  <2> QED
    BY <1>0, <1>1, <1>3, <2>1, <2>2, <2>3, GoKeeps DEF Keeps, Ended, At, rows
<1> QED
  BY <1>2, <1>3 DEF TrySlug

LEMMA AddPostKeeps ==
    ASSUME CatInv, NEW r \in Requests, AddPost(r)
    PROVE  /\ Keeps(r)'
           /\ suffix'[r] = req[r].try
           /\ \A p \in before[r] : ~SharesSlug(p, r)'
<1>0. /\ Step(r) /\ Keeps(r) /\ At(r, "inserting") /\ Req[r].op = "post"
      /\ suffix'[r] = req[r].try /\ before[r] \subseteq Requests
  BY DEF Step, AddPost, CatInv, TypeOK
<1>1. Grows
  BY <1>0, StepGrows
<1>2. \A k \in 1 .. suffix'[r] - 1 : SlugUsed(r, k)'
  BY <1>0, <1>1, SlugsStayUsed DEF Keeps
<1>3. req'[r].stage = "done" /\ before'[r] = {} /\ req'[r].try = 1
  BY InTyped DEF AddPost, End, CatInv, TypeOK, Stages, Ends
<1>4. Keeps(r)'
  BY <1>2, <1>3 DEF Keeps, Ended, At, Ends
<1>5. ASSUME NEW p \in before[r] PROVE ~SharesSlug(p, r)'
  <2>1. suffix'[p] = suffix[p]
    BY <1>0, <1>1 DEF Keeps, Grows
  <2> QED
    BY <1>0, <2>1 DEF Keeps, SharesSlug, SlugOf
<1> QED
  BY <1>0, <1>4, <1>5

LEMMA OtherStepsKeep ==
    ASSUME CatInv, NEW r \in Requests, Found(r) \/ AddPlan(r) \/ Update(r) \/ Die(r)
    PROVE  Keeps(r)'
<1>1. Step(r) /\ suffix' = suffix
  BY DEF Step, Found, AddPlan, Update, Die, rows
<1>2. End(r, "done") \/ End(r, "failed")
  BY DEF Found, AddPlan, Update, Die
<1> QED
  BY <1>1, <1>2, EndKeeps DEF Ends

LEMMA StepKeeps ==
    ASSUME CatInv, NEW r \in Requests, Step(r)
    PROVE  CatInv'
<1>1. TypeOK'
  BY OthersKeepTheirPlace, RowsGrow DEF CatInv, TypeOK
<1>2. Keeps(r)'
  BY ArriveKeeps, EnrolKeeps, DecideKeeps, TrySlugKeeps, AddPostKeeps, OtherStepsKeep
  DEF Step
<1>3. \A q \in Requests \ {r} : Keeps(q)'
  BY OthersKeep
<1> QED
  BY <1>1, <1>2, <1>3 DEF CatInv

LEMMA CatInvHolds == Spec => []CatInv
<1>1. Init => CatInv
  <2> SUFFICES ASSUME Init PROVE CatInv
    OBVIOUS
  <2>1. In("new") \in Progress /\ In("new").stage = "new" /\ In("new").try = 1
    BY InTyped DEF Stages
  <2>2. NoPage \in Page
    BY DEF NoPage, Page
  <2>3. TypeOK
    BY <2>1, <2>2, CatalogAssumption DEF Init, TypeOK
  <2>4. ASSUME NEW r \in Requests PROVE Keeps(r)
    <3>1. /\ req[r].stage = "new" /\ req[r].try = 1 /\ suffix[r] = 0 /\ before[r] = {}
          /\ 1 .. suffix[r] - 1 = {}
      BY <2>1 DEF Init
    <3> QED
      BY <3>1 DEF Keeps, At, Ended
  <2> QED
    BY <2>3, <2>4 DEF CatInv
<1>2. CatInv /\ [Next]_vars => CatInv'
  <2> SUFFICES ASSUME CatInv, [Next]_vars PROVE CatInv'
    OBVIOUS
  <2>1. ASSUME NEW r \in Requests, Step(r) PROVE CatInv'
    BY <2>1, StepKeeps
  <2>2. CASE UNCHANGED vars
    BY <2>2 DEF vars, rows, CatInv, TypeOK, Keeps, Ended, At, SlugUsed, SlugOf
  <2> QED
    BY <2>1, <2>2 DEF Next, Step
<1> QED
  BY <1>1, <1>2, PTL DEF Spec

-----------------------------------------------------------------------------
\* The tables keep their types and handles are unique, however many look-ups
\* of a free handle run side by side (create_publication).
THEOREM TypeCorrect == Spec => []TypeOK
<1>1. CatInv => TypeOK
  BY DEF CatInv
<1> QED
  BY <1>1, CatInvHolds, PTL

\* No post skips a slug that is free, for any titles and any number of posts
\* created together (_unique_slug).
THEOREM SuffixesCountOn == Spec => []SuffixesHaveNoGaps
<1>1. CatInv => SuffixesHaveNoGaps
  BY DEF CatInv, Keeps, SuffixesHaveNoGaps
<1> QED
  BY <1>1, CatInvHolds, PTL

\* Two requests share a slug, or one is refused by the constraint on handles or
\* on users, only if they overlapped (_unique_slug, create_publication,
\* get_current_user).
THEOREM CollisionsAreOverlaps == Spec => OnlyOverlapsCollide
<1>1. CatInv /\ [Next]_vars =>
        \A r \in Requests :
          /\ suffix'[r] # suffix[r] => \A p \in before[r] : ~SharesSlug(p, r)'
          /\ At(r, "failed")' /\ ~Ended(r) =>
                \A p \in before[r] :
                    IF At(r, "unknown") THEN Req[p].as # Req[r].as
                    ELSE p \in pubs => Req[p].handle # Req[r].handle
  <2> SUFFICES ASSUME CatInv, [Next]_vars, NEW r \in Requests
               PROVE  /\ suffix'[r] # suffix[r] => \A p \in before[r] : ~SharesSlug(p, r)'
                      /\ At(r, "failed")' /\ ~Ended(r) =>
                            \A p \in before[r] :
                                IF At(r, "unknown") THEN Req[p].as # Req[r].as
                                ELSE p \in pubs => Req[p].handle # Req[r].handle
    OBVIOUS
  <2>1. suffix'[r] # suffix[r] => AddPost(r)
    <3>1. ASSUME NEW q \in Requests, Step(q), suffix'[r] # suffix[r] PROVE AddPost(r)
      <4>1. q = r
        BY <3>1, RowsGrow
      <4> QED
        BY <3>1, <4>1
        DEF Step, Arrive, Enrol, Decide, Found, AddPlan, TrySlug, Update, Die, rows
    <3> QED
      BY <3>1 DEF Next, Step, vars, rows
  <2>2. Keeps(r)
    BY DEF CatInv
  <2>3. At(r, "failed")' /\ ~Ended(r) => At(r, "unknown") \/ Found(r)
    <3>1. ASSUME NEW q \in Requests, Step(q), At(r, "failed")', ~Ended(r)
          PROVE  Enrol(r) \/ Found(r)
      <4>1. q = r
        BY <3>1, OthersKeepTheirPlace DEF CatInv, Ended, At, Ends
      <4>2. ASSUME End(r, "done") PROVE FALSE
        BY <3>1, <4>2, InTyped DEF End, At, CatInv, TypeOK, Stages, Ends
      <4>3. ASSUME req'[r].stage = req[r].stage PROVE FALSE
        BY <3>1, <4>3 DEF At, Ended, Ends
      <4>4. ASSUME NEW stage \in Stages \ Ends, Goto(r, stage) PROVE FALSE
        BY <3>1, <4>4 DEF Goto, At, CatInv, TypeOK, Progress, Ends
      <4>5. ~Arrive(r)
        BY <3>1, <4>2 DEF Arrive, At, CatInv, TypeOK, Progress
      <4>6. ~Decide(r)
        BY <3>1, <4>2, <4>4 DEF Decide, At, CatInv, TypeOK, Progress, Stages, Ends
      <4>7. ~TrySlug(r)
        BY <3>1, <4>3, <4>4 DEF TrySlug, At, CatInv, TypeOK, Progress, Stages, Ends
      <4> QED
        BY <3>1, <4>1, <4>2, <4>5, <4>6, <4>7 DEF Step, AddPlan, AddPost, Update, Die
    <3> QED
      BY <3>1 DEF Next, Step, vars, At, Ended, Ends, Enrol
  <2> QED
    BY <2>1, <2>2, <2>3, AddPostKeeps DEF Keeps, Found, At
<1> QED
  BY <1>1, CatInvHolds, PTL DEF Spec, OnlyOverlapsCollide
=============================================================================
