\* Six requests about one post: what publishing commits and what it may undo.
CONSTANTS
    r1 = r1  r2 = r2  r3 = r3  r4 = r4  r5 = r5  r6 = r6  p1 = p1
    u1 = u1  u2 = u2  t1 = t1  t2 = t2
    Requests = {r1, r2, r3, r4, r5, r6}
    Posts = {p1}
    Users = {u1, u2}
    Texts = {t1, t2}
    Author <- MCAuthor
    FirstText = t1
    Req <- MCReqs
    Nobody = Nobody
SPECIFICATION Spec
INVARIANTS OneEventPerPost EventTellsVersion PublishedIsComplete
PROPERTIES NeverDraftAgain
CHECK_DEADLOCK FALSE
