\* What the summary of a publication counts when time passes.
CONSTANTS
    r1 = r1  r2 = r2  r3 = r3  r4 = r4  r5 = r5  r6 = r6  r7 = r7  r8 = r8
    u1 = u1  u2 = u2  p1 = p1  free = free  paid = paid  s1 = s1  s2 = s2  s3 = s3
    k1 = k1  k2 = k2  k3 = k3  k4 = k4  k5 = k5  k6 = k6
    Requests <- MCRequests
    Keys = {k1, k2, k3, k4, k5, k6}
    Users = {u1, u2}
    Pubs = {p1}
    Owner <- MCOwner
    Plans = {free, paid}
    PlanPub <- MCPlanPub
    Price <- MCPrice
    Open = {paid}
    Subs = {s1, s2, s3}
    Req <- MCReq
    Nobody = Nobody
    Period = 0
    MaxClock = 1
SPECIFICATION MembershipSpec
CONSTRAINT MCScenes
INVARIANTS CountsApplyPredicate
CHECK_DEADLOCK FALSE
