----------------------------- MODULE MCCommerce -----------------------------
(* Instances of Commerce for TLC. *)
EXTENDS Commerce, TLC

CONSTANTS r1, r2, r3, r4, r5, r6, r7, r8, u1, u2, p1, free, paid,
          s1, s2, s3, k1, k2, k3, k4, k5, k6

MCOwner == p1 :> u2
MCPlanPub == free :> p1 @@ paid :> p1
MCPrice == free :> 0 @@ paid :> 5

Ask(op, user, key, plan, amount, sub) ==
    [op |-> op, user |-> user, key |-> key, pub |-> p1, plan |-> plan,
     amount |-> amount, sub |-> sub]

\* A subscription and its retry, another one with another key, a change of the
\* first to the free plan, its cancellation, and a gift that reuses a key; a
\* second change of the first, within the paid plan, and a second cancellation.
MCRequests == {r1, r2, r3, r4, r5, r6, r7, r8}
Asked == r1 :> Ask("create", u1, k1, paid, 5, s1)
      @@ r2 :> Ask("create", u1, k2, paid, 7, s2)
      @@ r3 :> Ask("cancel", u1, k3, paid, 5, s1)
      @@ r4 :> Ask("change", u1, k4, free, 0, s1)
      @@ r5 :> Ask("create", u1, k1, paid, 5, s3)
      @@ r6 :> Ask("gift", u1, k3, paid, 9, s1)
      @@ r7 :> Ask("change", u1, k5, paid, 7, s1)
      @@ r8 :> Ask("cancel", u1, k6, paid, 5, s1)
MCReq == Asked   \* a definition of its own: TLC evaluates Asked only once
=============================================================================
