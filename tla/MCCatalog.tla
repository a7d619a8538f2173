------------------------------ MODULE MCCatalog ------------------------------
(* An instance of Catalog for TLC. *)
EXTENDS Catalog, TLC

CONSTANTS a, b, h, t, t2, x, x2, x22, x3, old, new,
          r1, r2, r3, r4, r5, r6, r7, r8

Ask(op, as, title, sets) ==
    [op |-> op, as |-> as, handle |-> h, title |-> title, pub |-> r1, sets |-> sets,
     text |-> IF op = "update" THEN new ELSE old]

\* Two founders of one handle, who are also the first to be seen of their user,
\* posts "x", "x" and "x 2", and one request of every other kind.
Asked == r1 :> Ask("found", a, t, {})
      @@ r2 :> Ask("found", b, t, {})
      @@ r3 :> Ask("post", a, t, {})
      @@ r4 :> Ask("post", a, t, {})
      @@ r5 :> Ask("post", a, t2, {})
      @@ r6 :> Ask("register", a, t, {})
      @@ r7 :> Ask("plan", a, t, {})
      @@ r8 :> Ask("update", a, t, {"name"})
MCReq == Asked
MCSymmetry == Permutations({r3, r4})
MCSlugAt == t :> <<x, x2, x3>> @@ t2 :> <<x2, x22, x3>>
=============================================================================
