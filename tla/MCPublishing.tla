---------------------------- MODULE MCPublishing ----------------------------
(* Instances of Publishing for TLC. *)
EXTENDS Publishing, TLC

CONSTANTS r1, r2, r3, r4, r5, r6, p1, u1, u2, t1, t2

MCAuthor == p1 :> u1

Ask(op, post, user, text, visibility) ==
    [op |-> op, post |-> post, user |-> user, text |-> text,
     visibility |-> visibility]

\* Three publish requests, an edit that makes the post paid, an archival, and
\* an archival by somebody else.
Asked == r1 :> Ask("publish", p1, u1, t1, "free")
      @@ r2 :> Ask("publish", p1, u1, t1, "free")
      @@ r3 :> Ask("edit", p1, u1, t2, "paid")
      @@ r4 :> Ask("archive", p1, u1, t1, "free")
      @@ r5 :> Ask("publish", p1, u1, t1, "free")
      @@ r6 :> Ask("archive", p1, u2, t1, "free")
MCReqs == Asked
=============================================================================
