---------------------------- MODULE MCMembership ----------------------------
(* Instances of Membership, and of Commerce within it, for TLC. *)
EXTENDS Membership, MCCommerce

Sent == {r \in Requests : req[r].stage # "new"}

\* Two scenes: rivals, retries and reused keys; and two changes and two
\* cancellations of one subscription.
MCScenes ==
    \/ Sent \subseteq {r1, r2, r3, r4, r5, r6}
    \/ Sent \subseteq {r1, r3, r4, r7, r8}
=============================================================================
