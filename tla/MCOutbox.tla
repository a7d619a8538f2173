------------------------------ MODULE MCOutbox ------------------------------
(* Instances of Outbox and its history for TLC. *)
EXTENDS OutboxHistory, TLC

CONSTANTS p1, p2
MCPollers1 == {p1}
MCPollers2 == {p1, p2}
MCSymmetry == Permutations(MCPollers2)
=============================================================================
