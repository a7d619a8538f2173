-------------------------- MODULE MCEventProcessing --------------------------
(* An instance of EventProcessing for TLC. *)
EXTENDS EventProcessing, TLC

CONSTANTS w1, w2, e1, e2, e3, s1, s2

MCWorkers == {w1, w2}
MCSymmetry == Permutations(MCWorkers)

\* Two events about one gift, of which one becomes a source conflict (refused
\* before its receipt or in its handler, whichever comes first), and a free
\* subscription, which has statistics and no ledger transaction.
MCEvents == {e1, e2, e3}
MCKinds == (e1 :> "gift") @@ (e2 :> "gift") @@ (e3 :> "free")
MCSources == (e1 :> s1) @@ (e2 :> s1) @@ (e3 :> s2)
=============================================================================
