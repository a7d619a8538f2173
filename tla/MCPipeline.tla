----------------------------- MODULE MCPipeline -----------------------------
(* Instances of Pipeline for TLC. *)
EXTENDS Pipeline, TLC

CONSTANTS w1, w2, s1

MCWorkers1 == {w1}
MCWorkers2 == {w1, w2}
MCSymmetry == Permutations(MCWorkers2)

\* A gift, the event of its ledger transaction and that of its failure.
MCGiftKinds == 1 :> "gift" @@ 2 :> "ack" @@ 3 :> "ack"
MCGiftRecorded == 1 :> 2
MCGiftNotice == 1 :> 3

\* A paid subscription and the event of its ledger transaction.
MCKinds == 1 :> "paid" @@ 2 :> "ack"
MCRecorded == 1 :> 2
MCNoNotice == <<>>

MCSources == [e \in Events |-> s1]
=============================================================================
