---------------------------- MODULE MCLocalWorker ----------------------------
(* An instance of LocalWorker for TLC. *)
EXTENDS LocalWorker, TLC

CONSTANTS w1, w2, s1, s2

\* An event whose payload is refused, before a gift, and the event of the
\* gift's ledger transaction.
MCKinds == 1 :> "malformed" @@ 2 :> "gift" @@ 3 :> "ack"
MCSources == 1 :> s2 @@ 2 :> s1 @@ 3 :> s1
MCRecorded == 2 :> 3
MCNoNotice == <<>>
=============================================================================
