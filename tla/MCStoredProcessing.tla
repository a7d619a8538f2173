-------------------------- MODULE MCStoredProcessing --------------------------
(* An instance of StoredProcessing for TLC. *)
EXTENDS StoredProcessing, MCEventProcessing
=============================================================================
