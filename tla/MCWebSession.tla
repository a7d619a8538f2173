---------------------------- MODULE MCWebSession ----------------------------
(* Instances of WebSession for TLC. *)
EXTENDS WebSession

CONSTANTS alice, bob, d1, d2
=============================================================================
