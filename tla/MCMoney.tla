------------------------------ MODULE MCMoney ------------------------------
(* Instances of Money for TLC. *)
EXTENDS Money

\* Half a cent of fee (5, 25), just below and above half a cent of tax (6, 19,
\* 56), the smallest gift, and the largest amount a column holds.
MCAmounts == {5, 19, 25, 50, 56, 63}
=============================================================================
