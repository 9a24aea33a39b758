---------------------------- MODULE MCImAccounts ----------------------------
(* Instances of ImAccounts for TLC: accounts are model values. *)
EXTENDS ImAccounts

CONSTANTS a1, a2
=============================================================================
