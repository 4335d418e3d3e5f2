---------------------------- MODULE MCVaultLogin ---------------------------
(***************************************************************************)
(* An instance of VaultLogin for TLC: two calls the policy allows and one  *)
(* it denies, so that tokens are replaced both when they have expired and  *)
(* when they have not.                                                     *)
(***************************************************************************)
EXTENDS VaultLogin

CONSTANTS c1, c2, c3

MCCalls == {c1, c2, c3}
MCDenied == {c3}
=============================================================================
