----------------------------- MODULE MCAccounts -----------------------------
(* Instances of Accounts for TLC: an account that can be verified, reset   *)
(* twice and logged into twice.                                            *)
EXTENDS Accounts
=============================================================================
