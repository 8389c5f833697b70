----------------------------- MODULE MCAccounts -----------------------------
(* Two people with an account and one without, one organization. *)
EXTENDS Accounts
=============================================================================
