----------------------------- MODULE MCAccounts -----------------------------
(***************************************************************************)
(* Accounts for TLC: the constants are plain values, given in the cfg.     *)
(***************************************************************************)
EXTENDS Accounts, TLC

\* Requests, accounts and addresses differ in nothing but their names, and no
\* liveness property is checked.
NameSymmetry ==
  Permutations(Requests) \cup Permutations(Accounts) \cup Permutations(Emails)
=============================================================================
