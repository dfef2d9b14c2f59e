----------------------------- MODULE MCAccounts -----------------------------
(* Instances of Accounts for TLC. *)
EXTENDS Accounts, TLC

Symmetry == Permutations(Ids) \cup Permutations(Handlers)
              \cup Permutations(Emails) \cup Permutations(Passwords)
=============================================================================
