-------------------------- MODULE MCRefreshTokens --------------------------
(* Instances of RefreshTokens for TLC.                                     *)
EXTENDS RefreshTokens, TLC

\* Users, tokens and request slots are interchangeable.
Symmetry == Permutations(Users) \cup Permutations(Tokens) \cup Permutations(Reqs)

=============================================================================
