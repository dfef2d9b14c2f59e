------------------------ MODULE MCRateLimitAdmission ------------------------
(* Instance of RateLimitAdmission for TLC.                                 *)
EXTENDS RateLimitAdmission

NoSkew == {0}

=============================================================================
