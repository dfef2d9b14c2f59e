---------------------------- MODULE MCRateLimit ----------------------------
(* Instances of RateLimit for TLC.                                         *)
EXTENDS RateLimit

\* One instance shares the clock of Redis, another one is ahead of it.
SomeSkew == {0, 1}

=============================================================================
