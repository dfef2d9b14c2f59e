------------------------- MODULE RateLimitAdmission -------------------------
(***************************************************************************)
(* RateLimit with the history of the requests that the guard let through   *)
(* while Redis answered, to say what the limit is meant to achieve.        *)
(***************************************************************************)
EXTENDS RateLimit

VARIABLE admitted  \* history: the timestamps of the requests let through

AdmissionInit == Init /\ admitted = {}

AdmissionNext ==
    \/ \E r \in Reqs :
          /\ Decide(r)
          /\ admitted' = IF req[r].count <= Points
                         THEN admitted \cup {req[r].at} ELSE admitted
    \/ /\ Next
       /\ ~ \E r \in Reqs : Decide(r)
       /\ UNCHANGED admitted

AdmissionSpec == AdmissionInit /\ [][AdmissionNext]_<<vars, admitted>>

\* redis-rate-limit.guard.ts:22 "points: number; // Number of requests allowed":
\* in no window of the configured duration are requests of more timestamps let
\* through.  Requests of one millisecond count once, as they do in Redis.
AdmittedWithinLimit ==
    \A a \in admitted : Cardinality({b \in admitted : a - Window < b /\ b <= a}) <= Points

=============================================================================
