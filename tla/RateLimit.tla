----------------------------- MODULE RateLimit -----------------------------
(***************************************************************************)
(* RedisRateLimitGuard for one key (one endpoint and one identifier; keys  *)
(* do not interact).  Requests of several application instances read the   *)
(* clock of their instance, then run the Lua script in Redis, then decide  *)
(* on its reply.  The sorted set stores timestamps as member and as score, *)
(* so it is a set of timestamps.                                           *)
(***************************************************************************)
EXTENDS Integers, FiniteSets

CONSTANTS
    Reqs,       \* requests that may be in the guard at once
    Skews,      \* clocks of the instances minus the clock of Redis
    Points,     \* config.points
    Window,     \* config.duration
    Block,      \* config.blockDuration || config.duration
    MaxDelay,   \* bound of how old a timestamp is when its script runs
    MaxTime     \* bound of the clock

ASSUME PointsAssumption == Points \in Nat \ {0}
ASSUME WindowAssumption == Window \in Nat \ {0}
ASSUME BlockAssumption == Block \in Nat /\ Block >= Window
ASSUME SkewsAssumption == Skews \subseteq Int /\ Skews # {}
ASSUME MaxDelayAssumption == MaxDelay \in Nat
ASSUME MaxTimeAssumption == MaxTime \in Nat

VARIABLES
    now,        \* the clock of Redis
    up,         \* does Redis answer
    zset,       \* the timestamps stored under the key
    expireAt,   \* when the key expires, in the clock of Redis
    req,        \* the local state of each request
    recorded,   \* history: timestamps that were ever stored
    overtaken   \* history: has a script run after one with a later timestamp

vars == <<now, up, zset, expireAt, req, recorded, overtaken>>

Steps == {"idle", "script", "decide", "failOpen", "allowed", "denied"}

\* at is Date.now() of the instance, count the reply of the script; resent bounds
\* the times the call of one request is sent again to one.
Slot == [pc : Steps, at : Int, count : Nat, resent : BOOLEAN]
Idle == [pc |-> "idle", at |-> 0, count |-> 0, resent |-> FALSE]

Init ==
    /\ now = 0
    /\ up = TRUE
    /\ zset = {}
    /\ expireAt = 0
    /\ req = [r \in Reqs |-> Idle]
    /\ recorded = {}
    /\ overtaken = FALSE

\* canActivate up to the call of redis.eval: the timestamp is read here.
CheckRateLimit(r) ==
    /\ req[r].pc = "idle"
    /\ \E skew \in Skews :
          req' = [req EXCEPT ![r] = [Idle EXCEPT !.pc = "script", !.at = now + skew]]
    /\ UNCHANGED <<now, up, zset, expireAt, recorded, overtaken>>

\* Faulty variants: entries of the last tick of the window are removed, or the
\* check of the room is off by one.
InWindow_TooNarrow(at) == {e \in zset : e > at - Window + 1}
Room_OffByOne(n) == n <= Points

\* ZREMRANGEBYSCORE -inf windowStart, both ends included.
InWindow(at) == {e \in zset : e > at - Window}
Room(n) == n < Points

\* The Lua script, atomic in Redis.
LuaScript(r) ==
    /\ req[r].pc = "script"
    /\ up
    /\ LET at == req[r].at
           current == InWindow(at)
           n == Cardinality(current)
       IN  \/ /\ Room(n)
              /\ zset' = current \cup {at}
              /\ expireAt' = now + Block
              /\ recorded' = recorded \cup {at}
              /\ req' = [req EXCEPT ![r] = [@ EXCEPT !.pc = "decide", !.count = n + 1]]
           \/ /\ ~Room(n)
              /\ zset' = current
              /\ req' = [req EXCEPT ![r] = [@ EXCEPT !.pc = "decide", !.count = n]]
              /\ UNCHANGED <<expireAt, recorded>>
    /\ overtaken' = (overtaken \/ \E e \in recorded : e > req[r].at)
    /\ UNCHANGED <<now, up>>

\* Faulty variant: the error ends the request.
RedisError_Thrown(r) ==
    /\ req[r].pc \in {"script", "decide", "denied"}
    /\ ~up
    /\ req' = [req EXCEPT ![r].pc = "thrown"]
    /\ UNCHANGED <<now, up, zset, expireAt, recorded, overtaken>>

\* eval rejects, before the script ran or after it, when its reply is lost; or
\* the ttl of a refused request does.
RedisError(r) ==
    /\ req[r].pc \in {"script", "decide", "denied"}
    /\ ~up
    /\ req' = [req EXCEPT ![r] = [Idle EXCEPT !.pc = "failOpen"]]
    /\ UNCHANGED <<now, up, zset, expireAt, recorded, overtaken>>

\* A call whose reply is lost is sent again when the connection is back, with the
\* timestamp it had: its script runs twice.
Resend(r) ==
    /\ req[r].pc = "decide"
    /\ ~up
    /\ ~req[r].resent
    /\ now - req[r].at <= MaxDelay
    /\ req' = [req EXCEPT ![r] = [@ EXCEPT !.pc = "script", !.count = 0, !.resent = TRUE]]
    /\ UNCHANGED <<now, up, zset, expireAt, recorded, overtaken>>

Decide(r) ==
    /\ req[r].pc = "decide"
    /\ req' = [req EXCEPT ![r] = [Idle EXCEPT !.pc = IF req[r].count <= Points
                                                     THEN "allowed" ELSE "denied"]]
    /\ UNCHANGED <<now, up, zset, expireAt, recorded, overtaken>>

\* Faulty variant: the request waits until Redis is back.
FailOpen_WaitsForRedis(r) ==
    /\ req[r].pc = "failOpen"
    /\ up
    /\ req' = [req EXCEPT ![r].pc = "script"]
    /\ UNCHANGED <<now, up, zset, expireAt, recorded, overtaken>>

\* An error that is not an HttpException lets the request through.
FailOpen(r) ==
    /\ req[r].pc = "failOpen"
    /\ req' = [req EXCEPT ![r].pc = "allowed"]
    /\ UNCHANGED <<now, up, zset, expireAt, recorded, overtaken>>

\* The request leaves the guard: for the handler, or with a 429 that carries the
\* TTL of the key, which Redis must give first.
Leave(r) ==
    /\ req[r].pc \in {"allowed", "denied"}
    /\ req[r].pc = "denied" => up
    /\ req' = [req EXCEPT ![r] = Idle]
    /\ UNCHANGED <<now, up, zset, expireAt, recorded, overtaken>>

\* Time passes in Redis, which drops the key when its TTL is over.
Tick ==
    /\ now < MaxTime
    /\ \A r \in Reqs : req[r].pc = "script" => now - req[r].at < MaxDelay
    /\ now' = now + 1
    /\ zset' = IF expireAt <= now' THEN {} ELSE zset
    /\ UNCHANGED <<up, expireAt, req, recorded, overtaken>>

\* Redis goes away, or comes back with what it had stored.
Outage ==
    /\ up' = ~up
    /\ UNCHANGED <<now, zset, expireAt, req, recorded, overtaken>>

Step(r) == LuaScript(r) \/ RedisError(r) \/ Decide(r) \/ FailOpen(r) \/ Leave(r)

Next == (\E r \in Reqs : CheckRateLimit(r) \/ Resend(r) \/ Step(r)) \/ Tick \/ Outage

Spec == Init /\ [][Next]_vars

\* Node.js resumes every pending await, and a call of Redis settles.
FairSpec == Spec /\ \A r \in Reqs : WF_vars(Step(r))

-----------------------------------------------------------------------------
(* Properties                                                              *)

TypeOK ==
    /\ now \in 0..MaxTime
    /\ up \in BOOLEAN
    /\ zset \subseteq recorded
    /\ expireAt \in Nat
    /\ req \in [Reqs -> Slot]
    /\ recorded \subseteq Int
    /\ overtaken \in BOOLEAN

\* Whatever the clocks of the instances and the order in which their scripts
\* run, Redis never holds more entries than the limit.
StoredWithinLimit == Cardinality(zset) <= Points

\* No request is forgotten, by the script of another request or by the TTL of
\* the key, before it has left the window; an instance whose clock is ahead may
\* clear it earlier, but never by more than it is ahead.
EntriesOutliveTheirWindow ==
    [][\A e \in zset \ zset' : \E skew \in Skews \cup {0} : e + Window <= now' + skew]_vars

\* The requests recorded in any window of the configured duration.
RecordedIn(t) == {e \in recorded : t - Window < e /\ e <= t}

\* As long as the scripts run in the order of their timestamps, no window of the
\* duration holds more recorded requests than the limit.  Block must exceed the
\* window by the longest delay and the largest skew: a script counts what the
\* window of its own timestamp holds, and the TTL runs in real time.
RecordedWithinLimit ==
    ~overtaken => \A t \in recorded : Cardinality(RecordedIn(t)) <= Points

\* A request that enters the guard leaves it again, even when Redis is down.
EveryRequestIsDecided ==
    \A r \in Reqs : req[r].pc = "script" ~> req[r].pc = "idle"

=============================================================================
