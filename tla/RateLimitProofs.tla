-------------------------- MODULE RateLimitProofs --------------------------
(***************************************************************************)
(* Proofs about RateLimit, for any number of requests and any clocks.      *)
(***************************************************************************)
EXTENDS RateLimit, FiniteSetTheorems, TLAPS

\* How far the clocks of the instances are ahead of the clock of Redis.
Ahead == Skews \cup {0}

\* A timestamp was read from the clock of some instance, also the one of a call
\* that may be sent again; and the key lives at least as long as the windows of
\* the entries in it.
Dated == {"script", "decide"}
Readings == \A r \in Reqs : req[r].pc \in Dated => \E s \in Skews : req[r].at <= now + s
KeyOutlivesEntries ==
    /\ expireAt <= now + Block
    /\ \A e \in zset : \E s \in Ahead : e + Window <= expireAt + s

\* The set is finite, which its type does not say and the reply, a number, needs.
Bounded == IsFiniteSet(zset) /\ StoredWithinLimit
IInv == TypeOK /\ Bounded /\ Readings /\ KeyOutlivesEntries

LEMMA IdleIsSlot == Idle \in Slot /\ Idle.pc = "idle"
BY DEF Idle, Slot, Steps

LEMMA InitHolds == Init => IInv
<1> SUFFICES ASSUME Init PROVE IInv
  OBVIOUS
<1>1. TypeOK
  <2>1. 0 \in 0 .. MaxTime
    BY MaxTimeAssumption
  <2> QED BY <2>1, IdleIsSlot DEF Init, TypeOK
<1>2. Bounded
  <2>1. IsFiniteSet(zset) /\ Cardinality(zset) = 0
    BY FS_EmptySet DEF Init
  <2> QED BY <2>1, PointsAssumption DEF Bounded, StoredWithinLimit
<1>3. Readings /\ KeyOutlivesEntries
  BY IdleIsSlot, BlockAssumption DEF Init, Readings, Dated, KeyOutlivesEntries
<1> QED BY <1>1, <1>2, <1>3 DEF IInv

\* A step that only moves one request, to a slot whose timestamp was read before.
LEMMA MoveRequest ==
    ASSUME IInv, NEW r \in Reqs, NEW S \in Slot,
           S.pc \in Dated => req[r].pc \in Dated /\ S.at = req[r].at,
           req' = [req EXCEPT ![r] = S], UNCHANGED now
    PROVE  req' \in [Reqs -> Slot] /\ Readings'
BY DEF IInv, TypeOK, Slot, Readings

LEMMA LaterExpiry ==
    \A end, was, is, s \in Int : end <= was + s /\ was <= is => end <= is + s
OBVIOUS

\* The script drops what has left the window of its timestamp, and adds it only
\* where there is room.
LEMMA ScriptKeeps ==
    ASSUME IInv, NEW r \in Reqs, LuaScript(r) PROVE IInv'
<1> DEFINE at == req[r].at
           current == InWindow(at)
           n == Cardinality(current)
<1>1. at \in Int /\ now \in Nat /\ req[r] \in Slot /\ req \in [Reqs -> Slot]
  BY MaxTimeAssumption DEF IInv, TypeOK, Slot
<1>2. current \subseteq zset /\ IsFiniteSet(current) /\ n \in Nat /\ n <= Cardinality(zset)
  BY FS_Subset, FS_CardinalityType DEF IInv, Bounded, InWindow
<1>3. PICK s \in Skews : at <= now + s
  BY DEF LuaScript, IInv, Readings, Dated
<1>4. CASE /\ Room(n)
           /\ zset' = current \cup {at}
           /\ expireAt' = now + Block
           /\ recorded' = recorded \cup {at}
           /\ req' = [req EXCEPT ![r] = [@ EXCEPT !.pc = "decide", !.count = n + 1]]
  <2>1. PICK S : S = [req[r] EXCEPT !.pc = "decide", !.count = n + 1]
    OBVIOUS
  <2>2. req' \in [Reqs -> Slot] /\ Readings'
    <3>1. S \in Slot /\ S.at = at /\ req[r].pc \in Dated
      <4> n + 1 \in Nat
        BY <1>2
      <4> QED BY <2>1, <1>1 DEF Slot, Steps, LuaScript, Dated
    <3>2. req' = [req EXCEPT ![r] = S]
      BY <2>1, <1>4
    <3> QED BY <3>1, <3>2, MoveRequest DEF LuaScript
  <2>3. Bounded'
    <3>1. IsFiniteSet(zset') /\ Cardinality(zset') <= n + 1
      <4> HIDE DEF n, current
      <4> QED BY <1>2, <1>4, FS_AddElement DEF n
    <3>2. Cardinality(zset') \in Nat
      BY <3>1, FS_CardinalityType
    <3> QED BY <3>1, <3>2, <1>2, <1>4, PointsAssumption DEF Bounded, StoredWithinLimit, Room
  <2>4. KeyOutlivesEntries'
    <3>1. expireAt' <= now' + Block
      BY <1>1, <1>4, BlockAssumption DEF LuaScript
    <3>2. at + Window <= expireAt' + s
      BY <1>1, <1>3, <1>4, BlockAssumption, WindowAssumption, SkewsAssumption
    <3>3. ASSUME NEW e \in current PROVE \E q \in Ahead : e + Window <= expireAt' + q
      <4>1. PICK q \in Ahead : e + Window <= expireAt + q
        BY <1>2 DEF IInv, KeyOutlivesEntries
      <4>2. expireAt <= expireAt' /\ e \in Int /\ q \in Int /\ expireAt \in Int /\ expireAt' \in Int
        BY <1>1, <1>2, <1>4, BlockAssumption, SkewsAssumption DEF IInv, KeyOutlivesEntries, TypeOK, Ahead
      <4>3. e + Window \in Int
        BY <4>2, WindowAssumption
      <4>4. e + Window <= expireAt' + q
        BY <4>1, <4>2, <4>3, LaterExpiry
      <4> QED BY <4>4
    <3> QED BY <3>1, <3>2, <3>3, <1>4 DEF KeyOutlivesEntries, Ahead
  <2>5. TypeOK'
    BY <2>2, <1>1, <1>2, <1>4, BlockAssumption DEF IInv, TypeOK, LuaScript
  <2> QED BY <2>2, <2>3, <2>4, <2>5 DEF IInv
<1>5. CASE /\ ~Room(n)
           /\ zset' = current
           /\ req' = [req EXCEPT ![r] = [@ EXCEPT !.pc = "decide", !.count = n]]
           /\ UNCHANGED <<expireAt, recorded>>
  <2>1. PICK S : S = [req[r] EXCEPT !.pc = "decide", !.count = n]
    OBVIOUS
  <2>2. req' \in [Reqs -> Slot] /\ Readings'
    <3>1. S \in Slot /\ S.at = at /\ req[r].pc \in Dated
      BY <2>1, <1>1, <1>2 DEF Slot, Steps, LuaScript, Dated
    <3>2. req' = [req EXCEPT ![r] = S]
      BY <2>1, <1>5
    <3> QED BY <3>1, <3>2, MoveRequest DEF LuaScript
  <2>3. Bounded'
    <3>1. Cardinality(zset) \in Nat /\ Cardinality(zset) <= Points
      BY FS_CardinalityType DEF IInv, Bounded, StoredWithinLimit
    <3> QED BY <3>1, <1>2, <1>5, PointsAssumption DEF Bounded, StoredWithinLimit
  <2>4. KeyOutlivesEntries' /\ TypeOK'
    BY <2>2, <1>1, <1>2, <1>5 DEF IInv, TypeOK, LuaScript, KeyOutlivesEntries
  <2> QED BY <2>2, <2>3, <2>4 DEF IInv
<1> QED BY <1>4, <1>5 DEF LuaScript

LEMMA TickKeeps == ASSUME IInv, Tick PROVE IInv'
<1>1. now \in Nat /\ now' = now + 1 /\ expireAt \in Nat
  BY MaxTimeAssumption DEF IInv, TypeOK, Tick
<1>2. zset' \subseteq zset
  BY DEF Tick
<1>3. Bounded'
  BY <1>2, FS_EmptySet, PointsAssumption DEF IInv, Bounded, StoredWithinLimit, Tick
<1>4. Readings'
  <2> SUFFICES ASSUME NEW r \in Reqs, req[r].pc \in Dated
               PROVE  \E s \in Skews : req[r].at <= now' + s
    BY DEF Readings, Tick
  <2>1. PICK s \in Skews : req[r].at <= now + s
    BY DEF IInv, Readings
  <2>2. req[r].at \in Int /\ s \in Int
    BY SkewsAssumption DEF IInv, TypeOK, Slot
  <2> QED BY <1>1, <2>1, <2>2
<1>5. KeyOutlivesEntries'
  BY <1>1, <1>2, BlockAssumption DEF IInv, KeyOutlivesEntries, Tick
<1>6. TypeOK'
  <2>1. now' \in 0 .. MaxTime
    BY <1>1, MaxTimeAssumption DEF IInv, TypeOK, Tick
  <2> QED BY <2>1, <1>2 DEF IInv, TypeOK, Tick
<1> QED BY <1>3, <1>4, <1>5, <1>6 DEF IInv

LEMMA CheckKeeps ==
    ASSUME IInv, NEW r \in Reqs, CheckRateLimit(r) PROVE IInv'
<1>1. PICK s \in Skews : req' = [req EXCEPT ![r] = [Idle EXCEPT !.pc = "script", !.at = now + s]]
  BY DEF CheckRateLimit
<1>2. PICK S : S = [Idle EXCEPT !.pc = "script", !.at = now + s]
  OBVIOUS
<1>3. now \in Nat /\ now + s \in Int /\ req \in [Reqs -> Slot]
  BY SkewsAssumption, MaxTimeAssumption DEF IInv, TypeOK
<1>4. S \in Slot /\ S.at <= now + s
  <2>1. S = [pc |-> "script", at |-> now + s, count |-> 0, resent |-> FALSE]
    BY <1>2 DEF Idle
  <2> QED BY <2>1, <1>3 DEF Slot, Steps
<1>5. req' \in [Reqs -> Slot] /\ Readings'
  <2>1. req' = [req EXCEPT ![r] = S] /\ now' = now
    BY <1>1, <1>2 DEF CheckRateLimit
  <2> QED BY <2>1, <1>3, <1>4 DEF IInv, Readings
<1> QED BY <1>5 DEF IInv, TypeOK, Bounded, StoredWithinLimit, KeyOutlivesEntries, CheckRateLimit

\* The other steps of a request read no clock: a call that is sent again keeps
\* its timestamp.
LEMMA MoveKeeps ==
    ASSUME IInv, NEW r \in Reqs,
           Resend(r) \/ RedisError(r) \/ Decide(r) \/ FailOpen(r) \/ Leave(r)
    PROVE  IInv'
<1>1. req \in [Reqs -> Slot] /\ req[r] \in Slot
  BY DEF IInv, TypeOK
<1>2. PICK S \in Slot : /\ S.pc \in Dated => req[r].pc \in Dated /\ S.at = req[r].at
                        /\ req' = [req EXCEPT ![r] = S]
  <2>1. CASE Leave(r)
    BY <2>1, IdleIsSlot DEF Leave, Dated
  <2>2. CASE RedisError(r) \/ Decide(r) \/ FailOpen(r)
    <3>1. PICK p \in Steps \ Dated, T \in {Idle, req[r]} :
             req' = [req EXCEPT ![r] = [T EXCEPT !.pc = p]]
      BY <2>2 DEF RedisError, Decide, FailOpen, Steps, Dated
    <3>2. PICK S : S = [T EXCEPT !.pc = p]
      OBVIOUS
    <3>3. S \in Slot /\ S.pc \notin Dated
      BY <1>1, <3>2, IdleIsSlot DEF Slot
    <3>4. req' = [req EXCEPT ![r] = S]
      BY <3>1, <3>2
    <3> QED BY <3>3, <3>4
  <2>3. CASE Resend(r)
    <3>1. PICK S : S = [req[r] EXCEPT !.pc = "script", !.count = 0, !.resent = TRUE]
      OBVIOUS
    <3>2. S \in Slot /\ S.at = req[r].at /\ req[r].pc \in Dated
      BY <1>1, <2>3, <3>1 DEF Slot, Steps, Resend, Dated
    <3>3. req' = [req EXCEPT ![r] = S]
      BY <2>3, <3>1 DEF Resend
    <3> QED BY <3>2, <3>3
  <2> QED BY <2>1, <2>2, <2>3
<1>3. UNCHANGED <<now, up, zset, expireAt, recorded, overtaken>>
  BY DEF Resend, RedisError, Decide, FailOpen, Leave
<1>4. req' \in [Reqs -> Slot] /\ Readings'
  BY <1>2, <1>3, MoveRequest
<1> QED BY <1>3, <1>4 DEF IInv, TypeOK, Bounded, StoredWithinLimit, KeyOutlivesEntries

LEMMA NextKeeps == IInv /\ [Next]_vars => IInv'
<1> SUFFICES ASSUME IInv, [Next]_vars PROVE IInv'
  OBVIOUS
<1>1. CASE UNCHANGED vars
  BY <1>1 DEF vars, IInv, TypeOK, Bounded, StoredWithinLimit, Readings, KeyOutlivesEntries
<1>2. CASE Outage
  BY <1>2 DEF Outage, IInv, TypeOK, Bounded, StoredWithinLimit, Readings, KeyOutlivesEntries
<1>3. CASE Tick
  BY <1>3, TickKeeps
<1>4. CASE \E r \in Reqs : CheckRateLimit(r) \/ Resend(r) \/ Step(r)
  BY <1>4, CheckKeeps, ScriptKeeps, MoveKeeps DEF Step
<1> QED BY <1>1, <1>2, <1>3, <1>4 DEF Next

LEMMA Inductive == Spec => []IInv
BY InitHolds, NextKeeps, PTL DEF Spec

-----------------------------------------------------------------------------
(* Theorems                                                                *)

\* Every variable keeps its type: the reply of the script (line 178 or 194 of
\* the guard) is always a number.
THEOREM TypeCorrect == Spec => []TypeOK
<1>1. IInv => TypeOK
  BY DEF IInv
<1> QED BY Inductive, <1>1, PTL

\* The sorted set never exceeds the limit, however many requests there are, in
\* whatever order their scripts run, and whatever their clocks say.
THEOREM StoredTheorem == Spec => []StoredWithinLimit
<1>1. IInv => StoredWithinLimit
  BY DEF IInv, Bounded
<1> QED BY Inductive, <1>1, PTL

\* The TTL of the key (EXPIRE with blockDuration) never ends before a window of
\* an entry, and a script clears an entry early only by what its clock is ahead;
\* it takes no bound on how long a request waits for its script.
THEOREM EntriesTheorem == Spec => EntriesOutliveTheirWindow
<1> DEFINE Kept == \A e \in zset \ zset' : \E skew \in Skews \cup {0} : e + Window <= now' + skew
<1>1. IInv /\ [Next]_vars => Kept \/ UNCHANGED vars
  <2> SUFFICES ASSUME IInv, Next, NEW e \in zset \ zset'
               PROVE  \E s \in Ahead : e + Window <= now' + s
    BY DEF Ahead
  <2>1. e \in Int /\ now \in Nat
    BY MaxTimeAssumption DEF IInv, TypeOK
  <2>2. CASE Tick
    <3>1. expireAt <= now' /\ now' \in Nat /\ expireAt \in Nat
      BY <2>1, <2>2 DEF Tick, IInv, TypeOK
    <3>2. PICK s \in Ahead : e + Window <= expireAt + s
      BY DEF IInv, KeyOutlivesEntries
    <3>3. s \in Int /\ e + Window \in Int /\ expireAt \in Int /\ now' \in Int
      BY <2>1, <3>1, SkewsAssumption, WindowAssumption DEF Ahead
    <3>4. e + Window <= now' + s
      BY <3>1, <3>2, <3>3, <2>1, LaterExpiry
    <3> QED BY <3>4
  <2>3. CASE \E r \in Reqs : LuaScript(r)
    <3>1. PICK r \in Reqs : LuaScript(r)
      BY <2>3
    <3>2. e <= req[r].at - Window /\ req[r].at \in Int
      BY <3>1, <2>1, WindowAssumption DEF LuaScript, InWindow, IInv, TypeOK, Slot
    <3>3. PICK s \in Skews : req[r].at <= now + s
      BY <3>1 DEF LuaScript, IInv, Readings, Dated
    <3>4. now' = now
      BY <3>1 DEF LuaScript
    <3> QED BY <3>2, <3>3, <3>4, <2>1, WindowAssumption, SkewsAssumption DEF Ahead
  <2>4. zset' = zset \/ Tick \/ \E r \in Reqs : LuaScript(r)
    BY DEF Next, Step, Outage, CheckRateLimit, Resend, RedisError, Decide, FailOpen, Leave
  <2> QED BY <2>2, <2>3, <2>4
<1>2. IInv /\ [Next]_vars => [Kept]_vars
  BY <1>1
<1>3. Spec => [][Kept]_vars
  BY Inductive, <1>2, PTL DEF Spec
<1> QED BY <1>3 DEF EntriesOutliveTheirWindow

-----------------------------------------------------------------------------
(* What was recorded stays within the limit (RecordedWithinLimit).         *)

\* A script runs within D of its timestamp in the clock of Redis, and the key
\* then outlives the window of the timestamp by D and the skew.
BlockOutlasts(D) ==
    /\ D >= MaxDelay
    /\ \A s \in Skews : D >= -s /\ Block >= Window + D + s

Recent(D) == \A r \in Reqs : req[r].pc = "script" => req[r].at >= now - D
KeyCovers(D) == \A e \in recorded : e + Window + D <= expireAt

\* Why a recorded timestamp e may be missing from the set: a later one pushed it
\* out of the window; or a refused script removed it and left a full set of later
\* ones; or the key expired after the window of every script still to come.
PushedOut(e) == \E m \in recorded : e <= m - Window
FullWithout(e) == Cardinality(zset) >= Points /\ \A x \in zset : e < x
OutOfReach(D, e) == e + Window + D <= now
MissingExplained(D) ==
    ~overtaken => \A e \in recorded \ zset : PushedOut(e) \/ FullWithout(e) \/ OutOfReach(D, e)

HistoryInv(D) == Recent(D) /\ KeyCovers(D) /\ MissingExplained(D) /\ RecordedWithinLimit

\* The cardinality of a set that is within the limit bounds that of its subsets.
LEMMA WithinLimit ==
    ASSUME NEW S, IsFiniteSet(S), Cardinality(S) <= Points, NEW T \in SUBSET S
    PROVE  Cardinality(T) <= Points
<1>1. Cardinality(T) \in Nat /\ Cardinality(S) \in Nat /\ Cardinality(T) <= Cardinality(S)
  BY FS_Subset, FS_CardinalityType
<1> QED BY <1>1, PointsAssumption

\* A script that overtakes nobody finds everything that is in the window of its
\* timestamp, or a full set.
LEMMA FindsItsWindow ==
    ASSUME NEW D \in Int, IInv, HistoryInv(D), NEW r \in Reqs, LuaScript(r), ~overtaken',
           NEW e \in recorded, e > req[r].at - Window, e \notin InWindow(req[r].at)
    PROVE  FullWithout(e) /\ InWindow(req[r].at) = zset
<1> DEFINE at == req[r].at
<1>1. at \in Int /\ now \in Int /\ e \in Int /\ zset \subseteq Int /\ recorded \subseteq Int
  BY MaxTimeAssumption DEF IInv, TypeOK, Slot
<1>2. e \in recorded \ zset /\ ~overtaken /\ \A m \in recorded : ~(m > at)
  BY DEF LuaScript, InWindow
<1>3. ~PushedOut(e)
  <2> SUFFICES ASSUME NEW m \in recorded, e <= m - Window PROVE FALSE
    BY DEF PushedOut
  <2>1. m \in Int /\ ~(m > at)
    BY <1>1, <1>2
  <2> QED BY <2>1, <1>1, WindowAssumption
<1>4. ~OutOfReach(D, e)
  <2>1. at >= now - D
    BY DEF HistoryInv, Recent, LuaScript
  <2> QED BY <2>1, <1>1, WindowAssumption DEF OutOfReach
<1>5. FullWithout(e)
  BY <1>2, <1>3, <1>4 DEF HistoryInv, MissingExplained
<1>6. ASSUME NEW x \in zset PROVE x > at - Window
  <2>1. x \in Int /\ e < x
    BY <1>1, <1>5 DEF FullWithout
  <2> QED BY <2>1, <1>1, WindowAssumption
<1> QED BY <1>5, <1>6 DEF InWindow

\* A script that finds room: its timestamp is the last one, and the set then
\* holds all of its window.
LEMMA AcceptedKeeps ==
    ASSUME NEW D \in Int, BlockOutlasts(D), IInv, HistoryInv(D), NEW r \in Reqs, LuaScript(r),
           Room(Cardinality(InWindow(req[r].at))),
           zset' = InWindow(req[r].at) \cup {req[r].at}, expireAt' = now + Block,
           recorded' = recorded \cup {req[r].at}, StoredWithinLimit', IsFiniteSet(zset')
    PROVE  KeyCovers(D)' /\ MissingExplained(D)' /\ RecordedWithinLimit'
<1> DEFINE at == req[r].at
<1>1. /\ at \in Int /\ now \in Int /\ expireAt \in Int /\ now' = now
      /\ zset \subseteq Int /\ recorded \subseteq Int
  BY MaxTimeAssumption DEF IInv, TypeOK, Slot, LuaScript
<1>2. KeyCovers(D)'
  <2>1. ASSUME NEW e \in recorded PROVE e + Window + D <= expireAt'
    <3>1. e + Window + D <= expireAt /\ expireAt <= now + Block
      BY DEF HistoryInv, KeyCovers, IInv, KeyOutlivesEntries
    <3>2. e \in Int /\ e + Window + D \in Int /\ now + Block \in Int
      BY <1>1, WindowAssumption, BlockAssumption
    <3> QED BY <3>1, <3>2, <1>1
  <2>2. PICK s \in Skews : at <= now + s
    BY DEF LuaScript, IInv, Readings, Dated
  <2>3. s \in Int /\ Block >= Window + D + s
    BY SkewsAssumption DEF BlockOutlasts
  <2>4. at + Window + D <= expireAt'
    BY <2>2, <2>3, <1>1, WindowAssumption, BlockAssumption
  <2> QED BY <2>1, <2>4 DEF KeyCovers
<1>3. ASSUME ~overtaken', NEW e \in recorded, e > at - Window PROVE e \in InWindow(at)
  <2> SUFFICES ASSUME e \notin InWindow(at) PROVE FALSE
    OBVIOUS
  <2>1. Cardinality(zset) >= Points /\ Cardinality(zset) < Points
    BY <1>3, FindsItsWindow DEF FullWithout, Room
  <2>2. Cardinality(zset) \in Nat
    BY FS_CardinalityType DEF IInv, Bounded
  <2> QED BY <2>1, <2>2, PointsAssumption
<1>4. MissingExplained(D)'
  <2> SUFFICES ASSUME ~overtaken', NEW e \in recorded, e \notin zset' PROVE PushedOut(e)'
    BY DEF MissingExplained
  <2>1. e <= at - Window
    BY <1>1, <1>3, WindowAssumption
  <2> QED BY <2>1 DEF PushedOut
<1>5. RecordedWithinLimit'
  <2> SUFFICES ASSUME ~overtaken', NEW t \in recorded' PROVE Cardinality(RecordedIn(t)') <= Points
    BY DEF RecordedWithinLimit
  <2>1. ~overtaken /\ \A m \in recorded : ~(m > at)
    BY DEF LuaScript
  <2>2. CASE t = at
    <3>1. RecordedIn(t)' \subseteq zset'
      BY <2>2, <1>1, <1>3, WindowAssumption DEF RecordedIn
    <3> QED BY <3>1, WithinLimit DEF StoredWithinLimit
  <2>3. CASE t # at
    <3>1. t \in recorded /\ t \in Int /\ t < at
      <4>1. t \in recorded
        BY <2>3
      <4>2. t \in Int /\ ~(t > at)
        BY <4>1, <2>1, <1>1
      <4> QED BY <4>1, <4>2, <2>3, <1>1
    <3>2. RecordedIn(t)' = RecordedIn(t)
      BY <3>1, <1>1 DEF RecordedIn
    <3> QED BY <2>1, <3>1, <3>2 DEF HistoryInv, RecordedWithinLimit
  <2> QED BY <2>2, <2>3
<1> QED BY <1>2, <1>4, <1>5

\* A refused script records nothing, and what it removes is missing from a full
\* set of later timestamps.
LEMMA RefusedKeeps ==
    ASSUME NEW D \in Int, IInv, HistoryInv(D), NEW r \in Reqs, LuaScript(r),
           ~Room(Cardinality(InWindow(req[r].at))),
           zset' = InWindow(req[r].at), UNCHANGED <<expireAt, recorded>>
    PROVE  KeyCovers(D)' /\ MissingExplained(D)' /\ RecordedWithinLimit'
<1> DEFINE at == req[r].at
<1>1. at \in Int /\ now' = now /\ zset \subseteq Int /\ recorded \subseteq Int
  BY DEF IInv, TypeOK, Slot, LuaScript
<1>2. overtaken => overtaken'
  BY DEF LuaScript
<1>3. KeyCovers(D)' /\ RecordedWithinLimit'
  BY <1>2 DEF HistoryInv, KeyCovers, RecordedWithinLimit, RecordedIn
<1>4. MissingExplained(D)'
  <2> SUFFICES ASSUME ~overtaken', NEW e \in recorded, e \notin zset'
               PROVE  PushedOut(e)' \/ FullWithout(e)' \/ OutOfReach(D, e)'
    BY DEF MissingExplained
  <2>1. e \in Int /\ Cardinality(zset') >= Points
    <3>1. Cardinality(InWindow(at)) \in Nat
      BY FS_Subset, FS_CardinalityType DEF IInv, Bounded, InWindow
    <3> QED BY <3>1, <1>1, PointsAssumption DEF Room
  <2>2. CASE e > at - Window
    <3>1. FullWithout(e) /\ zset' = zset
      BY <2>2, FindsItsWindow
    <3> QED BY <3>1 DEF FullWithout
  <2>3. CASE e <= at - Window
    <3>1. ASSUME NEW x \in zset' PROVE e < x
      <4>1. x \in Int /\ x > at - Window
        BY <1>1 DEF InWindow
      <4> QED BY <4>1, <2>1, <2>3, <1>1, WindowAssumption
    <3> QED BY <3>1, <2>1 DEF FullWithout
  <2> QED BY <2>1, <2>2, <2>3, <1>1, WindowAssumption
<1> QED BY <1>3, <1>4

LEMMA ScriptKeepsHistory ==
    ASSUME NEW D \in Int, BlockOutlasts(D), IInv, HistoryInv(D), NEW r \in Reqs, LuaScript(r)
    PROVE  HistoryInv(D)'
<1>1. IInv'
  BY ScriptKeeps
<1>2. Recent(D)'
  <2>1. \A q \in Reqs : req'[q].pc = "script" => req[q].pc = "script" /\ req'[q].at = req[q].at
    BY DEF LuaScript, IInv, TypeOK, Slot
  <2> QED BY <2>1 DEF HistoryInv, Recent, LuaScript
<1>3. KeyCovers(D)' /\ MissingExplained(D)' /\ RecordedWithinLimit'
  <2>1. StoredWithinLimit' /\ IsFiniteSet(zset')
    BY <1>1 DEF IInv, Bounded
  <2> QED BY <2>1, AcceptedKeeps, RefusedKeeps DEF LuaScript
<1> QED BY <1>2, <1>3 DEF HistoryInv

\* When the key expires, no script that is still to come can miss an entry.
LEMMA TickKeepsHistory ==
    ASSUME NEW D \in Int, BlockOutlasts(D), IInv, HistoryInv(D), Tick PROVE HistoryInv(D)'
<1>1. /\ now \in Int /\ now' = now + 1 /\ expireAt \in Int /\ recorded \subseteq Int
      /\ UNCHANGED <<expireAt, req, recorded, overtaken>>
  BY MaxTimeAssumption DEF IInv, TypeOK, Tick
<1>2. Recent(D)'
  <2> SUFFICES ASSUME NEW r \in Reqs, req[r].pc = "script" PROVE req[r].at >= now' - D
    BY <1>1 DEF Recent
  <2>1. now - req[r].at < MaxDelay /\ req[r].at \in Int
    BY DEF Tick, IInv, TypeOK, Slot
  <2> QED BY <2>1, <1>1, MaxDelayAssumption DEF BlockOutlasts
<1>3. MissingExplained(D)'
  <2> SUFFICES ASSUME ~overtaken, NEW e \in recorded, e \notin zset'
               PROVE  PushedOut(e)' \/ FullWithout(e)' \/ OutOfReach(D, e)'
    BY <1>1 DEF MissingExplained
  <2>1. e \in Int /\ e + Window + D \in Int
    BY <1>1, WindowAssumption
  <2>2. CASE expireAt <= now'
    <3>1. e + Window + D <= expireAt
      BY DEF HistoryInv, KeyCovers
    <3> QED BY <3>1, <2>1, <2>2, <1>1 DEF OutOfReach
  <2>3. CASE ~(expireAt <= now')
    <3>1. zset' = zset
      BY <2>3 DEF Tick
    <3>2. PushedOut(e) \/ FullWithout(e) \/ OutOfReach(D, e)
      BY <3>1 DEF HistoryInv, MissingExplained
    <3>3. OutOfReach(D, e) => OutOfReach(D, e)'
      BY <2>1, <1>1 DEF OutOfReach
    <3> QED BY <3>1, <3>2, <3>3, <1>1 DEF PushedOut, FullWithout
  <2> QED BY <2>2, <2>3
<1>4. KeyCovers(D)' /\ RecordedWithinLimit'
  BY <1>1 DEF HistoryInv, KeyCovers, RecordedWithinLimit, RecordedIn
<1> QED BY <1>2, <1>3, <1>4 DEF HistoryInv

LEMMA OthersKeepHistory ==
    ASSUME NEW D \in Int, BlockOutlasts(D), IInv, HistoryInv(D),
           UNCHANGED <<now, zset, expireAt, recorded, overtaken>>, Recent(D)'
    PROVE  HistoryInv(D)'
BY DEF HistoryInv, KeyCovers, MissingExplained, PushedOut, FullWithout, OutOfReach,
       RecordedWithinLimit, RecordedIn

LEMMA NextKeepsHistory ==
    ASSUME NEW D \in Int, BlockOutlasts(D), IInv, HistoryInv(D), [Next]_vars PROVE HistoryInv(D)'
<1>1. CASE UNCHANGED vars \/ Outage
  <2>1. Recent(D)' /\ UNCHANGED <<now, zset, expireAt, recorded, overtaken>>
    BY <1>1 DEF vars, Outage, HistoryInv, Recent
  <2> QED BY <2>1, OthersKeepHistory
<1>2. CASE Tick
  BY <1>2, TickKeepsHistory
<1>3. ASSUME NEW r \in Reqs, CheckRateLimit(r) PROVE HistoryInv(D)'
  <2>1. PICK s \in Skews : req' = [req EXCEPT ![r] = [Idle EXCEPT !.pc = "script", !.at = now + s]]
    BY <1>3 DEF CheckRateLimit
  <2>2. now + s >= now - D
    <3>1. s \in Int /\ D >= -s /\ now \in Int
      BY SkewsAssumption, MaxTimeAssumption DEF BlockOutlasts, IInv, TypeOK
    <3> QED BY <3>1
  <2>3. UNCHANGED <<now, zset, expireAt, recorded, overtaken>>
    BY <1>3 DEF CheckRateLimit
  <2>4. Recent(D)'
    BY <2>1, <2>2, <2>3 DEF HistoryInv, Recent, IInv, TypeOK, Idle
  <2> QED BY <2>3, <2>4, OthersKeepHistory
<1>4. ASSUME NEW r \in Reqs, Resend(r)
      PROVE  HistoryInv(D)'
  <2>1. UNCHANGED <<now, zset, expireAt, recorded, overtaken>>
    BY <1>4 DEF Resend
  <2>2. req[r].at >= now - D
    <3>1. now - req[r].at <= MaxDelay /\ req[r].at \in Int /\ now \in Int
      BY <1>4, MaxTimeAssumption DEF Resend, IInv, TypeOK, Slot
    <3> QED BY <3>1, MaxDelayAssumption DEF BlockOutlasts
  <2>3. \A q \in Reqs : req'[q].pc = "script" => req'[q].at = req[q].at /\ (q = r \/ req[q].pc = "script")
    BY <1>4 DEF Resend, IInv, TypeOK, Slot
  <2>4. Recent(D)'
    BY <2>1, <2>2, <2>3 DEF HistoryInv, Recent
  <2> QED BY <2>1, <2>4, OthersKeepHistory
<1>5. ASSUME NEW r \in Reqs, RedisError(r) \/ Decide(r) \/ FailOpen(r) \/ Leave(r)
      PROVE  HistoryInv(D)'
  <2>1. UNCHANGED <<now, zset, expireAt, recorded, overtaken>>
    BY <1>5 DEF RedisError, Decide, FailOpen, Leave
  <2>2. \A q \in Reqs : req'[q].pc = "script" => req'[q] = req[q]
    BY <1>5, IdleIsSlot DEF RedisError, Decide, FailOpen, Leave, IInv, TypeOK, Slot
  <2>3. Recent(D)'
    BY <2>1, <2>2 DEF HistoryInv, Recent
  <2> QED BY <2>1, <2>3, OthersKeepHistory
<1> QED BY <1>1, <1>2, <1>3, <1>4, <1>5, ScriptKeepsHistory DEF Next, Step

\* While the scripts run in the order of their timestamps, no window of the
\* duration holds more recorded requests than the limit, whatever the outages and
\* the clocks, provided the block outlasts the window by the delay and the skew.
THEOREM RecordedTheorem ==
    ASSUME NEW D \in Int, BlockOutlasts(D)
    PROVE  Spec => []RecordedWithinLimit
<1>1. Init => HistoryInv(D)
  <2> SUFFICES ASSUME Init PROVE HistoryInv(D)
    OBVIOUS
  <2>1. \A r \in Reqs : req[r].pc # "script"
    BY IdleIsSlot DEF Init
  <2> QED BY <2>1 DEF Init, HistoryInv, Recent, KeyCovers, MissingExplained, RecordedWithinLimit
<1>2. IInv /\ HistoryInv(D) /\ [Next]_vars => HistoryInv(D)'
  BY NextKeepsHistory
<1>3. HistoryInv(D) => RecordedWithinLimit
  BY DEF HistoryInv
<1>4. Spec => []HistoryInv(D)
  BY Inductive, <1>1, <1>2, PTL DEF Spec
<1> QED BY <1>3, <1>4, PTL
=============================================================================
