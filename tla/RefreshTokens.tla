--------------------------- MODULE RefreshTokens ---------------------------
(***************************************************************************)
(* The life of refresh tokens in AuthService: login, token rotation, reuse *)
(* detection, logout, revocation of all tokens, cleanup of expired rows,   *)
(* and the cascade from the users table.                                   *)
(*                                                                         *)
(* A request runs in Reqs (one slot per request in flight, over all        *)
(* application instances) and is interleaved with the others at every      *)
(* await of the service.  The refresh_tokens table is the function row,    *)
(* keyed by the token whose hash the row stores: hashes and random tokens  *)
(* never collide, and the uuid of a row belongs to one hash.  A family,    *)
(* which the code names with a random uuid, is named here by the token     *)
(* that founded it.                                                        *)
(***************************************************************************)
EXTENDS Integers, FiniteSets

CONSTANTS
    Users,      \* user ids
    Tokens,     \* refresh tokens that crypto.randomBytes may return
    Reqs,       \* request slots: how many requests may be in flight
    NoToken,    \* the null of replacedByToken, and of a slot without a token
    NoUser,     \* a slot that is not bound to a user
    NoRow,      \* the result of a findOne that finds nothing
    Lifetime,   \* refreshTokenExpiry, in ticks
    MaxTime,    \* bound of the clock
    MayFail     \* may a database call or the process fail in mid-request

Row == [user : Users, family : Tokens, exp : Int, revoked : BOOLEAN,
        replaced : Tokens \cup {NoToken}]

ASSUME NoTokenAssumption == NoToken \notin Tokens
ASSUME NoUserAssumption == NoUser \notin Users
ASSUME NoRowAssumption == NoRow \notin Row
ASSUME LifetimeAssumption == Lifetime \in Nat \ {0}
ASSUME MaxTimeAssumption == MaxTime \in Nat
ASSUME MayFailAssumption == MayFail \in BOOLEAN

VARIABLES
    users,      \* ids with a row in users
    row,        \* refresh_tokens, by token
    now,        \* the clock that new Date() reads
    req,        \* the local state of each request slot
    minted,     \* tokens that generateSecureToken has returned
    parent,     \* history: the token that a refresh exchanged for this one
    held,       \* history: tokens that a client received in a response
    loggedOut   \* history: tokens whose logout was acknowledged

vars == <<users, row, now, req, minted, parent, held, loggedOut>>

Steps == {"idle", "insert", "revokeOld", "answer", "revokeFamily",
          "logoutSave", "ack"}

\* The locals that survive an await: the presented token (NoToken for a
\* login), the user and expiry of the pair being generated, the entity that
\* findOne returned, and the new token.  Locals that are not read again are
\* dropped.
Slot == [pc : Steps, tok : Tokens \cup {NoToken}, user : Users \cup {NoUser},
         exp : Int, snap : Row \cup {NoRow}, new : Tokens \cup {NoToken}]

Idle == [pc |-> "idle", tok |-> NoToken, user |-> NoUser, exp |-> 0,
         snap |-> NoRow, new |-> NoToken]

Stored(t) == row[t] # NoRow
Live(t) == Stored(t) /\ ~row[t].revoked
Expired(entity) == entity.exp <= now

\* Bound: a pair is generated only while Tokens lasts, counting the slots that
\* are about to insert.
TokenLeft ==
    Cardinality(minted) + Cardinality({r \in Reqs : req[r].pc = "insert"})
        < Cardinality(Tokens)

\* Faulty variant: the family is only set for a rotation.
FamilyFor_NullOnLogin(s, t) == s.tok

\* Faulty variant: every login joins the same family.
FamilyFor_Shared(s, t) == CHOOSE f \in Tokens : TRUE

\* The family that generateTokenPair gives to token t for slot s.
FamilyFor(s, t) == IF s.tok = NoToken THEN t ELSE s.snap.family

Init ==
    /\ users = Users
    /\ row = [t \in Tokens |-> NoRow]
    /\ now = 0
    /\ req = [r \in Reqs |-> Idle]
    /\ minted = {}
    /\ parent = [t \in Tokens |-> NoToken]
    /\ held = {}
    /\ loggedOut = {}

-----------------------------------------------------------------------------
(* login and generateTokenPair                                             *)

\* findByEmail and bcrypt.compare succeed; a wrong email or password is
\* answered 401 and changes nothing.  The expiry of the new pair is computed
\* before the insert is awaited.
LoginFind(r, u) ==
    /\ req[r].pc = "idle"
    /\ u \in users
    /\ TokenLeft
    /\ req' = [req EXCEPT ![r] = [Idle EXCEPT !.pc = "insert", !.user = u,
                                              !.exp = now + Lifetime]]
    /\ UNCHANGED <<users, row, now, minted, parent, held, loggedOut>>

\* generateTokenPair awaits the INSERT of the new row, for a login as for a
\* refresh; the foreign key of the row needs the user to exist.
InsertToken(r) ==
    /\ req[r].pc = "insert"
    /\ req[r].user \in users
    /\ \E t \in Tokens \ minted :
          /\ row' = [row EXCEPT ![t] =
                       [user |-> req[r].user, family |-> FamilyFor(req[r], t),
                        exp |-> req[r].exp, revoked |-> FALSE,
                        replaced |-> NoToken]]
          /\ minted' = minted \cup {t}
          /\ parent' = [parent EXCEPT ![t] = req[r].tok]
          /\ req' = [req EXCEPT ![r] =
                       [Idle EXCEPT !.pc = IF req[r].tok = NoToken
                                           THEN "answer" ELSE "revokeOld",
                                    !.tok = req[r].tok, !.snap = req[r].snap,
                                    !.new = t]]
    /\ UNCHANGED <<users, now, held, loggedOut>>

-----------------------------------------------------------------------------
(* refreshTokens                                                           *)

\* Faulty variant: isRevoked is not checked.
RefreshFind_NoReuseCheck(r, t) ==
    /\ req[r].pc = "idle"
    /\ t \in held
    /\ Stored(t)
    /\ ~Expired(row[t])
    /\ TokenLeft
    /\ req' = [req EXCEPT ![r] =
                 [Idle EXCEPT !.pc = "insert", !.tok = t, !.user = row[t].user,
                              !.snap = row[t], !.exp = now + Lifetime]]
    /\ UNCHANGED <<users, row, now, minted, parent, held, loggedOut>>

\* findOne and the checks that follow it without an await.  A token without
\* a row, or an expired one, is answered 401 and changes nothing.
RefreshFind(r, t) ==
    /\ req[r].pc = "idle"
    /\ t \in held
    /\ Stored(t)
    /\ \/ /\ row[t].revoked
          /\ req' = [req EXCEPT ![r] =
                       [Idle EXCEPT !.pc = "revokeFamily", !.tok = t,
                                    !.snap = row[t]]]
       \/ /\ ~row[t].revoked
          /\ ~Expired(row[t])
          /\ TokenLeft
          /\ req' = [req EXCEPT ![r] =
                       [Idle EXCEPT !.pc = "insert", !.tok = t,
                                    !.user = row[t].user, !.snap = row[t],
                                    !.exp = now + Lifetime]]
    /\ UNCHANGED <<users, row, now, minted, parent, held, loggedOut>>

\* Repository.save of an entity that was read earlier: a SELECT of the row,
\* then an UPDATE of the columns that differ from it, or an INSERT when the
\* row is gone, which the foreign key refuses if its user is gone too.  A row
\* deleted between the SELECT and the UPDATE leaves the UPDATE without effect.
SaveEntity(t, entity) ==
    \/ /\ Stored(t) \/ entity.user \in users
       /\ row' = [row EXCEPT ![t] = entity]
    \/ /\ ~Stored(t)
       /\ UNCHANGED row

\* The last await of refreshTokens: save of the entity that findOne returned.
FinishRotation(r, entity) ==
    /\ req[r].pc = "revokeOld"
    /\ SaveEntity(req[r].tok, entity)
    /\ req' = [req EXCEPT ![r] = [Idle EXCEPT !.pc = "answer", !.tok = req[r].tok,
                                              !.new = req[r].new]]
    /\ UNCHANGED <<users, now, minted, parent, held, loggedOut>>

\* Faulty variants: the save leaves the presented token valid, does not link it
\* to its successor, or links it to itself.
RevokeOld_StaysValid(r) ==
    FinishRotation(r, [req[r].snap EXCEPT !.replaced = req[r].new])
RevokeOld_NoLink(r) ==
    FinishRotation(r, [req[r].snap EXCEPT !.revoked = TRUE])
RevokeOld_LinksItself(r) ==
    FinishRotation(r, [req[r].snap EXCEPT !.revoked = TRUE, !.replaced = req[r].tok])

\* The presented token is revoked only now, after its child is committed.
RevokeOld(r) ==
    FinishRotation(r, [req[r].snap EXCEPT !.revoked = TRUE,
                                          !.replaced = req[r].new])

\* The response of a login or of a refresh reaches the client.
Answer(r) ==
    /\ req[r].pc = "answer"
    /\ held' = held \cup {req[r].new}
    /\ req' = [req EXCEPT ![r] = Idle]
    /\ UNCHANGED <<users, row, now, minted, parent, loggedOut>>

\* revokeTokenFamily is one UPDATE over the rows that exist at that moment.
RevokeTokenFamily(family) ==
    row' = [t \in Tokens |-> IF Live(t) /\ row[t].family = family
                            THEN [row[t] EXCEPT !.revoked = TRUE] ELSE row[t]]

RevokeFamily(r) ==
    /\ req[r].pc = "revokeFamily"
    /\ RevokeTokenFamily(req[r].snap.family)
    /\ req' = [req EXCEPT ![r] = Idle]
    /\ UNCHANGED <<users, now, minted, parent, held, loggedOut>>

-----------------------------------------------------------------------------
(* logout                                                                  *)

\* findOne; a token without a row is acknowledged all the same.
LogoutFind(r, t) ==
    /\ req[r].pc = "idle"
    /\ t \in held
    /\ req' = [req EXCEPT ![r] =
                 [Idle EXCEPT !.pc = IF Stored(t) THEN "logoutSave" ELSE "ack",
                              !.tok = t, !.snap = row[t]]]
    /\ UNCHANGED <<users, row, now, minted, parent, held, loggedOut>>

\* Faulty variant: the entity is saved back as it was read.
LogoutSave_StaleEntity(r) ==
    /\ req[r].pc = "logoutSave"
    /\ SaveEntity(req[r].tok, req[r].snap)
    /\ req' = [req EXCEPT ![r] = [Idle EXCEPT !.pc = "ack", !.tok = req[r].tok]]
    /\ UNCHANGED <<users, now, minted, parent, held, loggedOut>>

\* save writes back every column of the entity that differs from the row its
\* SELECT sees; a concurrent rotation commits its replacedByToken before that
\* SELECT (and is overwritten) or after it (and is kept).
LogoutSave(r) ==
    /\ req[r].pc = "logoutSave"
    /\ \E link \in {req[r].snap.replaced}
                     \cup (IF Stored(req[r].tok)
                           THEN {row[req[r].tok].replaced} ELSE {}) :
          SaveEntity(req[r].tok, [req[r].snap EXCEPT !.revoked = TRUE,
                                                     !.replaced = link])
    /\ req' = [req EXCEPT ![r] = [Idle EXCEPT !.pc = "ack", !.tok = req[r].tok]]
    /\ UNCHANGED <<users, now, minted, parent, held, loggedOut>>

Ack(r) ==
    /\ req[r].pc = "ack"
    /\ loggedOut' = loggedOut \cup {req[r].tok}
    /\ req' = [req EXCEPT ![r] = Idle]
    /\ UNCHANGED <<users, row, now, minted, parent, held>>

-----------------------------------------------------------------------------
(* revokeAllUserTokens, cleanupExpiredTokens, removal of a user            *)

RevokeAllUserTokens(u) ==
    /\ row' = [t \in Tokens |-> IF Live(t) /\ row[t].user = u
                                THEN [row[t] EXCEPT !.revoked = TRUE]
                                ELSE row[t]]
    /\ UNCHANGED <<users, now, req, minted, parent, held, loggedOut>>

\* Faulty variant: rows are removed a tick before they expire.
CleanupExpiredTokens_TooEarly ==
    /\ row' = [t \in Tokens |-> IF Stored(t) /\ row[t].exp <= now + 1
                                THEN NoRow ELSE row[t]]
    /\ UNCHANGED <<users, now, req, minted, parent, held, loggedOut>>

CleanupExpiredTokens ==
    /\ row' = [t \in Tokens |-> IF Stored(t) /\ row[t].exp < now
                                THEN NoRow ELSE row[t]]
    /\ UNCHANGED <<users, now, req, minted, parent, held, loggedOut>>

\* UsersService.remove; the foreign key cascades to refresh_tokens.
RemoveUser(u) ==
    /\ u \in users
    /\ users' = users \ {u}
    /\ row' = [t \in Tokens |-> IF Stored(t) /\ row[t].user = u
                                THEN NoRow ELSE row[t]]
    /\ UNCHANGED <<now, req, minted, parent, held, loggedOut>>

-----------------------------------------------------------------------------
(* Errors and time                                                         *)

\* An INSERT for a user that is gone: the request ends with an error.
ForeignKeyError(r) ==
    /\ \/ req[r].pc = "insert" /\ req[r].user \notin users
       \/ /\ req[r].pc \in {"revokeOld", "logoutSave"}
          /\ ~Stored(req[r].tok)
          /\ req[r].snap.user \notin users
    /\ req' = [req EXCEPT ![r] = Idle]
    /\ UNCHANGED <<users, row, now, minted, parent, held, loggedOut>>

\* A database call fails, the process stops or the response is lost: what was
\* committed stays, nothing undoes it.
Fail(r) ==
    /\ MayFail
    /\ req[r].pc # "idle"
    /\ req' = [req EXCEPT ![r] = Idle]
    /\ UNCHANGED <<users, row, now, minted, parent, held, loggedOut>>

Tick ==
    /\ now < MaxTime
    /\ now' = now + 1
    /\ UNCHANGED <<users, row, req, minted, parent, held, loggedOut>>

-----------------------------------------------------------------------------
\* What a request does once it has started.
Step(r) ==
    \/ InsertToken(r) \/ RevokeOld(r) \/ Answer(r) \/ RevokeFamily(r)
    \/ LogoutSave(r) \/ Ack(r) \/ ForeignKeyError(r)

Next ==
    \/ \E r \in Reqs :
          \/ \E u \in Users : LoginFind(r, u)
          \/ \E t \in Tokens : RefreshFind(r, t) \/ LogoutFind(r, t)
          \/ Step(r) \/ Fail(r)
    \/ \E u \in Users : RevokeAllUserTokens(u) \/ RemoveUser(u)
    \/ CleanupExpiredTokens
    \/ Tick

Spec == Init /\ [][Next]_vars

\* Node.js resumes every pending await.
FairSpec == Spec /\ \A r \in Reqs : WF_vars(Step(r))

-----------------------------------------------------------------------------
(* Properties                                                              *)

\* Every variable has its type; the histories only name minted tokens.
TypeOK ==
    /\ users \subseteq Users
    /\ row \in [Tokens -> Row \cup {NoRow}]
    /\ now \in Nat
    /\ req \in [Reqs -> Slot]
    /\ minted \subseteq Tokens
    /\ parent \in [Tokens -> minted \cup {NoToken}]
    /\ held \subseteq minted
    /\ loggedOut \subseteq minted

\* What a slot holds at each await.
Shaped(s) ==
    /\ s.tok \in minted \cup {NoToken}
    /\ s.pc = "insert" =>
          /\ s.user \in Users
          /\ s.tok # NoToken => s.snap \in Row /\ s.user = s.snap.user
    /\ s.pc \in {"revokeOld", "revokeFamily", "logoutSave"} =>
          s.tok # NoToken /\ s.snap \in Row
    /\ s.pc \in {"revokeOld", "answer"} =>
          s.new \in minted /\ parent[s.new] = s.tok
    /\ s.pc = "ack" => s.tok # NoToken
SlotShape == \A r \in Reqs : Shaped(req[r])

Exchanged(t) == \E c \in held : parent[c] = t

\* Once a refresh has answered with the successor of a token, or a logout with
\* it was acknowledged, the token is never accepted again, whatever rotations,
\* logouts, cleanups and late saves of stale entities ran beside it.
SpentTokenIsDead ==
    \A t \in Tokens : Exchanged(t) \/ t \in loggedOut => ~Live(t)

\* Rows of one family belong to one user: revoking a family never touches the
\* session of somebody else, even when rows were deleted and saved back.
FamilyHasOneUser ==
    \A t1, t2 \in Tokens :
        Stored(t1) /\ Stored(t2) /\ row[t1].family = row[t2].family
            => row[t1].user = row[t2].user

\* replacedByToken, when set, names a token that was issued in exchange for the
\* revoked one, in the same family and for the same user.
ReplacedLinkIsChild ==
    \A t \in Tokens :
        Stored(t) /\ row[t].replaced # NoToken =>
            LET c == row[t].replaced IN
                /\ parent[c] = t
                /\ row[t].revoked
                /\ Stored(c) => /\ row[c].family = row[t].family
                               /\ row[c].user = row[t].user

FamilyDead(f) ==
    /\ \A t \in Tokens : Live(t) => row[t].family # f
    /\ \A r \in Reqs : req[r].pc = "insert" /\ req[r].tok # NoToken
                          => req[r].snap.family # f

\* A family without a live token and without a refresh between its findOne and
\* its insert stays dead: no cleanup, retry or late save brings it back.
DeadFamilyStaysDead ==
    [][\A f \in minted : FamilyDead(f) => FamilyDead(f)']_vars

\* A usable token stops being usable only because it expires, its user is
\* removed or revokes everything, it is itself exchanged or logged out, or a
\* revoked token of its own family was presented.
Usable(t) == Live(t) /\ ~Expired(row[t])
SessionEndsForAReason ==
    [][\A t \in Tokens : Usable(t) /\ ~Usable(t)' =>
          \/ row[t].exp <= now'
          \/ row[t].user \notin users'
          \/ RevokeAllUserTokens(row[t].user)
          \/ \E r \in Reqs :
                \/ req[r].pc \in {"revokeOld", "logoutSave"} /\ req[r].tok = t
                \/ /\ req[r].pc = "revokeFamily"
                   /\ req[r].snap.family = row[t].family
      ]_vars

\* entities/refresh-token.entity.ts:16 "Implements token rotation (one-time use)":
\* no two clients ever receive a successor of the same token.
OneTimeUse ==
    \A c1, c2 \in held :
        parent[c1] = parent[c2] /\ parent[c1] # NoToken => c1 = c2

\* While no request is in flight, a session has at most one live token.
OneLiveTokenPerFamily ==
    (\A r \in Reqs : req[r].pc = "idle") =>
        \A t1, t2 \in Tokens :
            Live(t1) /\ Live(t2) /\ row[t1].family = row[t2].family => t1 = t2

\* entities/refresh-token.entity.ts:51 "Points to the new token after rotation":
\* the row of an exchanged token names a successor.
ExchangedRowPointsOn ==
    \A t \in Tokens : Exchanged(t) /\ Stored(t) => row[t].replaced # NoToken

\* An accepted refresh ends the life of the token it was given, when nothing
\* fails in between.
AcceptedTokenDies ==
    \A r \in Reqs : \A t \in Tokens :
        (req[r].pc = "insert" /\ req[r].tok = t) ~> ~Live(t)

\* The service implements optimistic rotation: a successor is only ever issued
\* to a request that found a live token of the family.
R == INSTANCE Rotation WITH
        born <- minted,
        live <- [t \in Tokens |-> IF Live(t) THEN row[t].family ELSE NoToken],
        claim <- [r \in Reqs |->
                    IF req[r].pc = "insert" /\ req[r].tok # NoToken
                    THEN req[r].snap.family ELSE NoToken]
ImplementsRotation == R!Spec

=============================================================================
