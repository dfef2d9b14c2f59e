--------------------------- MODULE RotationProofs ---------------------------
(***************************************************************************)
(* RefreshTokens implements Rotation, links name real successors, and a    *)
(* session ends only for a reason: proofs for any number of users, tokens, *)
(* requests in flight and ticks, with or without failures.                 *)
(***************************************************************************)
EXTENDS RefreshTokensProofs

-----------------------------------------------------------------------------
(* What each step does to its slot and to the table                        *)

OthersStay(r) == \A q \in Reqs \ {r} : req'[q] = req[q]

LEMMA LoginEffect ==
    ASSUME Typed, NEW r \in Reqs, NEW u \in Users, LoginFind(r, u)
    PROVE  /\ req[r].pc = "idle" /\ OthersStay(r)
           /\ req'[r].pc = "insert" /\ req'[r].tok = NoToken /\ req'[r].snap = NoRow
           /\ UNCHANGED <<row, minted, parent, held, loggedOut>>
<1>1. PICK S : S = [Idle EXCEPT !.pc = "insert", !.user = u, !.exp = now + Lifetime]
  OBVIOUS
<1>2. S.pc = "insert" /\ S.tok = NoToken /\ S.snap = NoRow
  BY <1>1 DEF Idle
<1>3. req' = [req EXCEPT ![r] = S]
  BY <1>1 DEF LoginFind
<1> QED BY <1>2, <1>3 DEF LoginFind, OthersStay, Typed, TypeOK

\* A refresh goes on with what findOne returned.
LEMMA RefreshEffect ==
    ASSUME Typed, NEW r \in Reqs, NEW t \in Tokens, RefreshFind(r, t)
    PROVE  /\ req[r].pc = "idle" /\ OthersStay(r)
           /\ req'[r].tok = t /\ req'[r].snap = row[t] /\ Stored(t) /\ t \in held
           /\ \/ req'[r].pc = "revokeFamily" /\ ~Live(t)
              \/ req'[r].pc = "insert" /\ Live(t)
           /\ UNCHANGED <<row, minted, parent, held, loggedOut>>
<1>1. PICK S1 : S1 = [Idle EXCEPT !.pc = "revokeFamily", !.tok = t, !.snap = row[t]]
  OBVIOUS
<1>2. PICK S2 : S2 = [Idle EXCEPT !.pc = "insert", !.tok = t, !.user = row[t].user,
                                  !.snap = row[t], !.exp = now + Lifetime]
  OBVIOUS
<1>3. /\ S1.pc = "revokeFamily" /\ S1.tok = t /\ S1.snap = row[t]
      /\ S2.pc = "insert" /\ S2.tok = t /\ S2.snap = row[t]
  BY <1>1, <1>2 DEF Idle
<1>4. \/ row[t].revoked /\ req' = [req EXCEPT ![r] = S1]
      \/ ~row[t].revoked /\ req' = [req EXCEPT ![r] = S2]
  BY <1>1, <1>2 DEF RefreshFind
<1> QED BY <1>3, <1>4 DEF RefreshFind, OthersStay, Live, Typed, TypeOK

LEMMA LogoutFindEffect ==
    ASSUME Typed, NEW r \in Reqs, NEW t \in Tokens, LogoutFind(r, t)
    PROVE  /\ req[r].pc = "idle" /\ OthersStay(r)
           /\ req'[r].tok = t /\ req'[r].snap = row[t] /\ t \in held
           /\ req'[r].pc = IF Stored(t) THEN "logoutSave" ELSE "ack"
           /\ UNCHANGED <<row, minted, parent, held, loggedOut>>
<1>1. PICK S : S = [Idle EXCEPT !.pc = IF Stored(t) THEN "logoutSave" ELSE "ack",
                                !.tok = t, !.snap = row[t]]
  OBVIOUS
<1>2. S.tok = t /\ S.snap = row[t] /\ S.pc = IF Stored(t) THEN "logoutSave" ELSE "ack"
  BY <1>1 DEF Idle
<1>3. req' = [req EXCEPT ![r] = S]
  BY <1>1 DEF LogoutFind
<1> QED BY <1>2, <1>3 DEF LogoutFind, OthersStay, Typed, TypeOK

\* The entity s, revoked and linked, is in row x.
IsRetired(x, s, link) ==
    /\ row'[x] \in Row
    /\ row'[x].user = s.user /\ row'[x].family = s.family
    /\ row'[x].revoked = TRUE /\ row'[x].replaced = link

\* A save of a retired entity changes the row of its token only, and leaves no
\* live row there.
LEMMA SaveEffect ==
    ASSUME Typed, NEW t \in Tokens, NEW s \in Row, NEW link \in Tokens \cup {NoToken},
           SaveEntity(t, [s EXCEPT !.revoked = TRUE, !.replaced = link])
    PROVE  /\ \A x \in Tokens \ {t} : row'[x] = row[x]
           /\ IsRetired(t, s, link) \/ (row[t] = NoRow /\ row'[t] = NoRow)
<1>1. PICK e : e = [s EXCEPT !.revoked = TRUE, !.replaced = link]
  OBVIOUS
<1>2. e \in Row /\ e.user = s.user /\ e.family = s.family /\ e.revoked = TRUE /\ e.replaced = link
  BY <1>1 DEF Row
<1>3. row' = [row EXCEPT ![t] = e] \/ (row[t] = NoRow /\ row' = row)
  BY <1>1 DEF SaveEntity, Stored
<1> QED BY <1>2, <1>3 DEF IsRetired, Typed, TypeOK

LEMMA RevokeOldEffect ==
    ASSUME Typed, NEW r \in Reqs, RevokeOld(r)
    PROVE  /\ req[r].pc = "revokeOld" /\ OthersStay(r)
           /\ req[r].tok \in Tokens /\ req[r].new \in minted /\ parent[req[r].new] = req[r].tok
           /\ req[r].snap \in Row
           /\ req'[r].pc = "answer" /\ req'[r].tok = req[r].tok /\ req'[r].new = req[r].new
           /\ req'[r].snap = NoRow
           /\ \A x \in Tokens \ {req[r].tok} : row'[x] = row[x]
           /\ \/ IsRetired(req[r].tok, req[r].snap, req[r].new)
              \/ row[req[r].tok] = NoRow /\ row'[req[r].tok] = NoRow
           /\ UNCHANGED <<minted, parent, held, loggedOut>>
<1>1. PICK S : S = [Idle EXCEPT !.pc = "answer", !.tok = req[r].tok, !.new = req[r].new]
  OBVIOUS
<1>2. S.pc = "answer" /\ S.tok = req[r].tok /\ S.new = req[r].new /\ S.snap = NoRow
  BY <1>1 DEF Idle
<1>3. req[r].pc = "revokeOld" /\ req' = [req EXCEPT ![r] = S]
  BY <1>1 DEF RevokeOld, FinishRotation
<1>4. req[r].tok \in Tokens /\ req[r].new \in minted /\ parent[req[r].new] = req[r].tok
      /\ req[r].snap \in Row /\ req[r].new \in Tokens
  BY <1>3 DEF Typed, TypeOK, SlotShape, Shaped
<1>5. SaveEntity(req[r].tok, [req[r].snap EXCEPT !.revoked = TRUE, !.replaced = req[r].new])
  BY DEF RevokeOld, FinishRotation
<1>6. /\ \A x \in Tokens \ {req[r].tok} : row'[x] = row[x]
      /\ \/ IsRetired(req[r].tok, req[r].snap, req[r].new)
         \/ row[req[r].tok] = NoRow /\ row'[req[r].tok] = NoRow
  BY <1>4, <1>5, SaveEffect
<1>7. UNCHANGED <<minted, parent, held, loggedOut>>
  BY DEF RevokeOld, FinishRotation
<1>8. OthersStay(r) /\ req'[r] = S
  BY <1>3 DEF OthersStay, Typed, TypeOK
<1> QED BY <1>2, <1>3, <1>4, <1>6, <1>7, <1>8

\* The link that a logout writes is the one it read, or the one in the row.
LEMMA LogoutSaveEffect ==
    ASSUME Typed, NEW r \in Reqs, LogoutSave(r)
    PROVE  /\ req[r].pc = "logoutSave" /\ OthersStay(r)
           /\ req[r].tok \in Tokens /\ req[r].snap \in Row
           /\ req'[r].pc = "ack" /\ req'[r].tok = req[r].tok /\ req'[r].snap = NoRow
           /\ \A x \in Tokens \ {req[r].tok} : row'[x] = row[x]
           /\ \/ IsRetired(req[r].tok, req[r].snap, req[r].snap.replaced)
              \/ /\ Stored(req[r].tok)
                 /\ IsRetired(req[r].tok, req[r].snap, row[req[r].tok].replaced)
              \/ row[req[r].tok] = NoRow /\ row'[req[r].tok] = NoRow
           /\ UNCHANGED <<minted, parent, held, loggedOut>>
<1>1. PICK S : S = [Idle EXCEPT !.pc = "ack", !.tok = req[r].tok]
  OBVIOUS
<1>2. S.pc = "ack" /\ S.tok = req[r].tok /\ S.snap = NoRow
  BY <1>1 DEF Idle
<1>3. req[r].pc = "logoutSave" /\ req' = [req EXCEPT ![r] = S]
  BY <1>1 DEF LogoutSave
<1>4. req[r].tok \in Tokens /\ req[r].snap \in Row
      /\ (Stored(req[r].tok) => row[req[r].tok] \in Row)
  BY <1>3 DEF Typed, TypeOK, SlotShape, Shaped, Stored
<1>5. PICK link \in {req[r].snap.replaced}
                      \cup (IF Stored(req[r].tok) THEN {row[req[r].tok].replaced} ELSE {}) :
        SaveEntity(req[r].tok, [req[r].snap EXCEPT !.revoked = TRUE, !.replaced = link])
  BY Zenon DEF LogoutSave
<1>6. link \in Tokens \cup {NoToken}
  BY <1>4, <1>5 DEF Row
<1>7. /\ \A x \in Tokens \ {req[r].tok} : row'[x] = row[x]
      /\ \/ IsRetired(req[r].tok, req[r].snap, link)
         \/ row[req[r].tok] = NoRow /\ row'[req[r].tok] = NoRow
  BY <1>4, <1>5, <1>6, SaveEffect
<1>8. UNCHANGED <<minted, parent, held, loggedOut>>
  BY DEF LogoutSave
<1>9. OthersStay(r) /\ req'[r] = S
  BY <1>3 DEF OthersStay, Typed, TypeOK
<1> QED BY <1>2, <1>3, <1>4, <1>5, <1>7, <1>8, <1>9

\* A request that ends leaves nothing in its slot.
LEMMA EndEffect ==
    ASSUME Typed, NEW r \in Reqs,
           Answer(r) \/ RevokeFamily(r) \/ Ack(r) \/ ForeignKeyError(r) \/ Fail(r)
    PROVE  /\ req[r].pc # "idle" /\ OthersStay(r)
           /\ req'[r].pc = "idle" /\ req'[r].tok = NoToken /\ req'[r].snap = NoRow
           /\ UNCHANGED <<minted, parent>>
           /\ ~RevokeFamily(r) => UNCHANGED row
<1>1. req' = [req EXCEPT ![r] = Idle] /\ req[r].pc # "idle" /\ UNCHANGED <<minted, parent>>
  BY DEF Answer, RevokeFamily, RevokeTokenFamily, Ack, ForeignKeyError, Fail
<1>2. Idle.pc = "idle" /\ Idle.tok = NoToken /\ Idle.snap = NoRow
  BY DEF Idle
<1>3. ~RevokeFamily(r) => UNCHANGED row
  BY DEF Answer, Ack, ForeignKeyError, Fail
<1> QED BY <1>1, <1>2, <1>3 DEF OthersStay, Typed, TypeOK

\* The other steps touch no slot.
LEMMA TableEffect ==
    ASSUME \/ \E u \in Users : RevokeAllUserTokens(u) \/ RemoveUser(u)
           \/ CleanupExpiredTokens \/ Tick \/ UNCHANGED vars
    PROVE  UNCHANGED <<req, minted, parent, held, loggedOut>>
BY DEF RevokeAllUserTokens, RemoveUser, CleanupExpiredTokens, Tick, vars

-----------------------------------------------------------------------------
(* Refinement                                                              *)

\* What the instance R of Rotation sees in the place of live and of claim.
liveBar == [t \in Tokens |-> IF Live(t) THEN row[t].family ELSE NoToken]
claimBar == [r \in Reqs |-> IF req[r].pc = "insert" /\ req[r].tok # NoToken
                            THEN req[r].snap.family ELSE NoToken]

LEMMA FamilyOfLive == ASSUME Typed, NEW t \in Tokens, Live(t) PROVE row[t].family \in Tokens
BY DEF Live, Stored, Typed, TypeOK, Row

\* Apart from an insert, rows only leave the live ones: Rotation retires them.
LEMMA RetireStep ==
    ASSUME Typed, [Next]_vars, ~ \E r \in Reqs : InsertToken(r)
    PROVE  \E S \in SUBSET Tokens :
              liveBar' = [t \in Tokens |-> IF t \in S THEN NoToken ELSE liveBar[t]]
<1> DEFINE S == {t \in Tokens : Live(t) /\ row'[t] # row[t]}
<1>1. ASSUME NEW t \in Tokens
      PROVE  liveBar'[t] = IF t \in S THEN NoToken ELSE liveBar[t]
  <2>1. CASE Live(t)'
    <3>1. Live(t) /\ row'[t] = row[t]
      BY <2>1, OnlyInsertGivesLife
    <3> QED BY <2>1, <3>1 DEF liveBar
  <2>2. CASE ~Live(t)'
    <3>1. liveBar'[t] = NoToken
      BY <2>2 DEF liveBar
    <3>2. t \in S \/ ~Live(t)
      BY <2>2 DEF Live, Stored
    <3> QED BY <3>1, <3>2 DEF liveBar
  <2> QED BY <2>1, <2>2
<1>2. liveBar' = [t \in Tokens |-> IF t \in S THEN NoToken ELSE liveBar[t]]
  BY <1>1 DEF liveBar
<1> QED BY <1>2

\* Of the steps without an insert, only a find and an error touch a claim, and
\* they write no row.
LEMMA ClaimStep ==
    ASSUME Typed, [Next]_vars, ~ \E r \in Reqs : InsertToken(r)
    PROVE  \/ UNCHANGED claimBar
           \/ /\ UNCHANGED liveBar
              /\ \E r \in Reqs :
                    \/ /\ claimBar[r] = NoToken
                       /\ \E t \in Tokens : /\ Live(t)
                                            /\ claimBar' = [claimBar EXCEPT ![r] = row[t].family]
                    \/ /\ claimBar[r] # NoToken
                       /\ claimBar' = [claimBar EXCEPT ![r] = NoToken]
<1>1. ASSUME NEW r \in Reqs, OthersStay(r), NEW c, claimBar'[r] = c
      PROVE  claimBar' = [claimBar EXCEPT ![r] = c]
  BY <1>1 DEF OthersStay, claimBar
<1>2. ASSUME NEW r \in Reqs, OthersStay(r), claimBar[r] = claimBar'[r]
      PROVE  UNCHANGED claimBar
  BY <1>2 DEF OthersStay, claimBar
<1>3. ASSUME NEW r \in Reqs, NEW u \in Users, LoginFind(r, u) PROVE UNCHANGED claimBar
  BY <1>2, <1>3, LoginEffect DEF claimBar
<1>4. ASSUME NEW r \in Reqs, NEW t \in Tokens, RefreshFind(r, t)
      PROVE  \/ UNCHANGED claimBar
             \/ /\ UNCHANGED liveBar /\ claimBar[r] = NoToken /\ Live(t)
                /\ claimBar' = [claimBar EXCEPT ![r] = row[t].family]
  <2>1. /\ req[r].pc = "idle" /\ OthersStay(r) /\ req'[r].tok = t
        /\ req'[r].snap = row[t] /\ UNCHANGED row
        /\ \/ req'[r].pc = "revokeFamily"
           \/ req'[r].pc = "insert" /\ Live(t)
    BY <1>4, RefreshEffect
  <2>2. UNCHANGED liveBar /\ claimBar[r] = NoToken
    BY <2>1 DEF liveBar, Live, Stored, claimBar
  <2>3. CASE req'[r].pc = "revokeFamily"
    BY <1>2, <2>1, <2>2, <2>3 DEF claimBar
  <2>4. CASE req'[r].pc = "insert" /\ Live(t)
    <3>1. claimBar'[r] = row[t].family
      BY <2>1, <2>4, NoTokenAssumption DEF claimBar
    <3> QED BY <1>1, <2>1, <2>2, <2>4, <3>1
  <2> QED BY <2>1, <2>3, <2>4
<1>5. ASSUME NEW r \in Reqs, NEW t \in Tokens, LogoutFind(r, t) PROVE UNCHANGED claimBar
  <2>1. OthersStay(r) /\ req[r].pc = "idle" /\ req'[r].pc # "insert"
    BY <1>5, LogoutFindEffect
  <2> QED BY <1>2, <2>1 DEF claimBar
<1>6. ASSUME NEW r \in Reqs, RevokeOld(r) \/ LogoutSave(r) PROVE UNCHANGED claimBar
  <2>1. OthersStay(r) /\ req[r].pc # "insert" /\ req'[r].pc # "insert"
    BY <1>6, RevokeOldEffect, LogoutSaveEffect
  <2> QED BY <1>2, <2>1 DEF claimBar
<1>7. ASSUME NEW r \in Reqs,
             Answer(r) \/ RevokeFamily(r) \/ Ack(r) \/ ForeignKeyError(r) \/ Fail(r)
      PROVE  \/ UNCHANGED claimBar
             \/ /\ UNCHANGED liveBar /\ claimBar[r] # NoToken
                /\ claimBar' = [claimBar EXCEPT ![r] = NoToken]
  <2>1. OthersStay(r) /\ claimBar'[r] = NoToken /\ (RevokeFamily(r) \/ UNCHANGED row)
    BY <1>7, EndEffect DEF claimBar
  <2>2. CASE claimBar[r] = NoToken
    BY <1>2, <2>1, <2>2
  <2>3. CASE claimBar[r] # NoToken
    <3>1. req[r].pc = "insert"
      BY <2>3 DEF claimBar
    <3>2. UNCHANGED row
      BY <2>1, <3>1 DEF RevokeFamily
    <3>3. UNCHANGED liveBar
      BY <3>2 DEF liveBar, Live, Stored
    <3> QED BY <1>1, <2>1, <2>3, <3>3
  <2> QED BY <2>2, <2>3
<1>8. ASSUME \/ \E u \in Users : RevokeAllUserTokens(u) \/ RemoveUser(u)
             \/ CleanupExpiredTokens \/ Tick \/ UNCHANGED vars
      PROVE  UNCHANGED claimBar
  BY <1>8, TableEffect DEF claimBar
<1> QED BY <1>3, <1>4, <1>5, <1>6, <1>7, <1>8 DEF Next, Step

\* An insert is the Open of a family for a login, and an Exchange for a refresh.
LEMMA InsertStep ==
    ASSUME Typed, NEW r \in Reqs, InsertToken(r)
    PROVE  \E t \in Tokens : R!Open(t) \/ R!Exchange(r, t)
<1>1. PICK t \in Tokens \ minted :
        /\ minted' = minted \cup {t}
        /\ row'[t].family = FamilyFor(req[r], t)
        /\ row'[t].revoked = FALSE
        /\ row'[t] \in Row
        /\ \A x \in Tokens \ {t} : row'[x] = row[x]
        /\ req'[r].pc # "insert"
        /\ \A q \in Reqs \ {r} : req'[q] = req[q]
  BY InsertOne
<1>2. req[r].pc = "insert" /\ (req[r].tok # NoToken => req[r].snap \in Row)
  BY DEF InsertToken, Typed, SlotShape, Shaped
<1>3. liveBar' = [liveBar EXCEPT ![t] = FamilyFor(req[r], t)]
  <2>1. liveBar'[t] = FamilyFor(req[r], t)
    BY <1>1, NoRowAssumption DEF liveBar, Live, Stored
  <2>2. \A x \in Tokens \ {t} : liveBar'[x] = liveBar[x]
    BY <1>1 DEF liveBar, Live, Stored
  <2> QED BY <2>1, <2>2 DEF liveBar
<1>4. claimBar' = [claimBar EXCEPT ![r] = NoToken]
  BY <1>1 DEF claimBar
<1>5. CASE req[r].tok = NoToken
  <2>1. UNCHANGED claimBar /\ FamilyFor(req[r], t) = t
    BY <1>4, <1>5 DEF claimBar, FamilyFor
  <2>2. R!Open(t)
    BY <1>1, <1>3, <2>1 DEF R!Open, liveBar, claimBar
  <2> QED BY <2>2
<1>6. CASE req[r].tok # NoToken
  <2>1. claimBar[r] = FamilyFor(req[r], t) /\ claimBar[r] # NoToken
    BY <1>2, <1>6, NoTokenAssumption DEF claimBar, FamilyFor, Row
  <2>2. R!Exchange(r, t)
    BY <1>1, <1>3, <1>4, <2>1 DEF R!Exchange, liveBar, claimBar
  <2> QED BY <2>2
<1> QED BY <1>5, <1>6

LEMMA RotationStep == ASSUME Typed, [Next]_vars PROVE [R!Next]_(R!vars)
<1>1. CASE \E r \in Reqs : InsertToken(r)
  BY <1>1, InsertStep DEF R!Next
<1>2. CASE ~ \E r \in Reqs : InsertToken(r)
  <2>1. UNCHANGED minted
    BY <1>2, HistoryStep
  <2>2. CASE UNCHANGED claimBar
    <3>1. PICK S \in SUBSET Tokens :
            liveBar' = [t \in Tokens |-> IF t \in S THEN NoToken ELSE liveBar[t]]
      BY <1>2, RetireStep
    <3>2. R!Retire(S)
      BY <2>1, <2>2, <3>1 DEF R!Retire, liveBar, claimBar
    <3> QED BY <3>2 DEF R!Next
  <2>3. ASSUME UNCHANGED liveBar, NEW r \in Reqs, claimBar[r] = NoToken,
               NEW t \in Tokens, Live(t), claimBar' = [claimBar EXCEPT ![r] = row[t].family]
        PROVE  R!Claim(r, t)
    <3>1. liveBar[t] = row[t].family /\ liveBar[t] # NoToken
      BY <2>3, FamilyOfLive, NoTokenAssumption DEF liveBar
    <3> QED BY <2>1, <2>3, <3>1 DEF R!Claim, liveBar, claimBar
  <2>4. ASSUME UNCHANGED liveBar, NEW r \in Reqs, claimBar[r] # NoToken,
               claimBar' = [claimBar EXCEPT ![r] = NoToken]
        PROVE  R!Release(r)
    BY <2>1, <2>4 DEF R!Release, liveBar, claimBar
  <2> QED BY <1>2, <2>2, <2>3, <2>4, ClaimStep DEF R!Next
<1> QED BY <1>1, <1>2

\* Refreshes implement optimistic rotation (refreshTokens, generateTokenPair):
\* whatever runs beside them, a successor is only issued to a request that found
\* a live token of the family, and a retired token never comes back.
THEOREM RotationTheorem == Spec => ImplementsRotation
<1>1. Init => R!Init
  BY DEF Init, R!Init, Live, Stored, Idle
<1>2. Typed /\ [Next]_vars => [R!Next]_(R!vars)
  BY RotationStep
<1> QED BY <1>1, <1>2, AlwaysTyped, PTL DEF Spec, R!Spec, ImplementsRotation

-----------------------------------------------------------------------------
(* Links                                                                   *)

\* A row of token t, or an entity that a request has read for t, says that t is
\* a token of family f and user u.
SnapOf(r, t) == req[r].tok = t /\ req[r].snap # NoRow
TokenSays(t, f, u) ==
    \/ RowSays(t, f, u)
    \/ \E r \in Reqs : SnapOf(r, t) /\ SnapSays(r, f, u)

\* The entity e may be the row of t: a link names a token minted in exchange for
\* t, and only the row of a revoked token has one.
LinkOK(t, e) ==
    e.replaced # NoToken =>
        e.replaced \in minted /\ parent[e.replaced] = t /\ e.revoked

\* Rows are deleted and saved back from entities, so what holds of a row must
\* hold of the entities in flight as well.
RowsAreMinted == \A t \in Tokens : Stored(t) => t \in minted
SayingsAgree ==
    \A t \in Tokens, f, g \in Tokens, u, v \in Users :
        TokenSays(t, f, u) /\ TokenSays(t, g, v) => f = g /\ u = v
ChildrenAgree ==
    \A c, t \in Tokens, f, g \in Tokens, u, v \in Users :
        parent[c] = t /\ TokenSays(c, f, u) /\ TokenSays(t, g, v) => f = g /\ u = v
LinksOK ==
    /\ \A t \in Tokens : Stored(t) => LinkOK(t, row[t])
    /\ \A r \in Reqs : req[r].snap # NoRow => LinkOK(req[r].tok, req[r].snap)

LinkInv == RowsAreMinted /\ SayingsAgree /\ ChildrenAgree /\ LinksOK

\* What may become of the row of t in a step without an insert: it goes, it
\* stays, it is revoked, or an entity read for t is saved in its place.
RowStep(t) ==
    \/ row'[t] = NoRow
    \/ Stored(t) /\ row'[t] = row[t]
    \/ Stored(t) /\ IsRetired(t, row[t], row[t].replaced)
    \/ \E r \in Reqs : \E link :
          /\ SnapOf(r, t) /\ req[r].snap \in Row
          /\ IsRetired(t, req[r].snap, link)
          /\ \/ LogoutSave(r) /\ link = req[r].snap.replaced
             \/ LogoutSave(r) /\ Stored(t) /\ link = row[t].replaced
             \/ RevokeOld(r) /\ link = req[r].new /\ link \in minted /\ parent[link] = t

LEMMA RowSteps ==
    ASSUME Typed, [Next]_vars, ~ \E r \in Reqs : InsertToken(r), NEW t \in Tokens
    PROVE  RowStep(t)
<1>1. ASSUME row'[t] \in {NoRow, row[t]} PROVE RowStep(t)
  BY <1>1 DEF RowStep, Stored
<1>2. ASSUME Stored(t), row'[t] = [row[t] EXCEPT !.revoked = TRUE] PROVE RowStep(t)
  <2>1. PICK e : e = [row[t] EXCEPT !.revoked = TRUE]
    OBVIOUS
  <2>2. row[t] \in Row
    BY <1>2 DEF Stored, Typed, TypeOK
  <2>3. e \in Row /\ e.user = row[t].user /\ e.family = row[t].family
        /\ e.revoked = TRUE /\ e.replaced = row[t].replaced
    BY <2>1, <2>2 DEF Row
  <2> QED BY <1>2, <2>1, <2>3 DEF RowStep, IsRetired
<1>3. ASSUME NEW r \in Reqs, RevokeOld(r) PROVE RowStep(t)
  <2>1. CASE t # req[r].tok \/ row'[t] = NoRow
    BY <1>1, <1>3, <2>1, RevokeOldEffect
  <2>2. CASE t = req[r].tok /\ row'[t] # NoRow
    <3>1. SnapOf(r, t) /\ req[r].snap \in Row /\ IsRetired(t, req[r].snap, req[r].new)
          /\ req[r].new \in minted /\ parent[req[r].new] = t
      BY <1>3, <2>2, RevokeOldEffect, NoRowAssumption DEF SnapOf
    <3> QED BY <1>3, <3>1 DEF RowStep
  <2> QED BY <2>1, <2>2
<1>4. ASSUME NEW r \in Reqs, LogoutSave(r) PROVE RowStep(t)
  <2>1. CASE t # req[r].tok \/ row'[t] = NoRow
    BY <1>1, <1>4, <2>1, LogoutSaveEffect
  <2>2. CASE t = req[r].tok /\ row'[t] # NoRow
    <3>1. /\ SnapOf(r, t) /\ req[r].snap \in Row
          /\ \/ IsRetired(t, req[r].snap, req[r].snap.replaced)
             \/ Stored(t) /\ IsRetired(t, req[r].snap, row[t].replaced)
      BY <1>4, <2>2, LogoutSaveEffect, NoRowAssumption DEF SnapOf
    <3> QED BY <1>4, <3>1 DEF RowStep
  <2> QED BY <2>1, <2>2
<1>5. ASSUME (\E r \in Reqs : RevokeFamily(r)) \/ (\E u \in Users : RevokeAllUserTokens(u))
      PROVE  RowStep(t)
  <2>1. row'[t] = row[t] \/ (Stored(t) /\ row'[t] = [row[t] EXCEPT !.revoked = TRUE])
    BY <1>5 DEF RevokeFamily, RevokeTokenFamily, RevokeAllUserTokens, Live
  <2> QED BY <1>1, <1>2, <2>1
<1>6. ASSUME CleanupExpiredTokens \/ \E u \in Users : RemoveUser(u) PROVE RowStep(t)
  BY <1>1, <1>6 DEF CleanupExpiredTokens, RemoveUser
<1>7. ASSUME NEW r \in Reqs,
             \/ \E u \in Users : LoginFind(r, u)
             \/ \E x \in Tokens : RefreshFind(r, x) \/ LogoutFind(r, x)
      PROVE  RowStep(t)
  BY <1>1, <1>7, LoginEffect, RefreshEffect, LogoutFindEffect
<1>8. ASSUME NEW r \in Reqs, Answer(r) \/ Ack(r) \/ ForeignKeyError(r) \/ Fail(r)
      PROVE  RowStep(t)
  BY <1>1, <1>8 DEF Answer, Ack, ForeignKeyError, Fail
<1>9. CASE Tick \/ UNCHANGED vars
  BY <1>1, <1>9 DEF Tick, vars
<1> QED BY <1>3, <1>4, <1>5, <1>6, <1>7, <1>8, <1>9 DEF Next, Step

\* A request holds on to the entity it has read, drops it, or reads a row.
LEMMA SnapSteps ==
    ASSUME Typed, [Next]_vars, ~ \E r \in Reqs : InsertToken(r),
           NEW q \in Reqs, req'[q].snap # NoRow
    PROVE  \/ req'[q] = req[q]
           \/ /\ req'[q].tok \in Tokens /\ Stored(req'[q].tok)
              /\ req'[q].snap = row[req'[q].tok]
<1>1. ASSUME NEW r \in Reqs, RevokeOld(r) \/ LogoutSave(r) PROVE req'[q] = req[q]
  BY <1>1, RevokeOldEffect, LogoutSaveEffect DEF OthersStay
<1>2. ASSUME NEW r \in Reqs,
             Answer(r) \/ RevokeFamily(r) \/ Ack(r) \/ ForeignKeyError(r) \/ Fail(r)
      PROVE  req'[q] = req[q]
  BY <1>2, EndEffect DEF OthersStay
<1>3. ASSUME NEW r \in Reqs, NEW u \in Users, LoginFind(r, u) PROVE req'[q] = req[q]
  BY <1>3, LoginEffect DEF OthersStay
<1>4. ASSUME NEW r \in Reqs, NEW t \in Tokens, RefreshFind(r, t) \/ LogoutFind(r, t)
      PROVE  req'[q] = req[q] \/ (Stored(t) /\ req'[q].tok = t /\ req'[q].snap = row[t])
  <2>1. OthersStay(r) /\ req'[r].tok = t /\ req'[r].snap = row[t]
    BY <1>4, RefreshEffect, LogoutFindEffect
  <2>2. CASE q = r
    BY <2>1, <2>2 DEF Stored
  <2>3. CASE q # r
    BY <2>1, <2>3 DEF OthersStay
  <2> QED BY <2>2, <2>3
<1>5. ASSUME \/ \E u \in Users : RevokeAllUserTokens(u) \/ RemoveUser(u)
             \/ CleanupExpiredTokens \/ Tick \/ UNCHANGED vars
      PROVE  req'[q] = req[q]
  BY <1>5, TableEffect
<1> QED BY <1>1, <1>2, <1>3, <1>4, <1>5 DEF Next, Step

\* So nothing new is said of a token that has been minted.
LEMMA TokensSayNothingNew ==
    ASSUME Typed, [Next]_vars, ~ \E r \in Reqs : InsertToken(r),
           NEW t \in Tokens, NEW f, NEW u, TokenSays(t, f, u)'
    PROVE  TokenSays(t, f, u)
<1>1. CASE RowSays(t, f, u)'
  <2>1. RowStep(t)
    BY RowSteps
  <2>2. row'[t] # NoRow /\ row'[t].family = f /\ row'[t].user = u
    BY <1>1 DEF RowSays, Stored
  <2>3. CASE Stored(t) /\ (row'[t] = row[t] \/ IsRetired(t, row[t], row[t].replaced))
    BY <2>2, <2>3 DEF TokenSays, RowSays, IsRetired
  <2>4. ASSUME NEW r \in Reqs, NEW link, SnapOf(r, t), IsRetired(t, req[r].snap, link)
        PROVE  TokenSays(t, f, u)
    BY <2>2, <2>4 DEF TokenSays, SnapSays, SnapOf, IsRetired
  <2> QED BY <2>1, <2>2, <2>3, <2>4 DEF RowStep
<1>2. ASSUME NEW r \in Reqs, (SnapOf(r, t) /\ SnapSays(r, f, u))' PROVE TokenSays(t, f, u)
  <2>1. req'[r].tok = t /\ req'[r].snap # NoRow
        /\ req'[r].snap.family = f /\ req'[r].snap.user = u
    BY <1>2 DEF SnapOf, SnapSays
  <2> QED BY <2>1, SnapSteps DEF TokenSays, RowSays, SnapOf, SnapSays
<1> QED BY <1>1, <1>2 DEF TokenSays

LEMMA LinkStep ==
    ASSUME Typed, LinkInv, [Next]_vars, ~ \E r \in Reqs : InsertToken(r)
    PROVE  LinkInv'
<1>1. UNCHANGED <<minted, parent>>
  BY HistoryStep
<1>2. \A r \in Reqs : req[r].tok \in minted \cup {NoToken}
  BY DEF Typed, SlotShape, Shaped
<1>3. RowsAreMinted'
  <2> SUFFICES ASSUME NEW t \in Tokens, Stored(t)' PROVE t \in minted
    BY <1>1 DEF RowsAreMinted
  <2>1. RowStep(t) /\ row'[t] # NoRow
    BY RowSteps DEF Stored
  <2>2. ASSUME NEW r \in Reqs, SnapOf(r, t) PROVE t \in minted
    BY <1>2, <2>2, NoTokenAssumption DEF SnapOf
  <2> QED BY <2>1, <2>2 DEF RowStep, LinkInv, RowsAreMinted
<1>4. SayingsAgree' /\ ChildrenAgree'
  BY <1>1, TokensSayNothingNew DEF LinkInv, SayingsAgree, ChildrenAgree
<1>5. ASSUME NEW t \in Tokens, Stored(t)' PROVE LinkOK(t, row[t])'
  <2>1. RowStep(t) /\ row'[t] # NoRow
    BY <1>5, RowSteps DEF Stored
  <2>2. Stored(t) => LinkOK(t, row[t])
    BY DEF LinkInv, LinksOK
  <2>3. CASE Stored(t) /\ (row'[t] = row[t] \/ IsRetired(t, row[t], row[t].replaced))
    BY <1>1, <2>2, <2>3 DEF LinkOK, IsRetired
  <2>4. ASSUME NEW r \in Reqs, NEW link, SnapOf(r, t), IsRetired(t, req[r].snap, link),
               \/ link = req[r].snap.replaced
               \/ Stored(t) /\ link = row[t].replaced
               \/ link \in minted /\ parent[link] = t
        PROVE  LinkOK(t, row[t])'
    <3>1. LinkOK(t, req[r].snap)
      BY <2>4 DEF LinkInv, LinksOK, SnapOf
    <3>2. row'[t].replaced = link /\ row'[t].revoked
      BY <2>4 DEF IsRetired
    <3> QED BY <1>1, <2>2, <2>4, <3>1, <3>2 DEF LinkOK
  <2> QED BY <2>1, <2>3, <2>4 DEF RowStep
<1>6. ASSUME NEW q \in Reqs, req'[q].snap # NoRow PROVE LinkOK(req[q].tok, req[q].snap)'
  <2>1. CASE req'[q] = req[q]
    BY <1>1, <1>6, <2>1 DEF LinkInv, LinksOK, LinkOK
  <2>2. CASE /\ req'[q].tok \in Tokens /\ Stored(req'[q].tok)
             /\ req'[q].snap = row[req'[q].tok]
    BY <1>1, <2>2 DEF LinkInv, LinksOK, LinkOK
  <2> QED BY <1>6, <2>1, <2>2, SnapSteps
<1> QED BY <1>3, <1>4, <1>5, <1>6 DEF LinkInv, LinksOK

\* A new token says what the request read of the token it was exchanged for.
LEMMA LinkInsert ==
    ASSUME Typed, LinkInv, NEW r \in Reqs, InsertToken(r) PROVE LinkInv'
<1>1. PICK c \in Tokens \ minted :
        /\ minted' = minted \cup {c}
        /\ row'[c].family = FamilyFor(req[r], c) /\ row'[c].user = req[r].user
        /\ row'[c].replaced = NoToken
        /\ parent' = [parent EXCEPT ![c] = req[r].tok]
        /\ \A x \in Tokens \ {c} : row'[x] = row[x]
        /\ req'[r].tok = req[r].tok /\ req'[r].snap = req[r].snap
        /\ \A q \in Reqs \ {r} : req'[q] = req[q]
  BY InsertOne
<1>2. \A q \in Reqs : /\ req[q].tok \in minted \cup {NoToken}
                      /\ req'[q].tok = req[q].tok /\ req'[q].snap = req[q].snap
  BY <1>1 DEF Typed, SlotShape, Shaped
<1>3. /\ parent \in [Tokens -> minted \cup {NoToken}] /\ c \in Tokens /\ c \notin minted
      /\ minted \subseteq Tokens
      /\ \A x \in Tokens : parent'[x] = IF x = c THEN req[r].tok ELSE parent[x]
  BY <1>1 DEF Typed, TypeOK
<1>4. req[r].tok # NoToken => req[r].snap \in Row /\ req[r].user = req[r].snap.user
  BY DEF InsertToken, Typed, SlotShape, Shaped
<1>5. RowsAreMinted'
  BY <1>1 DEF LinkInv, RowsAreMinted, Stored
<1>6. ASSUME NEW t \in Tokens, t # c, NEW f, NEW u, TokenSays(t, f, u)' PROVE TokenSays(t, f, u)
  BY <1>1, <1>2, <1>6 DEF TokenSays, RowSays, SnapOf, SnapSays, Stored
<1>7. ASSUME NEW f, NEW u, TokenSays(c, f, u)' PROVE f = FamilyFor(req[r], c) /\ u = req[r].user
  <2>1. \A q \in Reqs : req'[q].tok # c
    BY <1>2, <1>3, NoTokenAssumption
  <2> QED BY <1>1, <1>7, <2>1 DEF TokenSays, RowSays, SnapOf
<1>8. SayingsAgree'
  BY <1>6, <1>7 DEF LinkInv, SayingsAgree
<1>9. ASSUME NEW d \in Tokens, NEW t \in Tokens, parent'[d] = t,
             NEW f \in Tokens, NEW g \in Tokens, NEW u \in Users, NEW v \in Users,
             TokenSays(d, f, u)', TokenSays(t, g, v)'
      PROVE  f = g /\ u = v
  <2>1. t # c
    BY <1>2, <1>3, <1>9, NoTokenAssumption
  <2>2. TokenSays(t, g, v)
    BY <1>6, <1>9, <2>1
  <2>3. CASE d # c
    BY <1>3, <1>6, <1>9, <2>2, <2>3 DEF LinkInv, ChildrenAgree
  <2>4. CASE d = c
    <3>1. t = req[r].tok /\ req[r].tok # NoToken
      BY <1>3, <1>9, <2>4, NoTokenAssumption
    <3>2. f = req[r].snap.family /\ u = req[r].snap.user
      BY <1>4, <1>7, <1>9, <2>4, <3>1 DEF FamilyFor
    <3>3. TokenSays(t, f, u)
      BY <1>4, <3>1, <3>2, NoRowAssumption DEF TokenSays, SnapOf, SnapSays
    <3> QED BY <2>2, <3>3 DEF LinkInv, SayingsAgree
  <2> QED BY <2>3, <2>4
<1>10. ChildrenAgree'
  BY <1>9 DEF ChildrenAgree
<1>11. ASSUME NEW t, NEW e, LinkOK(t, e)
       PROVE  e.replaced # NoToken =>
                e.replaced \in minted' /\ parent'[e.replaced] = t /\ e.revoked
  BY <1>1, <1>3, <1>11 DEF LinkOK
<1>12. ASSUME NEW t \in Tokens, Stored(t)' PROVE LinkOK(t, row[t])'
  <2>1. CASE t = c
    BY <1>1, <2>1 DEF LinkOK
  <2>2. CASE t # c
    <3>1. row'[t] = row[t] /\ Stored(t)
      BY <1>1, <1>12, <2>2 DEF Stored
    <3> QED BY <1>11, <3>1 DEF LinkOK, LinkInv, LinksOK
  <2> QED BY <2>1, <2>2
<1>13. ASSUME NEW q \in Reqs, req'[q].snap # NoRow PROVE LinkOK(req[q].tok, req[q].snap)'
  <2>1. req'[q].tok = req[q].tok /\ req'[q].snap = req[q].snap
    BY <1>2
  <2>2. LinkOK(req[q].tok, req[q].snap)
    BY <1>13, <2>1 DEF LinkInv, LinksOK
  <2> QED BY <1>11, <2>1, <2>2 DEF LinkOK
<1> QED BY <1>5, <1>8, <1>10, <1>12, <1>13 DEF LinkInv, LinksOK

LEMMA AlwaysLinked == Spec => []LinkInv
<1>1. Init => LinkInv
  BY DEF Init, LinkInv, RowsAreMinted, SayingsAgree, ChildrenAgree, LinksOK, TokenSays,
         RowSays, SnapOf, SnapSays, Stored, Idle
<1>2. Typed /\ LinkInv /\ [Next]_vars => LinkInv'
  BY LinkStep, LinkInsert
<1> QED BY <1>1, <1>2, AlwaysTyped, PTL DEF Spec

\* replacedByToken, which rotations write and logouts save back from an older
\* entity, never names anything but a token issued in exchange for the revoked
\* one, in its family and for its user.
THEOREM LinkTheorem == Spec => []ReplacedLinkIsChild
<1>1. Typed /\ LinkInv => ReplacedLinkIsChild
  <2> SUFFICES ASSUME Typed, LinkInv, NEW t \in Tokens, Stored(t), row[t].replaced # NoToken,
                      NEW c, c = row[t].replaced
               PROVE  /\ parent[c] = t /\ row[t].revoked
                      /\ Stored(c) => /\ row[c].family = row[t].family
                                      /\ row[c].user = row[t].user
    BY DEF ReplacedLinkIsChild
  <2>1. parent[c] = t /\ row[t].revoked /\ c \in Tokens
    BY DEF LinkInv, LinksOK, LinkOK, Typed, TypeOK
  <2>2. ASSUME Stored(c) PROVE row[c].family = row[t].family /\ row[c].user = row[t].user
    <3>1. row[c] \in Row /\ row[t] \in Row
      BY <2>1, <2>2 DEF Stored, Typed, TypeOK
    <3>2. TokenSays(c, row[c].family, row[c].user) /\ TokenSays(t, row[t].family, row[t].user)
      BY <2>2 DEF TokenSays, RowSays
    <3>3. /\ row[c].family \in Tokens /\ row[t].family \in Tokens
          /\ row[c].user \in Users /\ row[t].user \in Users
      BY <3>1 DEF Row
    <3> QED BY <2>1, <3>2, <3>3 DEF LinkInv, ChildrenAgree
  <2> QED BY <2>1, <2>2
<1> QED BY <1>1, AlwaysTyped, AlwaysLinked, PTL

-----------------------------------------------------------------------------
(* The end of a session                                                    *)

ReasonToEnd(t) ==
    \/ row[t].exp <= now'
    \/ row[t].user \notin users'
    \/ RevokeAllUserTokens(row[t].user)
    \/ \E r \in Reqs :
          \/ req[r].pc \in {"revokeOld", "logoutSave"} /\ req[r].tok = t
          \/ /\ req[r].pc = "revokeFamily"
             /\ req[r].snap.family = row[t].family

LEMMA SessionStep ==
    ASSUME Typed, RowsAreMinted, Next, NEW t \in Tokens, Usable(t), ~Usable(t)'
    PROVE  ReasonToEnd(t)
<1>1. Stored(t) /\ Live(t) /\ t \in minted /\ row[t] \in Row
  BY DEF Usable, Live, Stored, RowsAreMinted, Typed, TypeOK
<1>2. CASE row'[t] = row[t]
  BY <1>2 DEF Usable, Live, Stored, Expired, ReasonToEnd
<1>3. ASSUME NEW r \in Reqs, InsertToken(r) PROVE row'[t] = row[t]
  BY <1>1, <1>3, InsertOne
<1>4. ASSUME NEW r \in Reqs, RevokeOld(r) \/ LogoutSave(r), row'[t] # row[t]
      PROVE  ReasonToEnd(t)
  <2>1. req[r].pc \in {"revokeOld", "logoutSave"} /\ req[r].tok = t
    BY <1>4, RevokeOldEffect, LogoutSaveEffect
  <2> QED BY <2>1 DEF ReasonToEnd
<1>5. ASSUME NEW r \in Reqs, RevokeFamily(r), row'[t] # row[t] PROVE ReasonToEnd(t)
  BY <1>5 DEF RevokeFamily, RevokeTokenFamily, ReasonToEnd
<1>6. ASSUME NEW u \in Users, RevokeAllUserTokens(u), row'[t] # row[t] PROVE ReasonToEnd(t)
  <2>1. row[t].user = u
    BY <1>6 DEF RevokeAllUserTokens
  <2> QED BY <1>6, <2>1 DEF ReasonToEnd
<1>7. ASSUME NEW u \in Users, RemoveUser(u), row'[t] # row[t] PROVE ReasonToEnd(t)
  BY <1>7 DEF RemoveUser, ReasonToEnd
<1>8. ASSUME CleanupExpiredTokens, row'[t] # row[t] PROVE ReasonToEnd(t)
  <2>1. row[t].exp < now /\ now' = now
    BY <1>8 DEF CleanupExpiredTokens
  <2>2. row[t].exp \in Int /\ now \in Nat
    BY <1>1 DEF Row, Typed, TypeOK
  <2> QED BY <2>1, <2>2 DEF ReasonToEnd
<1>9. ASSUME NEW r \in Reqs,
             \/ \E u \in Users : LoginFind(r, u)
             \/ \E x \in Tokens : RefreshFind(r, x) \/ LogoutFind(r, x)
             \/ Answer(r) \/ Ack(r) \/ ForeignKeyError(r) \/ Fail(r)
      PROVE  row' = row
  <2>1. Answer(r) \/ Ack(r) \/ ForeignKeyError(r) \/ Fail(r) => row' = row
    BY DEF Answer, Ack, ForeignKeyError, Fail
  <2> QED BY <1>9, <2>1, LoginEffect, RefreshEffect, LogoutFindEffect
<1>10. Tick => row' = row
  BY DEF Tick
<1> QED BY <1>2, <1>3, <1>4, <1>5, <1>6, <1>7, <1>8, <1>9, <1>10 DEF Next, Step

\* A usable token stops being usable for a reason: no rotation, logout, reuse
\* detection, revocation or cleanup that concerns another session takes it away.
THEOREM SessionTheorem == Spec => SessionEndsForAReason
<1>1. Typed /\ LinkInv /\ [Next]_vars
        => [\A t \in Tokens : Usable(t) /\ ~Usable(t)' => ReasonToEnd(t)]_vars
  BY SessionStep DEF LinkInv
<1>2. Spec => [][\A t \in Tokens : Usable(t) /\ ~Usable(t)' => ReasonToEnd(t)]_vars
  BY <1>1, AlwaysTyped, AlwaysLinked, PTL DEF Spec
<1> QED BY <1>2 DEF SessionEndsForAReason, ReasonToEnd

=============================================================================
