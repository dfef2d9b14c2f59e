------------------------ MODULE SerialRefreshProofs ------------------------
(***************************************************************************)
(* What holds of refresh tokens while requests come one after another, for *)
(* any number of users, tokens and ticks.  Two refreshes of one token that *)
(* overlap break all of it (see the run RefreshOneTimeUse).                *)
(***************************************************************************)
EXTENDS RotationProofs

\* There is one slot, so a request starts when the one before it is over.
OneAtATime == \A q, r \in Reqs : q = r

-----------------------------------------------------------------------------
(* One successor for each token                                            *)

\* A token whose exchange is under way has not been exchanged before.
FirstExchange ==
    \A r \in Reqs : req[r].pc \in {"insert", "revokeOld", "answer"} /\ req[r].tok # NoToken
                        => ~Exchanged(req[r].tok)

\* Before the answer the row of the token has its link, and a logout that has
\* read the row of an exchanged token has read it with its link.
LinkedBefore ==
    /\ \A r \in Reqs : req[r].pc = "answer" /\ req[r].tok # NoToken /\ Stored(req[r].tok)
                           => row[req[r].tok].replaced # NoToken
    /\ \A r \in Reqs : req[r].pc = "logoutSave" /\ Exchanged(req[r].tok)
                           => req[r].snap.replaced # NoToken

SerialInv == OneTimeUse /\ FirstExchange /\ ExchangedRowPointsOn /\ LinkedBefore

LEMMA SerialInsert ==
    ASSUME OneAtATime, Typed, SerialInv, NEW r \in Reqs, InsertToken(r)
    PROVE  SerialInv'
<1>1. PICK c \in Tokens \ minted :
        /\ parent' = [parent EXCEPT ![c] = req[r].tok]
        /\ \A x \in Tokens \ {c} : row'[x] = row[x]
        /\ req'[r].tok = req[r].tok
        /\ req[r].tok = NoToken <=> req'[r].pc = "answer"
        /\ req[r].tok # NoToken <=> req'[r].pc = "revokeOld"
  BY InsertOne
<1>2. /\ held' = held /\ held \subseteq minted /\ minted \subseteq Tokens
      /\ parent \in [Tokens -> minted \cup {NoToken}] /\ req[r].pc = "insert"
  BY DEF InsertToken, Typed, TypeOK
<1>3. \A k \in held : parent'[k] = parent[k] /\ parent[k] # c
  BY <1>1, <1>2, NoTokenAssumption
<1>4. ASSUME NEW t, Exchanged(t)' PROVE Exchanged(t) /\ t # c
  BY <1>2, <1>3, <1>4 DEF Exchanged
<1>5. OneTimeUse'
  BY <1>2, <1>3 DEF SerialInv, OneTimeUse
<1>6. FirstExchange'
  <2> SUFFICES ASSUME NEW q \in Reqs, req'[q].tok # NoToken PROVE ~Exchanged(req[q].tok)'
    BY DEF FirstExchange
  <2>1. q = r /\ req'[q].tok = req[r].tok /\ ~Exchanged(req[r].tok)
    BY <1>1, <1>2 DEF OneAtATime, SerialInv, FirstExchange
  <2> QED BY <1>2, <1>3, <2>1 DEF Exchanged
<1>7. ExchangedRowPointsOn'
  BY <1>1, <1>4 DEF SerialInv, ExchangedRowPointsOn, Stored
<1>8. LinkedBefore'
  BY <1>1 DEF LinkedBefore, OneAtATime
<1> QED BY <1>5, <1>6, <1>7, <1>8 DEF SerialInv

\* A slot moves only in a step of its own request.
LEMMA OwnStep ==
    ASSUME Typed, [Next]_vars, NEW q \in Reqs, req'[q] # req[q]
    PROVE  \/ \E u \in Users : LoginFind(q, u)
           \/ \E t \in Tokens : RefreshFind(q, t) \/ LogoutFind(q, t)
           \/ Step(q) \/ Fail(q)
<1>1. ASSUME NEW r \in Reqs, r # q,
             \/ \E u \in Users : LoginFind(r, u)
             \/ \E t \in Tokens : RefreshFind(r, t) \/ LogoutFind(r, t)
             \/ Step(r) \/ Fail(r)
      PROVE  FALSE
  <2>1. CASE \/ \E u \in Users : LoginFind(r, u)
             \/ \E t \in Tokens : RefreshFind(r, t) \/ LogoutFind(r, t)
    BY <1>1, <2>1, LoginEffect, RefreshEffect, LogoutFindEffect DEF OthersStay
  <2>2. CASE InsertToken(r)
    BY <1>1, <2>2, InsertOne
  <2>3. CASE RevokeOld(r) \/ LogoutSave(r)
    BY <1>1, <2>3, RevokeOldEffect, LogoutSaveEffect DEF OthersStay
  <2>4. CASE Answer(r) \/ RevokeFamily(r) \/ Ack(r) \/ ForeignKeyError(r) \/ Fail(r)
    BY <1>1, <2>4, EndEffect DEF OthersStay
  <2> QED BY <1>1, <2>1, <2>2, <2>3, <2>4 DEF Step
<1>2. ASSUME \/ \E u \in Users : RevokeAllUserTokens(u) \/ RemoveUser(u)
             \/ CleanupExpiredTokens \/ Tick \/ UNCHANGED vars
      PROVE  FALSE
  BY <1>2, TableEffect
<1> QED BY <1>1, <1>2 DEF Next

LEMMA SerialAnswer ==
    ASSUME OneAtATime, Typed, SerialInv, NEW r \in Reqs, Answer(r) PROVE SerialInv'
<1>1. /\ req[r].pc = "answer" /\ held' = held \cup {req[r].new}
      /\ UNCHANGED <<row, parent>> /\ req'[r].pc = "idle"
  BY EndEffect DEF Answer
<1>2. parent[req[r].new] = req[r].tok
  BY <1>1 DEF Typed, SlotShape, Shaped
<1>3. req[r].tok # NoToken => ~Exchanged(req[r].tok)
  BY <1>1 DEF SerialInv, FirstExchange
<1>4. OneTimeUse'
  BY <1>1, <1>2, <1>3 DEF SerialInv, OneTimeUse, Exchanged
<1>5. ExchangedRowPointsOn'
  <2> SUFFICES ASSUME NEW t \in Tokens, Exchanged(t)', Stored(t)'
               PROVE  row[t].replaced # NoToken
    BY <1>1 DEF ExchangedRowPointsOn
  <2>1. Exchanged(t) \/ t = req[r].tok
    BY <1>1, <1>2 DEF Exchanged
  <2> QED BY <1>1, <2>1, NoTokenAssumption
          DEF SerialInv, ExchangedRowPointsOn, LinkedBefore, Stored
<1>6. FirstExchange' /\ LinkedBefore'
  BY <1>1 DEF FirstExchange, LinkedBefore, OneAtATime
<1> QED BY <1>4, <1>5, <1>6 DEF SerialInv

LEMMA OnlyAnswerTells ==
    ASSUME Typed, [Next]_vars, ~ \E r \in Reqs : InsertToken(r) \/ Answer(r)
    PROVE  UNCHANGED <<held, parent>>
<1>1. UNCHANGED parent
  BY HistoryStep
<1>2. ASSUME NEW r \in Reqs, RevokeFamily(r) \/ Ack(r) \/ ForeignKeyError(r) \/ Fail(r)
      PROVE  held' = held
  BY <1>2 DEF RevokeFamily, RevokeTokenFamily, Ack, ForeignKeyError, Fail
<1>3. ASSUME NEW r \in Reqs,
             \/ \E u \in Users : LoginFind(r, u)
             \/ \E t \in Tokens : RefreshFind(r, t) \/ LogoutFind(r, t)
             \/ RevokeOld(r) \/ LogoutSave(r)
      PROVE  held' = held
  BY <1>3, LoginEffect, RefreshEffect, LogoutFindEffect, RevokeOldEffect, LogoutSaveEffect
<1>4. ASSUME \/ \E u \in Users : RevokeAllUserTokens(u) \/ RemoveUser(u)
             \/ CleanupExpiredTokens \/ Tick \/ UNCHANGED vars
      PROVE  held' = held
  BY <1>4, TableEffect
<1> QED BY <1>1, <1>2, <1>3, <1>4 DEF Next, Step

LEMMA SerialOther ==
    ASSUME OneAtATime, Typed, SpentTokenIsDead, SerialInv, [Next]_vars,
           ~ \E r \in Reqs : InsertToken(r) \/ Answer(r)
    PROVE  SerialInv'
<1>1. UNCHANGED <<held, parent>>
  BY OnlyAnswerTells
<1>2. \A t : Exchanged(t)' <=> Exchanged(t)
  BY <1>1 DEF Exchanged
<1>3. OneTimeUse'
  BY <1>1 DEF SerialInv, OneTimeUse
<1>4. ASSUME NEW t \in Tokens, Stored(t)',
             Stored(t) => row[t].replaced # NoToken,
             \A r \in Reqs : LogoutSave(r) /\ req[r].tok = t => req[r].snap.replaced # NoToken
      PROVE  row'[t].replaced # NoToken
  <2>1. RowStep(t) /\ row'[t] # NoRow
    BY <1>4, RowSteps DEF Stored
  <2>2. minted \subseteq Tokens
    BY DEF Typed, TypeOK
  <2> QED BY <1>4, <2>1, <2>2, NoTokenAssumption DEF RowStep, IsRetired, SnapOf
<1>5. \A r \in Reqs : LogoutSave(r) /\ Exchanged(req[r].tok) => req[r].snap.replaced # NoToken
  BY DEF LogoutSave, SerialInv, LinkedBefore
<1>6. ExchangedRowPointsOn'
  BY <1>2, <1>4, <1>5 DEF SerialInv, ExchangedRowPointsOn
<1>7. ASSUME NEW q \in Reqs, req'[q].pc \in {"insert", "revokeOld", "answer"},
             req'[q].tok # NoToken
      PROVE  ~Exchanged(req'[q].tok)
  <2>1. CASE req'[q] = req[q]
    BY <1>7, <2>1 DEF SerialInv, FirstExchange
  <2>2. ASSUME NEW t \in Tokens, RefreshFind(q, t) PROVE ~Exchanged(req'[q].tok)
    <3>1. req'[q].tok = t /\ Live(t)
      BY <1>7, <2>2, RefreshEffect
    <3> QED BY <3>1 DEF SpentTokenIsDead
  <2>3. CASE RevokeOld(q)
    BY <2>3, <1>7, RevokeOldEffect DEF SerialInv, FirstExchange
  <2>4. CASE LogoutSave(q)
    BY <2>4, <1>7, LogoutSaveEffect
  <2>5. CASE Answer(q) \/ RevokeFamily(q) \/ Ack(q) \/ ForeignKeyError(q) \/ Fail(q)
    BY <2>5, <1>7, EndEffect
  <2>6. ASSUME NEW t \in Tokens, LogoutFind(q, t) PROVE FALSE
    BY <2>6, <1>7, LogoutFindEffect
  <2>7. ASSUME NEW u \in Users, LoginFind(q, u) PROVE FALSE
    BY <2>7, <1>7, LoginEffect
  <2> QED BY <2>1, <2>2, <2>3, <2>4, <2>5, <2>6, <2>7, OwnStep DEF Step
<1>8. FirstExchange'
  BY <1>1, <1>7 DEF FirstExchange, Exchanged
<1>9. ASSUME NEW q \in Reqs, req'[q].pc = "answer", req'[q].tok # NoToken,
             Stored(req[q].tok)'
      PROVE  row'[req'[q].tok].replaced # NoToken
  <2>1. CASE req'[q] = req[q]
    <3>1. ~ \E r \in Reqs : LogoutSave(r)
      BY <1>9, <2>1 DEF OneAtATime, LogoutSave
    <3>2. req[q].tok \in Tokens
      BY <1>9, <2>1 DEF Typed, TypeOK, Slot
    <3>3. PICK t \in Tokens : t = req[q].tok
      BY <3>2
    <3>4. Stored(t)'
      BY <1>9, <2>1, <3>3 DEF Stored
    <3>5. Stored(t) => row[t].replaced # NoToken
      BY <1>9, <2>1, <3>3 DEF SerialInv, LinkedBefore
    <3> QED BY <1>4, <2>1, <3>1, <3>3, <3>4, <3>5
  <2>2. CASE RevokeOld(q)
    <3>1. IsRetired(req[q].tok, req[q].snap, req[q].new) /\ req[q].new \in minted
          /\ req'[q].tok = req[q].tok
      BY <2>2, <1>9, RevokeOldEffect DEF Stored
    <3>2. minted \subseteq Tokens
      BY DEF Typed, TypeOK
    <3> QED BY <3>1, <3>2, NoTokenAssumption DEF IsRetired
  <2>3. CASE LogoutSave(q)
    BY <2>3, <1>9, LogoutSaveEffect
  <2>4. CASE Answer(q) \/ RevokeFamily(q) \/ Ack(q) \/ ForeignKeyError(q) \/ Fail(q)
    BY <2>4, <1>9, EndEffect
  <2>5. ASSUME NEW t \in Tokens, RefreshFind(q, t) \/ LogoutFind(q, t)
        PROVE  row'[req'[q].tok].replaced # NoToken
    BY <2>5, <1>9, RefreshEffect, LogoutFindEffect DEF Stored
  <2>6. ASSUME NEW u \in Users, LoginFind(q, u) PROVE FALSE
    BY <2>6, <1>9, LoginEffect
  <2> QED BY <2>1, <2>2, <2>3, <2>4, <2>5, <2>6, OwnStep DEF Step
<1>10. ASSUME NEW q \in Reqs, req'[q].pc = "logoutSave", Exchanged(req'[q].tok)
       PROVE  req'[q].snap.replaced # NoToken
  <2>1. CASE req'[q] = req[q]
    BY <1>10, <2>1 DEF SerialInv, LinkedBefore
  <2>2. ASSUME NEW t \in Tokens, LogoutFind(q, t) PROVE req'[q].snap.replaced # NoToken
    <3>1. req'[q].tok = t /\ req'[q].snap = row[t] /\ Stored(t)
      BY <2>2, <1>10, LogoutFindEffect
    <3> QED BY <1>10, <3>1 DEF SerialInv, ExchangedRowPointsOn
  <2>3. ASSUME NEW t \in Tokens, RefreshFind(q, t) PROVE FALSE
    BY <2>3, <1>10, RefreshEffect
  <2>4. ASSUME NEW u \in Users, LoginFind(q, u) PROVE FALSE
    BY <2>4, <1>10, LoginEffect
  <2>5. CASE RevokeOld(q) \/ LogoutSave(q)
    BY <2>5, <1>10, RevokeOldEffect, LogoutSaveEffect
  <2>6. CASE Answer(q) \/ RevokeFamily(q) \/ Ack(q) \/ ForeignKeyError(q) \/ Fail(q)
    BY <2>6, <1>10, EndEffect
  <2> QED BY <2>1, <2>2, <2>3, <2>4, <2>5, <2>6, OwnStep DEF Step
<1>11. LinkedBefore'
  BY <1>1, <1>9, <1>10 DEF LinkedBefore, Exchanged
<1> QED BY <1>3, <1>6, <1>8, <1>11 DEF SerialInv

LEMMA AlwaysSerial == ASSUME OneAtATime PROVE Spec => []SerialInv
<1>1. Init => SerialInv
  BY DEF Init, SerialInv, OneTimeUse, FirstExchange, ExchangedRowPointsOn, LinkedBefore,
         Exchanged, Idle
<1>2. Typed /\ SpentTokenIsDead /\ SerialInv /\ [Next]_vars => SerialInv'
  BY OneAtATime, SerialInsert, SerialAnswer, SerialOther
<1> QED BY <1>1, <1>2, AlwaysTyped, SpentTokenTheorem, PTL DEF Spec

\* Refreshes one after another, failures or not: no two clients receive
\* successors of one token, as the entity's "one-time use" says.
THEOREM OneTimeUseTheorem == ASSUME OneAtATime PROVE Spec => []OneTimeUse
<1>1. SerialInv => OneTimeUse
  BY DEF SerialInv
<1> QED BY <1>1, OneAtATime, AlwaysSerial, PTL

\* And the row of an exchanged token names its successor, "Points to the new
\* token after rotation", whatever logouts and late saves follow.
THEOREM PointsOnTheorem == ASSUME OneAtATime PROVE Spec => []ExchangedRowPointsOn
<1>1. SerialInv => ExchangedRowPointsOn
  BY DEF SerialInv
<1> QED BY <1>1, OneAtATime, AlwaysSerial, PTL

-----------------------------------------------------------------------------
(* One live token in a family                                              *)

\* Two live tokens of one family are a token and its successor, while the
\* request that exchanges them stands before its save.
PairsAreInExchange ==
    \A x, y \in Tokens :
        Live(x) /\ Live(y) /\ row[x].family = row[y].family /\ x # y =>
            \E r \in Reqs : /\ req[r].pc = "revokeOld"
                            /\ {x, y} = {req[r].tok, req[r].new}

\* A refresh about to insert has found the one live token of the family.
FoundTheLiveOne ==
    \A r \in Reqs : req[r].pc = "insert" /\ req[r].tok # NoToken =>
        \A x \in Tokens : Live(x) /\ row[x].family = req[r].snap.family => x = req[r].tok

LiveInv == PairsAreInExchange /\ FoundTheLiveOne

LEMMA LiveInsert ==
    ASSUME OneAtATime, Typed, FamilyInv, LiveInv, NEW r \in Reqs, InsertToken(r)
    PROVE  LiveInv'
<1>1. PICK c \in Tokens \ minted :
        /\ row'[c].family = FamilyFor(req[r], c)
        /\ \A x \in Tokens \ {c} : row'[x] = row[x]
        /\ req'[r].pc # "insert"
        /\ req'[r].tok = req[r].tok
        /\ req'[r].new = c
        /\ req[r].tok # NoToken <=> req'[r].pc = "revokeOld"
  BY InsertOne
<1>2. req[r].pc = "insert"
  BY DEF InsertToken
<1>3. ASSUME NEW x \in Tokens, x # c, Live(x)'
      PROVE  Live(x) /\ row'[x] = row[x] /\ row[x].family \in minted
  <2>1. Live(x) /\ row'[x] = row[x]
    BY <1>1, <1>3 DEF Live, Stored
  <2>2. row[x].family \in Tokens /\ row[x].user \in Users
    BY <2>1 DEF Live, Stored, Typed, TypeOK, Row
  <2>3. Says(row[x].family, row[x].user)
    BY <2>1 DEF Live, Says, RowSays
  <2> QED BY <2>1, <2>2, <2>3 DEF FamilyInv
<1>4. ASSUME NEW x \in Tokens, NEW y \in Tokens, Live(x)', Live(y)', x # c, y # c,
             row'[x].family = row'[y].family
      PROVE  x = y
  BY <1>2, <1>3, <1>4 DEF LiveInv, PairsAreInExchange, OneAtATime
<1>5. ASSUME NEW x \in Tokens, Live(x)', x # c, row'[x].family = row'[c].family
      PROVE  req'[r].pc = "revokeOld" /\ x = req'[r].tok
  <2>1. Live(x) /\ row'[x] = row[x] /\ row[x].family \in minted
    BY <1>3, <1>5
  <2>2. req[r].tok # NoToken /\ row'[c].family = req[r].snap.family
    BY <1>1, <1>5, <2>1 DEF FamilyFor
  <2> QED BY <1>1, <1>2, <1>5, <2>1, <2>2 DEF LiveInv, FoundTheLiveOne
<1>6. PairsAreInExchange'
  <2> SUFFICES ASSUME NEW x \in Tokens, NEW y \in Tokens, Live(x)', Live(y)',
                      row'[x].family = row'[y].family, x # y
               PROVE  req'[r].pc = "revokeOld" /\ {x, y} = {req'[r].tok, req'[r].new}
    BY DEF PairsAreInExchange
  <2>1. CASE x = c
    BY <1>1, <1>5, <2>1
  <2>2. CASE y = c
    BY <1>1, <1>5, <2>2
  <2>3. CASE x # c /\ y # c
    BY <1>4, <2>3
  <2> QED BY <2>1, <2>2, <2>3
<1>7. FoundTheLiveOne'
  BY <1>1 DEF FoundTheLiveOne, OneAtATime
<1> QED BY <1>6, <1>7 DEF LiveInv

LEMMA LiveOther ==
    ASSUME OneAtATime, ~MayFail, Typed, LiveInv, [Next]_vars,
           ~ \E r \in Reqs : InsertToken(r)
    PROVE  LiveInv'
<1>1. ASSUME NEW x \in Tokens, Live(x)' PROVE Live(x) /\ row'[x] = row[x]
  BY <1>1, OnlyInsertGivesLife
<1>2. ASSUME NEW r \in Reqs, req[r].pc = "revokeOld", req'[r] # req[r],
             NEW x \in Tokens, x = req[r].tok
      PROVE  ~Live(x)'
  <2>1. CASE RevokeOld(r)
    BY <1>2, <2>1, RevokeOldEffect DEF IsRetired, Live, Stored
  <2>2. CASE ForeignKeyError(r)
    BY <1>1, <1>2, <2>2 DEF ForeignKeyError, Live, Stored
  <2> QED BY <1>2, <2>1, <2>2, OwnStep
          DEF Step, LoginFind, RefreshFind, LogoutFind, Answer, RevokeFamily, LogoutSave,
              Ack, Fail, InsertToken
<1>3. PairsAreInExchange'
  <2> SUFFICES ASSUME NEW x \in Tokens, NEW y \in Tokens, Live(x)', Live(y)',
                      row'[x].family = row'[y].family, x # y
               PROVE  \E r \in Reqs : /\ req'[r].pc = "revokeOld"
                                      /\ {x, y} = {req'[r].tok, req'[r].new}
    BY DEF PairsAreInExchange
  <2>1. PICK r \in Reqs : req[r].pc = "revokeOld" /\ {x, y} = {req[r].tok, req[r].new}
    BY <1>1 DEF LiveInv, PairsAreInExchange
  <2>2. req[r].tok \in {x, y}
    BY <2>1
  <2>3. req'[r] = req[r]
    BY <1>2, <2>1, <2>2
  <2> QED BY <2>1, <2>3
<1>4. ASSUME NEW q \in Reqs, req'[q].pc = "insert", req'[q].tok # NoToken,
             NEW x \in Tokens, Live(x)', row'[x].family = req'[q].snap.family
      PROVE  x = req'[q].tok
  <2>1. CASE req'[q] = req[q]
    BY <1>1, <1>4, <2>1 DEF LiveInv, FoundTheLiveOne
  <2>2. ASSUME NEW t \in Tokens, RefreshFind(q, t) PROVE x = t /\ t = req'[q].tok
    <3>1. req[q].pc = "idle" /\ req'[q].tok = t /\ req'[q].snap = row[t] /\ Live(t)
      BY <1>4, <2>2, RefreshEffect
    <3>2. ~ \E r \in Reqs : req[r].pc = "revokeOld"
      BY <3>1 DEF OneAtATime
    <3> QED BY <1>1, <1>4, <3>1, <3>2 DEF LiveInv, PairsAreInExchange
  <2>3. CASE RevokeOld(q) \/ LogoutSave(q)
    BY <1>4, <2>3, RevokeOldEffect, LogoutSaveEffect
  <2>4. CASE Answer(q) \/ RevokeFamily(q) \/ Ack(q) \/ ForeignKeyError(q) \/ Fail(q)
    BY <1>4, <2>4, EndEffect
  <2>5. ASSUME NEW t \in Tokens, LogoutFind(q, t) PROVE FALSE
    BY <1>4, <2>5, LogoutFindEffect
  <2>6. ASSUME NEW u \in Users, LoginFind(q, u) PROVE FALSE
    BY <1>4, <2>6, LoginEffect
  <2> QED BY <2>1, <2>2, <2>3, <2>4, <2>5, <2>6, OwnStep DEF Step
<1>5. FoundTheLiveOne'
  BY <1>4 DEF FoundTheLiveOne
<1> QED BY <1>3, <1>5 DEF LiveInv

\* When besides nothing fails between the insert of a successor and the save that
\* revokes its parent, a session never has two live tokens at rest.
THEOREM OneLiveTheorem ==
    ASSUME OneAtATime, ~MayFail PROVE Spec => []OneLiveTokenPerFamily
<1>1. Init => FamilyInv /\ LiveInv
  BY DEF Init, FamilyInv, Says, RowSays, SnapSays, LiveInv, PairsAreInExchange,
         FoundTheLiveOne, Live, Stored, Idle
<1>2. Typed /\ FamilyInv /\ LiveInv /\ [Next]_vars => FamilyInv' /\ LiveInv'
  BY OneAtATime, ~MayFail, FamilyStep, LiveInsert, LiveOther
<1>3. LiveInv => OneLiveTokenPerFamily
  BY DEF LiveInv, PairsAreInExchange, OneLiveTokenPerFamily
<1> QED BY <1>1, <1>2, <1>3, AlwaysTyped, PTL DEF Spec

=============================================================================
