------------------------ MODULE RefreshTokensProofs ------------------------
(***************************************************************************)
(* Proofs about RefreshTokens, for any number of users, tokens, requests   *)
(* in flight and ticks, with or without failures.                          *)
(***************************************************************************)
EXTENDS RefreshTokens, TLAPS

-----------------------------------------------------------------------------
(* Types                                                                   *)

\* Types and the contents of the slots are inductive only together: a response
\* hands out a minted token because the slot held one.
Typed == TypeOK /\ SlotShape

LEMMA IdleIsSlot == Idle \in Slot /\ Shaped(Idle)
BY NoTokenAssumption DEF Idle, Slot, Steps, Shaped

LEMMA InitTyped == Init => Typed
BY IdleIsSlot, NoTokenAssumption DEF Init, Typed, TypeOK, SlotShape

\* A step that moves one slot, mints nothing and leaves that slot in shape.
LEMMA MoveSlot ==
    ASSUME Typed, NEW r \in Reqs, NEW S \in Slot, Shaped(S),
           req' = [req EXCEPT ![r] = S], UNCHANGED <<minted, parent>>
    PROVE  req' \in [Reqs -> Slot] /\ SlotShape'
<1>1. \A q \in Reqs : req'[q] = IF q = r THEN S ELSE req[q]
  BY DEF Typed, TypeOK
<1>2. \A q \in Reqs : Shaped(req'[q])
  BY <1>1 DEF Typed, SlotShape
<1>3. \A q \in Reqs : Shaped(req[q])'
  BY <1>2 DEF Shaped
<1> QED BY <1>3 DEF Typed, TypeOK, SlotShape

\* The record of a slot, from its fields.
LEMMA SlotOf ==
    ASSUME NEW p \in Steps, NEW t \in Tokens \cup {NoToken},
           NEW u \in Users \cup {NoUser}, NEW e \in Int,
           NEW s \in Row \cup {NoRow}, NEW n \in Tokens \cup {NoToken}
    PROVE  [pc |-> p, tok |-> t, user |-> u, exp |-> e, snap |-> s, new |-> n] \in Slot
BY DEF Slot

LEMMA LoginFindTyped ==
    ASSUME Typed, NEW r \in Reqs, NEW u \in Users, LoginFind(r, u) PROVE Typed'
<1>1. PICK S : S = [Idle EXCEPT !.pc = "insert", !.user = u, !.exp = now + Lifetime]
  OBVIOUS
<1>2. S \in Slot /\ Shaped(S)
  <2>1. S = [pc |-> "insert", tok |-> NoToken, user |-> u, exp |-> now + Lifetime,
             snap |-> NoRow, new |-> NoToken]
    BY <1>1 DEF Idle
  <2>2. S \in Slot
    BY <2>1, SlotOf, LifetimeAssumption DEF Steps, Typed, TypeOK
  <2> QED BY <2>1, <2>2 DEF Shaped
<1>3. req' \in [Reqs -> Slot] /\ SlotShape'
  BY <1>1, <1>2, MoveSlot DEF LoginFind
<1> QED BY <1>3 DEF LoginFind, Typed, TypeOK

LEMMA RefreshFindTyped ==
    ASSUME Typed, NEW r \in Reqs, NEW t \in Tokens, RefreshFind(r, t) PROVE Typed'
<1>1. t \in minted /\ row[t] \in Row /\ row[t].user \in Users
  BY DEF RefreshFind, Typed, TypeOK, Stored, Row
<1>2. PICK S1 : S1 = [Idle EXCEPT !.pc = "revokeFamily", !.tok = t, !.snap = row[t]]
  OBVIOUS
<1>3. PICK S2 : S2 = [Idle EXCEPT !.pc = "insert", !.tok = t, !.user = row[t].user,
                                  !.snap = row[t], !.exp = now + Lifetime]
  OBVIOUS
<1>4. S1 \in Slot /\ Shaped(S1)
  <2>1. S1 = [pc |-> "revokeFamily", tok |-> t, user |-> NoUser, exp |-> 0,
             snap |-> row[t], new |-> NoToken]
    BY <1>2 DEF Idle
  <2>2. S1 \in Slot
    BY <2>1, SlotOf, <1>1 DEF Steps
  <2> QED BY <2>1, <2>2, <1>1, NoTokenAssumption DEF Shaped
<1>5. S2 \in Slot /\ Shaped(S2)
  <2>1. S2 = [pc |-> "insert", tok |-> t, user |-> row[t].user, exp |-> now + Lifetime,
             snap |-> row[t], new |-> NoToken]
    BY <1>3 DEF Idle
  <2>2. S2 \in Slot
    BY <2>1, SlotOf, <1>1, LifetimeAssumption DEF Steps, Typed, TypeOK
  <2> QED BY <2>1, <2>2, <1>1, NoTokenAssumption DEF Shaped
<1>6. \/ req' = [req EXCEPT ![r] = S1]
      \/ req' = [req EXCEPT ![r] = S2]
  BY <1>2, <1>3 DEF RefreshFind
<1>7. UNCHANGED <<minted, parent>>
  BY DEF RefreshFind
<1>8. req' \in [Reqs -> Slot] /\ SlotShape'
  BY <1>4, <1>5, <1>6, <1>7, MoveSlot
<1> QED BY <1>8 DEF RefreshFind, Typed, TypeOK

LEMMA LogoutFindTyped ==
    ASSUME Typed, NEW r \in Reqs, NEW t \in Tokens, LogoutFind(r, t) PROVE Typed'
<1>1. PICK S : S = [Idle EXCEPT !.pc = IF Stored(t) THEN "logoutSave" ELSE "ack",
                                !.tok = t, !.snap = row[t]]
  OBVIOUS
<1>2. t \in minted /\ row[t] \in Row \cup {NoRow} /\ (Stored(t) => row[t] \in Row)
  BY DEF LogoutFind, Typed, TypeOK, Stored
<1>3. S \in Slot /\ Shaped(S)
  <2>1. S = [pc |-> IF Stored(t) THEN "logoutSave" ELSE "ack", tok |-> t, user |-> NoUser, exp |-> 0,
             snap |-> row[t], new |-> NoToken]
    BY <1>1 DEF Idle
  <2>2. S \in Slot
    BY <2>1, SlotOf, <1>2 DEF Steps
  <2> QED BY <2>1, <2>2, <1>2, NoTokenAssumption DEF Shaped
<1>4. req' \in [Reqs -> Slot] /\ SlotShape'
  BY <1>1, <1>3, MoveSlot DEF LogoutFind
<1> QED BY <1>4 DEF LogoutFind, Typed, TypeOK

LEMMA InsertTokenTyped ==
    ASSUME Typed, NEW r \in Reqs, InsertToken(r) PROVE Typed'
<1>1. PICK t \in Tokens \ minted :
        /\ row' = [row EXCEPT ![t] =
                     [user |-> req[r].user, family |-> FamilyFor(req[r], t),
                      exp |-> req[r].exp, revoked |-> FALSE, replaced |-> NoToken]]
        /\ minted' = minted \cup {t}
        /\ parent' = [parent EXCEPT ![t] = req[r].tok]
        /\ req' = [req EXCEPT ![r] =
                     [Idle EXCEPT !.pc = IF req[r].tok = NoToken
                                         THEN "answer" ELSE "revokeOld",
                                  !.tok = req[r].tok, !.snap = req[r].snap,
                                  !.new = t]]
  BY Zenon DEF InsertToken
<1>2. PICK S : S = [Idle EXCEPT !.pc = IF req[r].tok = NoToken
                                       THEN "answer" ELSE "revokeOld",
                                !.tok = req[r].tok, !.snap = req[r].snap, !.new = t]
  OBVIOUS
<1>3. req[r] \in Slot /\ Shaped(req[r]) /\ req[r].pc = "insert"
  BY DEF InsertToken, Typed, TypeOK, SlotShape
<1>4. S \in Slot
  <2>1. S = [pc |-> IF req[r].tok = NoToken THEN "answer" ELSE "revokeOld",
             tok |-> req[r].tok, user |-> NoUser, exp |-> 0,
             snap |-> req[r].snap, new |-> t]
    BY <1>2 DEF Idle
  <2>2. req[r].tok \in Tokens \cup {NoToken} /\ req[r].snap \in Row \cup {NoRow}
    BY <1>3 DEF Slot
  <2> QED BY <2>1, <2>2, SlotOf DEF Steps
<1>5. \A q \in Reqs : req'[q] = IF q = r THEN S ELSE req[q]
  BY <1>1, <1>2 DEF Typed, TypeOK
<1>6. parent' \in [Tokens -> minted' \cup {NoToken}]
      /\ parent'[t] = req[r].tok /\ \A x \in minted : parent'[x] = parent[x]
  BY <1>1, <1>3 DEF Typed, TypeOK, Shaped
<1>7. S.tok = req[r].tok /\ S.new = t /\ S.snap = req[r].snap
      /\ S.pc = IF req[r].tok = NoToken THEN "answer" ELSE "revokeOld"
  BY <1>2 DEF Idle
<1>8. Shaped(S)'
  BY <1>1, <1>3, <1>6, <1>7 DEF Shaped
<1>9. ASSUME NEW q \in Reqs, q # r PROVE Shaped(req[q])'
  <2>1. Shaped(req[q]) /\ req'[q] = req[q]
    BY <1>5, <1>9 DEF Typed, SlotShape
  <2> QED BY <2>1, <1>1, <1>6 DEF Shaped
<1>10. SlotShape'
  <2>1. Shaped(req[r])'
    BY <1>5, <1>8 DEF Shaped
  <2> QED BY <2>1, <1>9 DEF SlotShape
<1>11. req' \in [Reqs -> Slot]
  BY <1>1, <1>2, <1>4 DEF Typed, TypeOK
<1>12. row' \in [Tokens -> Row \cup {NoRow}]
  <2>1. PICK e : e = [user |-> req[r].user, family |-> FamilyFor(req[r], t),
                      exp |-> req[r].exp, revoked |-> FALSE, replaced |-> NoToken]
    OBVIOUS
  <2>2. FamilyFor(req[r], t) \in Tokens
    BY <1>3 DEF FamilyFor, Shaped, Row
  <2>3. e \in Row
    BY <2>1, <2>2, <1>3 DEF Row, Shaped, Slot
  <2> QED BY <2>1, <2>3, <1>1 DEF Typed, TypeOK
<1> QED BY <1>1, <1>6, <1>10, <1>11, <1>12 DEF InsertToken, Typed, TypeOK

\* Saving an entity keeps the table a table.
LEMMA SaveEntityTyped ==
    ASSUME Typed, NEW t \in Tokens, NEW e \in Row, SaveEntity(t, e)
    PROVE  row' \in [Tokens -> Row \cup {NoRow}]
BY DEF SaveEntity, Typed, TypeOK

LEMMA RevokeOldTyped ==
    ASSUME Typed, NEW r \in Reqs, RevokeOld(r) PROVE Typed'
<1>1. PICK e : e = [req[r].snap EXCEPT !.revoked = TRUE, !.replaced = req[r].new]
  OBVIOUS
<1>2. PICK S : S = [Idle EXCEPT !.pc = "answer", !.tok = req[r].tok, !.new = req[r].new]
  OBVIOUS
<1>3. req[r] \in Slot /\ Shaped(req[r]) /\ req[r].pc = "revokeOld"
  BY DEF RevokeOld, FinishRotation, Typed, TypeOK, SlotShape
<1>4. req[r].tok \in Tokens /\ req[r].tok \in minted /\ req[r].new \in minted
      /\ parent[req[r].new] = req[r].tok /\ req[r].new \in Tokens
      /\ req[r].snap \in Row
  BY <1>3 DEF Shaped, Typed, TypeOK
<1>5. e \in Row
  BY <1>1, <1>4 DEF Row
<1>6. row' \in [Tokens -> Row \cup {NoRow}]
  BY <1>1, <1>4, <1>5, SaveEntityTyped DEF RevokeOld, FinishRotation
<1>7. S \in Slot /\ Shaped(S)
  <2>1. S = [pc |-> "answer", tok |-> req[r].tok, user |-> NoUser, exp |-> 0,
             snap |-> NoRow, new |-> req[r].new]
    BY <1>2 DEF Idle
  <2>2. S \in Slot
    <3>1. "answer" \in Steps /\ 0 \in Int
      BY DEF Steps
    <3>2. req[r].tok \in Tokens \cup {NoToken} /\ req[r].new \in Tokens \cup {NoToken}
      BY <1>4
    <3> QED BY <2>1, <3>1, <3>2, SlotOf
  <2> QED BY <2>1, <2>2, <1>4 DEF Shaped
<1>8. req' \in [Reqs -> Slot] /\ SlotShape'
  BY <1>2, <1>7, MoveSlot DEF RevokeOld, FinishRotation
<1> QED BY <1>6, <1>8 DEF RevokeOld, FinishRotation, Typed, TypeOK

LEMMA LogoutSaveTyped ==
    ASSUME Typed, NEW r \in Reqs, LogoutSave(r) PROVE Typed'
<1>1. PICK S : S = [Idle EXCEPT !.pc = "ack", !.tok = req[r].tok]
  OBVIOUS
<1>2. req[r] \in Slot /\ Shaped(req[r]) /\ req[r].pc = "logoutSave"
  BY DEF LogoutSave, Typed, TypeOK, SlotShape
<1>3. /\ req[r].tok \in Tokens /\ req[r].tok \in minted /\ req[r].tok # NoToken
      /\ req[r].snap \in Row
      /\ Stored(req[r].tok) => row[req[r].tok] \in Row
  BY <1>2 DEF Shaped, Typed, TypeOK, Stored
<1>4. PICK link \in {req[r].snap.replaced}
                      \cup (IF Stored(req[r].tok)
                            THEN {row[req[r].tok].replaced} ELSE {}) :
        SaveEntity(req[r].tok, [req[r].snap EXCEPT !.revoked = TRUE, !.replaced = link])
  BY Zenon DEF LogoutSave
<1>5. PICK e : e = [req[r].snap EXCEPT !.revoked = TRUE, !.replaced = link]
  OBVIOUS
<1>6. link \in Tokens \cup {NoToken}
  BY <1>3, <1>4 DEF Row
<1>7. e \in Row
  BY <1>3, <1>5, <1>6 DEF Row
<1>8. row' \in [Tokens -> Row \cup {NoRow}]
  BY <1>3, <1>4, <1>5, <1>7, SaveEntityTyped
<1>9. S \in Slot /\ Shaped(S)
  <2>1. S = [pc |-> "ack", tok |-> req[r].tok, user |-> NoUser, exp |-> 0,
             snap |-> NoRow, new |-> NoToken]
    BY <1>1 DEF Idle
  <2>2. S \in Slot
    BY <2>1, SlotOf, <1>3 DEF Steps
  <2> QED BY <2>1, <2>2, <1>3 DEF Shaped
<1>10. req' \in [Reqs -> Slot] /\ SlotShape'
  BY <1>1, <1>9, MoveSlot DEF LogoutSave
<1> QED BY <1>8, <1>10 DEF LogoutSave, Typed, TypeOK

LEMMA BackToIdleTyped ==
    ASSUME Typed, NEW r \in Reqs,
           Answer(r) \/ Ack(r) \/ ForeignKeyError(r) \/ Fail(r)
    PROVE  Typed'
<1>1. req' \in [Reqs -> Slot] /\ SlotShape'
  BY IdleIsSlot, MoveSlot DEF Answer, Ack, ForeignKeyError, Fail
<1>2. req[r].pc = "answer" => req[r].new \in minted
  BY DEF Typed, SlotShape, Shaped
<1>3. req[r].pc = "ack" => req[r].tok \in minted
  BY DEF Typed, SlotShape, Shaped
<1> QED BY <1>1, <1>2, <1>3 DEF Answer, Ack, ForeignKeyError, Fail, Typed, TypeOK

\* Revoking the rows of a family or of a user.
LEMMA RevokeRowsTyped ==
    ASSUME Typed, NEW r, NEW u, (r \in Reqs /\ RevokeFamily(r)) \/ RevokeAllUserTokens(u)
    PROVE  Typed'
<1>1. ASSUME NEW t \in Tokens, Live(t) PROVE [row[t] EXCEPT !.revoked = TRUE] \in Row
  BY <1>1 DEF Live, Stored, Row, Typed, TypeOK
<1>2. row' \in [Tokens -> Row \cup {NoRow}]
  BY <1>1 DEF RevokeFamily, RevokeTokenFamily, RevokeAllUserTokens, Typed, TypeOK
<1>3. req' \in [Reqs -> Slot] /\ SlotShape'
  <2>1. CASE r \in Reqs /\ RevokeFamily(r)
    BY <2>1, IdleIsSlot, MoveSlot DEF RevokeFamily, RevokeTokenFamily
  <2>2. CASE RevokeAllUserTokens(u)
    BY <2>2 DEF RevokeAllUserTokens, Typed, TypeOK, SlotShape, Shaped
  <2> QED BY <2>1, <2>2
<1> QED BY <1>2, <1>3 DEF RevokeFamily, RevokeTokenFamily, RevokeAllUserTokens, Typed, TypeOK

\* Steps that leave every slot alone and delete rows at most.
LEMMA OtherTyped ==
    ASSUME Typed, NEW u,
           RemoveUser(u) \/ CleanupExpiredTokens \/ Tick \/ UNCHANGED vars
    PROVE  Typed'
<1>1. req' \in [Reqs -> Slot] /\ SlotShape'
  BY DEF RemoveUser, CleanupExpiredTokens, Tick, vars, Typed, TypeOK, SlotShape, Shaped
<1> QED BY <1>1 DEF RemoveUser, CleanupExpiredTokens, Tick, vars, Typed, TypeOK

LEMMA NextTyped == Typed /\ [Next]_vars => Typed'
<1> SUFFICES ASSUME Typed, [Next]_vars PROVE Typed'
  OBVIOUS
<1>1. ASSUME NEW r \in Reqs,
             \/ \E u \in Users : LoginFind(r, u)
             \/ \E t \in Tokens : RefreshFind(r, t) \/ LogoutFind(r, t)
             \/ Step(r) \/ Fail(r)
      PROVE  Typed'
  BY <1>1, RevokeRowsTyped, LoginFindTyped, RefreshFindTyped, LogoutFindTyped, InsertTokenTyped,
     RevokeOldTyped, LogoutSaveTyped, BackToIdleTyped DEF Step
<1>2. ASSUME NEW u \in Users, RevokeAllUserTokens(u) \/ RemoveUser(u) PROVE Typed'
  BY <1>2, RevokeRowsTyped, OtherTyped
<1>3. CASE CleanupExpiredTokens \/ Tick \/ UNCHANGED vars
  BY <1>3, OtherTyped
<1> QED BY <1>1, <1>2, <1>3 DEF Next

LEMMA AlwaysTyped == Spec => []Typed
BY InitTyped, NextTyped, PTL DEF Spec

\* Every variable of the token service keeps its type, and clients, logouts and
\* exchanges only ever name tokens that generateSecureToken returned.
THEOREM TypeCorrect == Spec => []TypeOK
<1>1. Typed => TypeOK
  BY DEF Typed
<1> QED BY <1>1, AlwaysTyped, PTL

-----------------------------------------------------------------------------
(* Live tokens                                                             *)

\* A save that writes a revoked entity brings no token to life and moves no
\* live token to another family.
LEMMA SaveRevoked ==
    ASSUME Typed, NEW t \in Tokens, NEW e, e.revoked = TRUE, SaveEntity(t, e),
           NEW x \in Tokens, Live(x)'
    PROVE  Live(x) /\ row'[x] = row[x]
<1>1. CASE row' = [row EXCEPT ![t] = e]
  <2>1. x # t
    BY <1>1 DEF Live, Typed, TypeOK
  <2> QED BY <2>1, <1>1 DEF Live, Stored, Typed, TypeOK
<1>2. CASE UNCHANGED row
  BY <1>2 DEF Live, Stored
<1> QED BY <1>1, <1>2 DEF SaveEntity

\* Only generateTokenPair brings a token to life.
LEMMA OnlyInsertGivesLife ==
    ASSUME Typed, [Next]_vars, ~ \E r \in Reqs : InsertToken(r),
           NEW x \in Tokens, Live(x)'
    PROVE  Live(x) /\ row'[x] = row[x]
<1>1. ASSUME UNCHANGED row PROVE Live(x) /\ row'[x] = row[x]
  BY <1>1 DEF Live, Stored
<1>2. ASSUME NEW r \in Reqs, RevokeOld(r) PROVE Live(x) /\ row'[x] = row[x]
  <2>1. PICK e : e = [req[r].snap EXCEPT !.revoked = TRUE, !.replaced = req[r].new]
    OBVIOUS
  <2>2. req[r].tok \in Tokens /\ req[r].snap \in Row
    BY <1>2 DEF RevokeOld, FinishRotation, Typed, TypeOK, SlotShape, Shaped
  <2>3. e.revoked = TRUE
    BY <2>1, <2>2 DEF Row
  <2>4. SaveEntity(req[r].tok, e)
    BY <1>2, <2>1 DEF RevokeOld, FinishRotation
  <2> QED BY <2>2, <2>3, <2>4, SaveRevoked
<1>3. ASSUME NEW r \in Reqs, LogoutSave(r) PROVE Live(x) /\ row'[x] = row[x]
  <2>1. PICK link :
          SaveEntity(req[r].tok, [req[r].snap EXCEPT !.revoked = TRUE, !.replaced = link])
    BY <1>3, Zenon DEF LogoutSave
  <2>2. PICK e : e = [req[r].snap EXCEPT !.revoked = TRUE, !.replaced = link]
    OBVIOUS
  <2>3. req[r].tok \in Tokens /\ req[r].snap \in Row
    BY <1>3 DEF LogoutSave, Typed, TypeOK, SlotShape, Shaped
  <2>4. e.revoked = TRUE
    BY <2>2, <2>3 DEF Row
  <2> QED BY <2>1, <2>2, <2>3, <2>4, SaveRevoked
<1>4. ASSUME (\E r \in Reqs : RevokeFamily(r)) \/ (\E u \in Users : RevokeAllUserTokens(u))
      PROVE  Live(x) /\ row'[x] = row[x]
  <2>1. Live(x) /\ row'[x] # row[x] => row'[x] = [row[x] EXCEPT !.revoked = TRUE]
    BY <1>4 DEF RevokeFamily, RevokeTokenFamily, RevokeAllUserTokens
  <2>2. Live(x) => [row[x] EXCEPT !.revoked = TRUE].revoked = TRUE
    BY DEF Live, Stored, Row, Typed, TypeOK
  <2>3. ~Live(x) => row'[x] = row[x]
    BY <1>4 DEF RevokeFamily, RevokeTokenFamily, RevokeAllUserTokens
  <2> QED BY <2>1, <2>2, <2>3 DEF Live, Stored
<1>5. ASSUME NEW u \in Users, RemoveUser(u) \/ CleanupExpiredTokens
      PROVE  Live(x) /\ row'[x] = row[x]
  BY <1>5 DEF RemoveUser, CleanupExpiredTokens, Live, Stored
<1>6. ASSUME NEW r \in Reqs,
             \/ \E u \in Users : LoginFind(r, u)
             \/ \E t \in Tokens : RefreshFind(r, t) \/ LogoutFind(r, t)
             \/ Step(r) \/ Fail(r)
      PROVE  Live(x) /\ row'[x] = row[x]
  <2>1. CASE \/ \E u \in Users : LoginFind(r, u)
             \/ \E t \in Tokens : RefreshFind(r, t) \/ LogoutFind(r, t)
             \/ Answer(r) \/ Ack(r) \/ ForeignKeyError(r) \/ Fail(r)
    <3>1. (\E u \in Users : LoginFind(r, u)) => UNCHANGED row
      BY DEF LoginFind
    <3>2. (\E t \in Tokens : RefreshFind(r, t) \/ LogoutFind(r, t)) => UNCHANGED row
      BY DEF RefreshFind, LogoutFind
    <3>3. Answer(r) \/ Ack(r) \/ ForeignKeyError(r) \/ Fail(r) => UNCHANGED row
      BY DEF Answer, Ack, ForeignKeyError, Fail
    <3> QED BY <2>1, <3>1, <3>2, <3>3, <1>1
  <2> QED BY <2>1, <1>2, <1>3, <1>4, <1>6 DEF Step
<1>7. CASE Tick \/ UNCHANGED vars
  BY <1>7, <1>1 DEF Tick, vars
<1>8. CASE \E u \in Users : RevokeAllUserTokens(u) \/ RemoveUser(u)
  BY <1>8, <1>4, <1>5
<1>9. CASE CleanupExpiredTokens
  <2>1. row'[x] = IF Stored(x) /\ row[x].exp < now THEN NoRow ELSE row[x]
    BY <1>9 DEF CleanupExpiredTokens
  <2> QED BY <2>1 DEF Live, Stored
<1> QED BY <1>6, <1>7, <1>8, <1>9 DEF Next

\* What generateTokenPair does to the table: one new row, for a token that had
\* none, in the family of the slot or in a family of its own.
LEMMA InsertOne ==
    ASSUME Typed, NEW r \in Reqs, InsertToken(r)
    PROVE  \E t \in Tokens \ minted :
              /\ minted' = minted \cup {t}
              /\ row'[t].family = FamilyFor(req[r], t)
              /\ row'[t].user = req[r].user
              /\ row'[t].revoked = FALSE
              /\ row'[t].replaced = NoToken
              /\ row'[t] \in Row
              /\ parent' = [parent EXCEPT ![t] = req[r].tok]
              /\ \A x \in Tokens \ {t} : row'[x] = row[x]
              /\ req'[r].pc # "insert"
              /\ req'[r].tok = req[r].tok
              /\ req'[r].new = t
              /\ req'[r].snap = req[r].snap
              /\ req[r].tok = NoToken <=> req'[r].pc = "answer"
              /\ req[r].tok # NoToken <=> req'[r].pc = "revokeOld"
              /\ \A q \in Reqs \ {r} : req'[q] = req[q]
<1>1. PICK t \in Tokens \ minted :
        /\ row' = [row EXCEPT ![t] =
                     [user |-> req[r].user, family |-> FamilyFor(req[r], t),
                      exp |-> req[r].exp, revoked |-> FALSE, replaced |-> NoToken]]
        /\ minted' = minted \cup {t}
        /\ parent' = [parent EXCEPT ![t] = req[r].tok]
        /\ req' = [req EXCEPT ![r] =
                     [Idle EXCEPT !.pc = IF req[r].tok = NoToken
                                         THEN "answer" ELSE "revokeOld",
                                  !.tok = req[r].tok, !.snap = req[r].snap,
                                  !.new = t]]
  BY Zenon DEF InsertToken
<1>2. PICK S : S = [Idle EXCEPT !.pc = IF req[r].tok = NoToken
                                       THEN "answer" ELSE "revokeOld",
                                !.tok = req[r].tok, !.snap = req[r].snap, !.new = t]
  OBVIOUS
<1>3. S.tok = req[r].tok /\ S.new = t /\ S.snap = req[r].snap
      /\ S.pc = IF req[r].tok = NoToken THEN "answer" ELSE "revokeOld"
  BY <1>2 DEF Idle
<1>4. \A q \in Reqs : req'[q] = IF q = r THEN S ELSE req[q]
  BY <1>1, <1>2 DEF Typed, TypeOK
<1>5. PICK e : e = [user |-> req[r].user, family |-> FamilyFor(req[r], t),
                    exp |-> req[r].exp, revoked |-> FALSE, replaced |-> NoToken]
  OBVIOUS
<1>6. \A x \in Tokens : row'[x] = IF x = t THEN e ELSE row[x]
  BY <1>1, <1>5 DEF Typed, TypeOK
<1>7. e \in Row
  <2>1. req[r].user \in Users /\ req[r].exp \in Int
    BY DEF InsertToken, Typed, TypeOK, SlotShape, Shaped, Slot
  <2>2. FamilyFor(req[r], t) \in Tokens
    BY DEF FamilyFor, InsertToken, Typed, TypeOK, SlotShape, Shaped, Row
  <2> QED BY <1>5, <2>1, <2>2 DEF Row
<1>8. e.family = FamilyFor(req[r], t) /\ e.user = req[r].user
      /\ e.revoked = FALSE /\ e.replaced = NoToken
  BY <1>5
<1> WITNESS t \in Tokens \ minted
<1> QED BY <1>1, <1>3, <1>4, <1>6, <1>7, <1>8

-----------------------------------------------------------------------------
(* Dead families                                                           *)

\* Only the findOne of a refresh puts a slot before its insert with a token.
LEMMA OnlyFindClaims ==
    ASSUME Typed, [Next]_vars, NEW q \in Reqs,
           req'[q].pc = "insert", req'[q].tok # NoToken
    PROVE  \/ req'[q] = req[q]
           \/ \E t \in Tokens : Live(t) /\ req'[q].snap.family = row[t].family
<1>1. ASSUME UNCHANGED req PROVE req'[q] = req[q]
  BY <1>1
<1>2. ASSUME NEW r \in Reqs, NEW S, S.pc # "insert" \/ S.tok = NoToken,
             req' = [req EXCEPT ![r] = S]
      PROVE  req'[q] = req[q]
  BY <1>2 DEF Typed, TypeOK
<1>3. ASSUME NEW r \in Reqs, NEW u \in Users, LoginFind(r, u) PROVE req'[q] = req[q]
  <2>1. PICK S : S = [Idle EXCEPT !.pc = "insert", !.user = u, !.exp = now + Lifetime]
    OBVIOUS
  <2>2. S.tok = NoToken
    BY <2>1 DEF Idle
  <2> QED BY <1>2, <1>3, <2>1, <2>2 DEF LoginFind
<1>4. ASSUME NEW r \in Reqs, NEW t \in Tokens, RefreshFind(r, t)
      PROVE  \/ req'[q] = req[q]
             \/ Live(t) /\ req'[q].snap.family = row[t].family
  <2>1. PICK S1 : S1 = [Idle EXCEPT !.pc = "revokeFamily", !.tok = t, !.snap = row[t]]
    OBVIOUS
  <2>2. PICK S2 : S2 = [Idle EXCEPT !.pc = "insert", !.tok = t, !.user = row[t].user,
                                    !.snap = row[t], !.exp = now + Lifetime]
    OBVIOUS
  <2>3. S1.pc = "revokeFamily" /\ S2.snap = row[t]
    BY <2>1, <2>2 DEF Idle
  <2>4. CASE req' = [req EXCEPT ![r] = S1]
    BY <2>3, <2>4, <1>2
  <2>5. CASE Live(t) /\ req' = [req EXCEPT ![r] = S2]
    BY <2>3, <2>5 DEF Typed, TypeOK
  <2> QED BY <1>4, <2>1, <2>2, <2>4, <2>5 DEF RefreshFind, Live
<1>5. ASSUME NEW r \in Reqs, NEW t \in Tokens, LogoutFind(r, t) PROVE req'[q] = req[q]
  <2>1. PICK S : S = [Idle EXCEPT !.pc = IF Stored(t) THEN "logoutSave" ELSE "ack",
                                  !.tok = t, !.snap = row[t]]
    OBVIOUS
  <2>2. S.pc # "insert"
    BY <2>1 DEF Idle
  <2> QED BY <1>2, <1>5, <2>1, <2>2 DEF LogoutFind
<1>6. ASSUME NEW r \in Reqs, InsertToken(r) PROVE req'[q] = req[q]
  BY <1>6, InsertOne
<1>7. ASSUME NEW r \in Reqs, RevokeOld(r) PROVE req'[q] = req[q]
  <2>1. PICK S : S = [Idle EXCEPT !.pc = "answer", !.tok = req[r].tok, !.new = req[r].new]
    OBVIOUS
  <2>2. S.pc # "insert"
    BY <2>1 DEF Idle
  <2> QED BY <1>2, <1>7, <2>1, <2>2 DEF RevokeOld, FinishRotation
<1>8. ASSUME NEW r \in Reqs, LogoutSave(r) PROVE req'[q] = req[q]
  <2>1. PICK S : S = [Idle EXCEPT !.pc = "ack", !.tok = req[r].tok]
    OBVIOUS
  <2>2. S.pc # "insert"
    BY <2>1 DEF Idle
  <2> QED BY <1>2, <1>8, <2>1, <2>2 DEF LogoutSave
<1>9. ASSUME NEW r \in Reqs,
             Answer(r) \/ RevokeFamily(r) \/ Ack(r) \/ ForeignKeyError(r) \/ Fail(r)
      PROVE  req'[q] = req[q]
  <2>1. req' = [req EXCEPT ![r] = Idle]
    BY <1>9 DEF Answer, RevokeFamily, RevokeTokenFamily, Ack, ForeignKeyError, Fail
  <2>2. Idle.pc # "insert"
    BY DEF Idle
  <2> QED BY <1>2, <2>1, <2>2
<1>10. ASSUME \/ \E u \in Users : RevokeAllUserTokens(u) \/ RemoveUser(u)
              \/ CleanupExpiredTokens \/ Tick \/ UNCHANGED vars
       PROVE  req'[q] = req[q]
  BY <1>10 DEF RevokeAllUserTokens, RemoveUser, CleanupExpiredTokens, Tick, vars
<1>11. ASSUME NEW r \in Reqs, Step(r) PROVE req'[q] = req[q]
  BY <1>6, <1>7, <1>8, <1>9, <1>11 DEF Step
<1> QED BY <1>3, <1>4, <1>5, <1>9, <1>10, <1>11 DEF Next

LEMMA DeadFamilyStep ==
    ASSUME Typed, [Next]_vars, NEW f \in minted, FamilyDead(f) PROVE FamilyDead(f)'
<1>1. ASSUME NEW t \in Tokens, Live(t)' PROVE row'[t].family # f
  <2>1. CASE \E r \in Reqs : InsertToken(r)
    <3>1. PICK r \in Reqs : InsertToken(r)
      BY <2>1
    <3>2. req[r].pc = "insert"
      BY <3>1 DEF InsertToken
    <3>3. PICK c \in Tokens \ minted :
            /\ row'[c].family = FamilyFor(req[r], c)
            /\ \A x \in Tokens \ {c} : row'[x] = row[x]
      BY <3>1, InsertOne
    <3>4. CASE t = c
      BY <3>2, <3>3, <3>4 DEF FamilyFor, FamilyDead
    <3>5. CASE t # c
      <4>1. row'[t] = row[t] /\ Live(t)
        BY <1>1, <3>3, <3>5 DEF Live, Stored
      <4> QED BY <4>1 DEF FamilyDead
    <3> QED BY <3>4, <3>5
  <2>2. CASE ~ \E r \in Reqs : InsertToken(r)
    <3>1. Live(t) /\ row'[t] = row[t]
      BY <1>1, <2>2, OnlyInsertGivesLife
    <3> QED BY <3>1 DEF FamilyDead
  <2> QED BY <2>1, <2>2
<1>2. ASSUME NEW q \in Reqs, req'[q].pc = "insert", req'[q].tok # NoToken
      PROVE  req'[q].snap.family # f
  <2>1. CASE req'[q] = req[q]
    BY <1>2, <2>1 DEF FamilyDead
  <2>2. CASE \E t \in Tokens : Live(t) /\ req'[q].snap.family = row[t].family
    BY <2>2 DEF FamilyDead
  <2> QED BY <1>2, <2>1, <2>2, OnlyFindClaims
<1> QED BY <1>1, <1>2 DEF FamilyDead

\* A family with no live token and no refresh about to insert never has a live
\* token again, whatever is saved, cleaned up or retried later.
THEOREM DeadFamilyTheorem == Spec => DeadFamilyStaysDead
<1>1. Typed /\ [Next]_vars
        => [\A f \in minted : FamilyDead(f) => FamilyDead(f)']_vars
  BY DeadFamilyStep
<1> QED BY <1>1, AlwaysTyped, PTL DEF Spec, DeadFamilyStaysDead

-----------------------------------------------------------------------------
(* Spent tokens                                                            *)

\* Between the save and the response the token is already dead: without this
\* the response would acknowledge a revocation that has not happened.
Retiring ==
    \A r \in Reqs :
        (req[r].pc = "answer" /\ req[r].tok # NoToken) \/ req[r].pc = "ack"
            => ~Live(req[r].tok)

SpentInv == Typed /\ SpentTokenIsDead /\ Retiring

DeadNext(t) == row'[t] = NoRow \/ row'[t].revoked

LEMMA SaveRetires ==
    ASSUME Typed, NEW t \in Tokens, NEW e, e.revoked = TRUE, SaveEntity(t, e)
    PROVE  DeadNext(t)
BY DEF SaveEntity, DeadNext, Stored, Typed, TypeOK

\* A slot reaches its response only with a dead token.
LEMMA ResponseNeedsDeadToken ==
    ASSUME Typed, [Next]_vars, ~ \E r \in Reqs : InsertToken(r),
           NEW q \in Reqs, req'[q].pc \in {"answer", "ack"}
    PROVE  req'[q] = req[q] \/ DeadNext(req'[q].tok)
<1>1. ASSUME NEW r \in Reqs, NEW S, req' = [req EXCEPT ![r] = S],
             S.pc \notin {"answer", "ack"} \/ DeadNext(S.tok)
      PROVE  req'[q] = req[q] \/ DeadNext(req'[q].tok)
  <2>1. req'[q] = IF q = r THEN S ELSE req[q]
    BY <1>1 DEF Typed, TypeOK
  <2> QED BY <2>1, <1>1
<1>2. ASSUME NEW r \in Reqs, NEW u \in Users, LoginFind(r, u)
      PROVE  req'[q] = req[q] \/ DeadNext(req'[q].tok)
  <2>1. PICK S : S = [Idle EXCEPT !.pc = "insert", !.user = u, !.exp = now + Lifetime]
    OBVIOUS
  <2>2. S.pc = "insert"
    BY <2>1 DEF Idle
  <2> QED BY <1>1, <1>2, <2>1, <2>2 DEF LoginFind
<1>3. ASSUME NEW r \in Reqs, NEW t \in Tokens, RefreshFind(r, t)
      PROVE  req'[q] = req[q] \/ DeadNext(req'[q].tok)
  <2>1. PICK S1 : S1 = [Idle EXCEPT !.pc = "revokeFamily", !.tok = t, !.snap = row[t]]
    OBVIOUS
  <2>2. PICK S2 : S2 = [Idle EXCEPT !.pc = "insert", !.tok = t, !.user = row[t].user,
                                    !.snap = row[t], !.exp = now + Lifetime]
    OBVIOUS
  <2>3. S1.pc = "revokeFamily" /\ S2.pc = "insert"
    BY <2>1, <2>2 DEF Idle
  <2>4. req' = [req EXCEPT ![r] = S1] \/ req' = [req EXCEPT ![r] = S2]
    BY <1>3, <2>1, <2>2 DEF RefreshFind
  <2> QED BY <1>1, <2>3, <2>4
<1>4. ASSUME NEW r \in Reqs, NEW t \in Tokens, LogoutFind(r, t)
      PROVE  req'[q] = req[q] \/ DeadNext(req'[q].tok)
  <2>1. PICK S : S = [Idle EXCEPT !.pc = IF Stored(t) THEN "logoutSave" ELSE "ack",
                                  !.tok = t, !.snap = row[t]]
    OBVIOUS
  <2>2. S.tok = t /\ (Stored(t) => S.pc = "logoutSave")
    BY <2>1 DEF Idle
  <2>3. ~Stored(t) => DeadNext(S.tok)
    BY <1>4, <2>2 DEF LogoutFind, DeadNext, Stored
  <2> QED BY <1>1, <1>4, <2>1, <2>2, <2>3 DEF LogoutFind
<1>5. ASSUME NEW r \in Reqs, RevokeOld(r)
      PROVE  req'[q] = req[q] \/ DeadNext(req'[q].tok)
  <2>1. PICK S : S = [Idle EXCEPT !.pc = "answer", !.tok = req[r].tok, !.new = req[r].new]
    OBVIOUS
  <2>2. PICK e : e = [req[r].snap EXCEPT !.revoked = TRUE, !.replaced = req[r].new]
    OBVIOUS
  <2>3. req[r].tok \in Tokens /\ req[r].snap \in Row
    BY <1>5 DEF RevokeOld, FinishRotation, Typed, TypeOK, SlotShape, Shaped
  <2>4. e.revoked = TRUE /\ S.tok = req[r].tok
    BY <2>1, <2>2, <2>3 DEF Row, Idle
  <2>5. SaveEntity(req[r].tok, e)
    BY <1>5, <2>2 DEF RevokeOld, FinishRotation
  <2>6. DeadNext(req[r].tok)
    BY <2>3, <2>4, <2>5, SaveRetires
  <2> QED BY <1>1, <1>5, <2>1, <2>4, <2>6 DEF RevokeOld, FinishRotation
<1>6. ASSUME NEW r \in Reqs, LogoutSave(r)
      PROVE  req'[q] = req[q] \/ DeadNext(req'[q].tok)
  <2>1. PICK S : S = [Idle EXCEPT !.pc = "ack", !.tok = req[r].tok]
    OBVIOUS
  <2>2. PICK link :
          SaveEntity(req[r].tok, [req[r].snap EXCEPT !.revoked = TRUE, !.replaced = link])
    BY <1>6, Zenon DEF LogoutSave
  <2>3. PICK e : e = [req[r].snap EXCEPT !.revoked = TRUE, !.replaced = link]
    OBVIOUS
  <2>4. req[r].tok \in Tokens /\ req[r].snap \in Row
    BY <1>6 DEF LogoutSave, Typed, TypeOK, SlotShape, Shaped
  <2>5. e.revoked = TRUE /\ S.tok = req[r].tok
    BY <2>1, <2>3, <2>4 DEF Row, Idle
  <2>6. DeadNext(req[r].tok)
    BY <2>2, <2>3, <2>4, <2>5, SaveRetires
  <2> QED BY <1>1, <1>6, <2>1, <2>5, <2>6 DEF LogoutSave
<1>7. ASSUME NEW r \in Reqs,
             Answer(r) \/ RevokeFamily(r) \/ Ack(r) \/ ForeignKeyError(r) \/ Fail(r)
      PROVE  req'[q] = req[q] \/ DeadNext(req'[q].tok)
  <2>1. req' = [req EXCEPT ![r] = Idle]
    BY <1>7 DEF Answer, RevokeFamily, RevokeTokenFamily, Ack, ForeignKeyError, Fail
  <2>2. Idle.pc = "idle"
    BY DEF Idle
  <2> QED BY <1>1, <2>1, <2>2
<1>8. ASSUME \/ \E u \in Users : RevokeAllUserTokens(u) \/ RemoveUser(u)
             \/ CleanupExpiredTokens \/ Tick \/ UNCHANGED vars
      PROVE  req'[q] = req[q]
  BY <1>8 DEF RevokeAllUserTokens, RemoveUser, CleanupExpiredTokens, Tick, vars
<1>9. ASSUME NEW r \in Reqs, Step(r)
      PROVE  req'[q] = req[q] \/ DeadNext(req'[q].tok)
  BY <1>5, <1>6, <1>7, <1>9 DEF Step
<1> QED BY <1>2, <1>3, <1>4, <1>7, <1>8, <1>9 DEF Next

\* What a client learns in one step it learns from a response.
LEMMA HistoryStep ==
    ASSUME Typed, [Next]_vars, ~ \E r \in Reqs : InsertToken(r)
    PROVE  /\ UNCHANGED <<minted, parent>>
           /\ \A c \in held' : c \in held \/ \E r \in Reqs :
                 req[r].pc = "answer" /\ c = req[r].new
           /\ \A t \in loggedOut' : t \in loggedOut \/ \E r \in Reqs :
                 req[r].pc = "ack" /\ t = req[r].tok
<1>1. ASSUME NEW r \in Reqs, Answer(r)
      PROVE  /\ UNCHANGED <<minted, parent, loggedOut>>
             /\ req[r].pc = "answer" /\ held' = held \cup {req[r].new}
  BY <1>1 DEF Answer
<1>2. ASSUME NEW r \in Reqs, Ack(r)
      PROVE  /\ UNCHANGED <<minted, parent, held>>
             /\ req[r].pc = "ack" /\ loggedOut' = loggedOut \cup {req[r].tok}
  BY <1>2 DEF Ack
<1>3. ASSUME NEW r \in Reqs,
             \/ \E u \in Users : LoginFind(r, u)
             \/ \E t \in Tokens : RefreshFind(r, t) \/ LogoutFind(r, t)
             \/ RevokeOld(r) \/ RevokeFamily(r) \/ LogoutSave(r)
             \/ ForeignKeyError(r) \/ Fail(r)
      PROVE  UNCHANGED <<minted, parent, held, loggedOut>>
  <2>1. ASSUME NEW u \in Users, LoginFind(r, u)
        PROVE  UNCHANGED <<minted, parent, held, loggedOut>>
    BY <2>1 DEF LoginFind
  <2>2. ASSUME NEW t \in Tokens, RefreshFind(r, t)
        PROVE  UNCHANGED <<minted, parent, held, loggedOut>>
    BY <2>2 DEF RefreshFind
  <2>3. ASSUME NEW t \in Tokens, LogoutFind(r, t)
        PROVE  UNCHANGED <<minted, parent, held, loggedOut>>
    BY <2>3 DEF LogoutFind
  <2>4. CASE RevokeOld(r)
    BY <2>4 DEF RevokeOld, FinishRotation
  <2>5. CASE RevokeFamily(r)
    BY <2>5 DEF RevokeFamily, RevokeTokenFamily
  <2>6. CASE LogoutSave(r)
    BY <2>6 DEF LogoutSave
  <2>7. CASE ForeignKeyError(r) \/ Fail(r)
    BY <2>7 DEF ForeignKeyError, Fail
  <2> QED BY <1>3, <2>1, <2>2, <2>3, <2>4, <2>5, <2>6, <2>7
<1>4. ASSUME \/ \E u \in Users : RevokeAllUserTokens(u) \/ RemoveUser(u)
             \/ CleanupExpiredTokens \/ Tick \/ UNCHANGED vars
      PROVE  UNCHANGED <<minted, parent, held, loggedOut>>
  BY <1>4 DEF RevokeAllUserTokens, RemoveUser, CleanupExpiredTokens, Tick, vars
<1> QED BY <1>1, <1>2, <1>3, <1>4 DEF Next, Step

LEMMA SpentStepInsert ==
    ASSUME SpentInv, NEW r \in Reqs, InsertToken(r)
    PROVE  SpentTokenIsDead' /\ Retiring'
<1>1. PICK c \in Tokens \ minted :
        /\ minted' = minted \cup {c}
        /\ parent' = [parent EXCEPT ![c] = req[r].tok]
        /\ \A x \in Tokens \ {c} : row'[x] = row[x]
        /\ req'[r].pc # "insert"
        /\ req'[r].tok = req[r].tok
        /\ req[r].tok = NoToken <=> req'[r].pc = "answer"
        /\ req[r].tok # NoToken <=> req'[r].pc = "revokeOld"
        /\ \A q \in Reqs \ {r} : req'[q] = req[q]
  BY InsertOne DEF SpentInv
<1>2. held \subseteq minted /\ loggedOut \subseteq minted /\ minted \subseteq Tokens
      /\ parent \in [Tokens -> minted \cup {NoToken}]
  BY DEF SpentInv, Typed, TypeOK
<1>3. UNCHANGED <<held, loggedOut>>
  BY DEF InsertToken
<1>4. \A k \in held : parent'[k] = parent[k] /\ parent[k] # c
  BY <1>1, <1>2, NoTokenAssumption
<1>5. ASSUME NEW t \in Tokens, Exchanged(t)' \/ t \in loggedOut' PROVE ~Live(t)'
  <2>1. Exchanged(t) \/ t \in loggedOut
    BY <1>3, <1>4, <1>5 DEF Exchanged
  <2>2. t # c
    BY <2>1, <1>1, <1>2, <1>4 DEF Exchanged
  <2> QED BY <2>1, <2>2, <1>1 DEF SpentInv, SpentTokenIsDead, Live, Stored
<1>6. ASSUME NEW q \in Reqs,
             (req'[q].pc = "answer" /\ req'[q].tok # NoToken) \/ req'[q].pc = "ack"
      PROVE  ~Live(req[q].tok)'
  <2>1. q # r /\ req'[q] = req[q]
    BY <1>1, <1>6
  <2>2. req[q].tok \in minted
    BY <2>1, <1>6 DEF SpentInv, Typed, SlotShape, Shaped
  <2>3. ~Live(req[q].tok)
    BY <2>1, <1>6 DEF SpentInv, Retiring
  <2>4. row'[req[q].tok] = row[req[q].tok]
    BY <1>1, <1>2, <2>2
  <2> QED BY <2>1, <2>3, <2>4 DEF Live, Stored
<1> QED BY <1>5, <1>6 DEF SpentTokenIsDead, Retiring

LEMMA SpentStepOther ==
    ASSUME SpentInv, [Next]_vars, ~ \E r \in Reqs : InsertToken(r)
    PROVE  SpentTokenIsDead' /\ Retiring'
<1>1. Typed
  BY DEF SpentInv
<1>2. /\ UNCHANGED <<minted, parent>>
      /\ \A c \in held' : c \in held \/ \E r \in Reqs :
            req[r].pc = "answer" /\ c = req[r].new
      /\ \A t \in loggedOut' : t \in loggedOut \/ \E r \in Reqs :
            req[r].pc = "ack" /\ t = req[r].tok
  BY <1>1, HistoryStep
<1>3. ASSUME NEW t \in Tokens, ~Live(t) PROVE ~Live(t)'
  BY <1>1, <1>3, OnlyInsertGivesLife
<1>4. ASSUME NEW t \in Tokens, Exchanged(t)' PROVE ~Live(t)
  <2>1. PICK c \in held' : parent[c] = t
    BY <1>2, <1>4 DEF Exchanged
  <2>2. CASE c \in held
    BY <2>1, <2>2 DEF SpentInv, SpentTokenIsDead, Exchanged
  <2>3. CASE \E r \in Reqs : req[r].pc = "answer" /\ c = req[r].new
    <3>1. PICK r \in Reqs : req[r].pc = "answer" /\ c = req[r].new
      BY <2>3
    <3>2. req[r].tok = t
      BY <1>1, <2>1, <3>1 DEF Typed, SlotShape, Shaped
    <3> QED BY <3>1, <3>2, NoTokenAssumption DEF SpentInv, Retiring
  <2> QED BY <1>2, <2>2, <2>3
<1>5. ASSUME NEW t \in Tokens, t \in loggedOut' PROVE ~Live(t)
  <2>1. CASE t \in loggedOut
    BY <2>1 DEF SpentInv, SpentTokenIsDead
  <2>2. CASE \E r \in Reqs : req[r].pc = "ack" /\ t = req[r].tok
    BY <2>2 DEF SpentInv, Retiring
  <2> QED BY <1>2, <1>5, <2>1, <2>2
<1>6. ASSUME NEW q \in Reqs,
             (req'[q].pc = "answer" /\ req'[q].tok # NoToken) \/ req'[q].pc = "ack"
      PROVE  ~Live(req[q].tok)'
  <2>1. CASE req'[q] = req[q]
    <3>1. ~Live(req[q].tok) /\ req[q].tok \in Tokens
      BY <1>1, <1>6, <2>1 DEF SpentInv, Retiring, Typed, TypeOK, SlotShape, Shaped
    <3>2. PICK t \in Tokens : t = req[q].tok
      BY <3>1
    <3>3. ~Live(t)'
      BY <1>3, <3>1, <3>2
    <3> QED BY <2>1, <3>2, <3>3 DEF Live, Stored
  <2>2. CASE DeadNext(req'[q].tok)
    BY <2>2 DEF DeadNext, Live, Stored
  <2> QED BY <1>1, <1>6, <2>1, <2>2, ResponseNeedsDeadToken
<1>7. SpentTokenIsDead'
  BY <1>3, <1>4, <1>5 DEF SpentTokenIsDead
<1> QED BY <1>6, <1>7 DEF Retiring

\* A token is never accepted again once the response that spent it was given.
THEOREM SpentTokenTheorem == Spec => []SpentTokenIsDead
<1>1. Init => SpentInv
  BY InitTyped DEF Init, SpentInv, SpentTokenIsDead, Exchanged, Retiring, Idle
<1>2. SpentInv /\ [Next]_vars => SpentInv'
  BY NextTyped, SpentStepInsert, SpentStepOther DEF SpentInv
<1>3. SpentInv => SpentTokenIsDead
  BY DEF SpentInv
<1> QED BY <1>1, <1>2, <1>3, PTL DEF Spec

-----------------------------------------------------------------------------
(* Families                                                                *)

\* A row, or an entity that a request has read, says that f is u's family.
RowSays(t, f, u) == Stored(t) /\ row[t].family = f /\ row[t].user = u
SnapSays(r, f, u) == req[r].snap # NoRow /\ req[r].snap.family = f /\ req[r].snap.user = u
Says(f, u) == (\E t \in Tokens : RowSays(t, f, u)) \/ (\E r \in Reqs : SnapSays(r, f, u))

\* Deleted rows are saved back from entities, so the entities in flight count.
FamilyInv ==
    \A f \in Tokens, u \in Users :
        Says(f, u) => f \in minted /\ \A v \in Users : Says(f, v) => u = v

\* A save writes the family and the user of the entity, or leaves the row.
LEMMA SavedRow ==
    ASSUME Typed, NEW r \in Reqs, NEW t \in Tokens, NEW link,
           req[r].tok \in Tokens, req[r].snap \in Row,
           SaveEntity(req[r].tok, [req[r].snap EXCEPT !.revoked = TRUE, !.replaced = link]),
           NEW f, NEW u, RowSays(t, f, u)'
    PROVE  RowSays(t, f, u) \/ SnapSays(r, f, u)
<1>1. PICK e : e = [req[r].snap EXCEPT !.revoked = TRUE, !.replaced = link]
  OBVIOUS
<1>2. e.family = req[r].snap.family /\ e.user = req[r].snap.user /\ req[r].snap # NoRow
  BY <1>1, NoRowAssumption DEF Row
<1>3. row' = row \/ row' = [row EXCEPT ![req[r].tok] = e]
  BY <1>1 DEF SaveEntity
<1> QED BY <1>2, <1>3 DEF RowSays, SnapSays, Stored, Typed, TypeOK

\* Apart from the insert of a new token, a row only gets what a row or an
\* entity already says.
LEMMA RowsSayNothingNew ==
    ASSUME Typed, [Next]_vars, ~ \E r \in Reqs : InsertToken(r),
           NEW t \in Tokens, NEW f, NEW u, RowSays(t, f, u)'
    PROVE  Says(f, u)
<1>1. ASSUME \A x \in Tokens : row'[x] = NoRow \/ row'[x] = row[x]
                  \/ (Stored(x) /\ row'[x] = [row[x] EXCEPT !.revoked = TRUE])
      PROVE  Says(f, u)
  <2>1. row'[t] # NoRow
    BY DEF RowSays, Stored
  <2>2. CASE row'[t] = row[t]
    BY <2>1, <2>2 DEF Says, RowSays, Stored
  <2>3. CASE Stored(t) /\ row'[t] = [row[t] EXCEPT !.revoked = TRUE]
    <3>1. row[t] \in Row
      BY <2>3 DEF Stored, Typed, TypeOK
    <3>2. row'[t].family = row[t].family /\ row'[t].user = row[t].user
      BY <2>3, <3>1 DEF Row
    <3> QED BY <2>3, <3>2 DEF Says, RowSays
  <2> QED BY <1>1, <2>1, <2>2, <2>3
<1>2. CASE row' = row
  BY <1>1, <1>2
<1>3. CASE \E r \in Reqs : RevokeFamily(r)
  BY <1>1, <1>3 DEF RevokeFamily, RevokeTokenFamily, Live
<1>4. CASE \E v \in Users : RevokeAllUserTokens(v)
  BY <1>1, <1>4 DEF RevokeAllUserTokens, Live
<1>5. CASE CleanupExpiredTokens \/ \E v \in Users : RemoveUser(v)
  BY <1>1, <1>5 DEF CleanupExpiredTokens, RemoveUser
<1>6. ASSUME NEW r \in Reqs, RevokeOld(r) PROVE Says(f, u)
  <2>1. req[r].tok \in Tokens /\ req[r].snap \in Row
    BY <1>6 DEF RevokeOld, FinishRotation, Typed, TypeOK, SlotShape, Shaped
  <2>2. SaveEntity(req[r].tok, [req[r].snap EXCEPT !.revoked = TRUE, !.replaced = req[r].new])
    BY <1>6 DEF RevokeOld, FinishRotation
  <2> QED BY <2>1, <2>2, SavedRow DEF Says
<1>7. ASSUME NEW r \in Reqs, LogoutSave(r) PROVE Says(f, u)
  <2>1. req[r].tok \in Tokens /\ req[r].snap \in Row
    BY <1>7 DEF LogoutSave, Typed, TypeOK, SlotShape, Shaped
  <2>2. PICK link :
          SaveEntity(req[r].tok, [req[r].snap EXCEPT !.revoked = TRUE, !.replaced = link])
    BY <1>7, Zenon DEF LogoutSave
  <2> QED BY <2>1, <2>2, SavedRow DEF Says
<1>8. ASSUME NEW r \in Reqs,
             \/ \E v \in Users : LoginFind(r, v)
             \/ \E x \in Tokens : RefreshFind(r, x) \/ LogoutFind(r, x)
             \/ Answer(r) \/ Ack(r) \/ ForeignKeyError(r) \/ Fail(r)
      PROVE  row' = row
  <2>1. ASSUME NEW x \in Tokens, RefreshFind(r, x) PROVE row' = row
    BY <2>1 DEF RefreshFind
  <2> QED BY <1>8, <2>1 DEF LoginFind, LogoutFind, Answer, Ack, ForeignKeyError, Fail
<1>9. CASE Tick \/ UNCHANGED vars
  BY <1>2, <1>9 DEF Tick, vars
<1> QED BY <1>2, <1>3, <1>4, <1>5, <1>6, <1>7, <1>8, <1>9 DEF Next, Step

\* A request only reads entities from rows.
LEMMA SnapsSayNothingNew ==
    ASSUME Typed, [Next]_vars, NEW q \in Reqs, NEW f, NEW u, SnapSays(q, f, u)'
    PROVE  Says(f, u)
<1>1. ASSUME NEW r \in Reqs, NEW S, req' = [req EXCEPT ![r] = S],
             S.snap \in {NoRow, req[r].snap} \cup {row[t] : t \in Tokens}
      PROVE  Says(f, u)
  <2>1. req'[q] = IF q = r THEN S ELSE req[q]
    BY <1>1 DEF Typed, TypeOK
  <2> QED BY <1>1, <2>1 DEF Says, RowSays, SnapSays, Stored
<1>2. ASSUME NEW r \in Reqs, NEW v \in Users, LoginFind(r, v) PROVE Says(f, u)
  <2>1. PICK S : S = [Idle EXCEPT !.pc = "insert", !.user = v, !.exp = now + Lifetime]
    OBVIOUS
  <2>2. S.snap = NoRow
    BY <2>1 DEF Idle
  <2> QED BY <1>1, <1>2, <2>1, <2>2 DEF LoginFind
<1>3. ASSUME NEW r \in Reqs, NEW t \in Tokens, RefreshFind(r, t) PROVE Says(f, u)
  <2>1. PICK S1 : S1 = [Idle EXCEPT !.pc = "revokeFamily", !.tok = t, !.snap = row[t]]
    OBVIOUS
  <2>2. PICK S2 : S2 = [Idle EXCEPT !.pc = "insert", !.tok = t, !.user = row[t].user,
                                    !.snap = row[t], !.exp = now + Lifetime]
    OBVIOUS
  <2>3. S1.snap = row[t] /\ S2.snap = row[t]
    BY <2>1, <2>2 DEF Idle
  <2>4. req' = [req EXCEPT ![r] = S1] \/ req' = [req EXCEPT ![r] = S2]
    BY <1>3, <2>1, <2>2 DEF RefreshFind
  <2> QED BY <1>1, <2>3, <2>4
<1>4. ASSUME NEW r \in Reqs, NEW t \in Tokens, LogoutFind(r, t) PROVE Says(f, u)
  <2>1. PICK S : S = [Idle EXCEPT !.pc = IF Stored(t) THEN "logoutSave" ELSE "ack",
                                  !.tok = t, !.snap = row[t]]
    OBVIOUS
  <2>2. S.snap = row[t]
    BY <2>1 DEF Idle
  <2> QED BY <1>1, <1>4, <2>1, <2>2 DEF LogoutFind
<1>5. ASSUME NEW r \in Reqs, InsertToken(r) PROVE Says(f, u)
  <2>1. PICK t \in Tokens :
          req' = [req EXCEPT ![r] =
                    [Idle EXCEPT !.pc = IF req[r].tok = NoToken THEN "answer" ELSE "revokeOld",
                                 !.tok = req[r].tok, !.snap = req[r].snap, !.new = t]]
    BY <1>5 DEF InsertToken
  <2>2. PICK S : S = [Idle EXCEPT !.pc = IF req[r].tok = NoToken THEN "answer" ELSE "revokeOld",
                                  !.tok = req[r].tok, !.snap = req[r].snap, !.new = t]
    OBVIOUS
  <2>3. S.snap = req[r].snap
    BY <2>2 DEF Idle
  <2> QED BY <1>1, <2>1, <2>2, <2>3
<1>6. ASSUME NEW r \in Reqs, RevokeOld(r) \/ LogoutSave(r) PROVE Says(f, u)
  <2>1. PICK S1 : S1 = [Idle EXCEPT !.pc = "answer", !.tok = req[r].tok, !.new = req[r].new]
    OBVIOUS
  <2>2. PICK S2 : S2 = [Idle EXCEPT !.pc = "ack", !.tok = req[r].tok]
    OBVIOUS
  <2>3. S1.snap = NoRow /\ S2.snap = NoRow
    BY <2>1, <2>2 DEF Idle
  <2>4. req' = [req EXCEPT ![r] = S1] \/ req' = [req EXCEPT ![r] = S2]
    BY <1>6, <2>1, <2>2 DEF RevokeOld, FinishRotation, LogoutSave
  <2> QED BY <1>1, <2>3, <2>4
<1>7. ASSUME NEW r \in Reqs,
             Answer(r) \/ RevokeFamily(r) \/ Ack(r) \/ ForeignKeyError(r) \/ Fail(r)
      PROVE  Says(f, u)
  <2>1. req' = [req EXCEPT ![r] = Idle]
    BY <1>7 DEF Answer, RevokeFamily, RevokeTokenFamily, Ack, ForeignKeyError, Fail
  <2>2. Idle.snap = NoRow
    BY DEF Idle
  <2> QED BY <1>1, <2>1, <2>2
<1>8. ASSUME \/ \E v \in Users : RevokeAllUserTokens(v) \/ RemoveUser(v)
             \/ CleanupExpiredTokens \/ Tick \/ UNCHANGED vars
      PROVE  Says(f, u)
  <2>1. req' = req
    BY <1>8 DEF RevokeAllUserTokens, RemoveUser, CleanupExpiredTokens, Tick, vars
  <2> QED BY <2>1 DEF Says, SnapSays
<1> QED BY <1>2, <1>3, <1>4, <1>5, <1>6, <1>7, <1>8 DEF Next, Step

LEMMA FamilyStep ==
    ASSUME Typed, FamilyInv, [Next]_vars PROVE FamilyInv'
<1>1. CASE ~ \E r \in Reqs : InsertToken(r)
  <2>1. minted' = minted
    BY <1>1, HistoryStep
  <2>2. \A f \in Tokens, u \in Users : Says(f, u)' => Says(f, u)
    BY <1>1, RowsSayNothingNew, SnapsSayNothingNew DEF Says
  <2> QED BY <2>1, <2>2 DEF FamilyInv
<1>2. ASSUME NEW r \in Reqs, InsertToken(r) PROVE FamilyInv'
  <2>1. PICK c \in Tokens \ minted :
          /\ minted' = minted \cup {c}
          /\ row' = [row EXCEPT ![c] = [user |-> req[r].user, family |-> FamilyFor(req[r], c),
                                        exp |-> req[r].exp, revoked |-> FALSE,
                                        replaced |-> NoToken]]
    BY <1>2 DEF InsertToken
  <2>2. ASSUME NEW f \in Tokens, NEW u \in Users, Says(f, u)'
        PROVE  Says(f, u) \/ (f = c /\ u = req[r].user)
    <3>1. CASE \E q \in Reqs : SnapSays(q, f, u)'
      BY <3>1, SnapsSayNothingNew
    <3>2. ASSUME NEW t \in Tokens, RowSays(t, f, u)' PROVE Says(f, u) \/ (f = c /\ u = req[r].user)
      <4>1. CASE t # c
        BY <2>1, <3>2, <4>1 DEF Says, RowSays, Stored, Typed, TypeOK
      <4>2. CASE t = c
        <5>1. f = FamilyFor(req[r], c) /\ u = req[r].user
          BY <2>1, <3>2, <4>2 DEF RowSays, Typed, TypeOK
        <5>2. req[r].tok # NoToken => req[r].snap \in Row /\ req[r].user = req[r].snap.user
          BY <1>2 DEF InsertToken, Typed, SlotShape, Shaped
        <5> QED BY <5>1, <5>2, NoRowAssumption DEF FamilyFor, Says, SnapSays
      <4> QED BY <4>1, <4>2
    <3> QED BY <2>2, <3>1, <3>2 DEF Says
  <2>3. \A u \in Users : ~ Says(c, u)
    BY <2>1 DEF FamilyInv
  <2> QED BY <2>1, <2>2, <2>3 DEF FamilyInv
<1> QED BY <1>1, <1>2

\* All rows of a family belong to one user: a deleted row that a slower request
\* saves back has the user it was read with.
THEOREM FamilyTheorem == Spec => []FamilyHasOneUser
<1>1. Init => FamilyInv
  BY DEF Init, FamilyInv, Says, RowSays, SnapSays, Stored, Idle
<1>2. Typed /\ FamilyInv /\ [Next]_vars => FamilyInv'
  BY FamilyStep
<1>3. Typed /\ FamilyInv => FamilyHasOneUser
  <2> SUFFICES ASSUME Typed, FamilyInv, NEW t1 \in Tokens, NEW t2 \in Tokens,
                      Stored(t1), Stored(t2), row[t1].family = row[t2].family
               PROVE  row[t1].user = row[t2].user
    BY DEF FamilyHasOneUser
  <2>1. row[t1] \in Row /\ row[t2] \in Row
    BY DEF Stored, Typed, TypeOK
  <2>2. /\ row[t1].family \in Tokens /\ row[t1].user \in Users /\ row[t2].user \in Users
    BY <2>1 DEF Row
  <2>3. Says(row[t1].family, row[t1].user) /\ Says(row[t1].family, row[t2].user)
    BY DEF Says, RowSays
  <2> QED BY <2>2, <2>3 DEF FamilyInv
<1> QED BY <1>1, <1>2, <1>3, AlwaysTyped, PTL DEF Spec

=============================================================================
