--------------------------- MODULE AccountsProofs ---------------------------
(***************************************************************************)
(* Proofs about Accounts, for any number of users, addresses, passwords    *)
(* and requests.                                                           *)
(***************************************************************************)
EXTENDS Accounts, TLAPS

\* What a handler holds at each await.
Shaped(S) ==
    /\ S.pc \in {"check", "insert"} => S.dto \in Dto
    /\ S.pc \in {"find", "select", "write"} => S.id \in Ids /\ S.dto \in PartialDto
    /\ S.pc = "select" => S.ent \in Account
    /\ S.pc = "write" => S.ent \in Entity
    /\ S.pc \in {"findToRemove", "delete"} => S.id \in Ids
SlotShape == \A h \in Handlers : Shaped(slot[h])

Typed == TypeOK /\ SlotShape

-----------------------------------------------------------------------------
(* Types *)

LEMMA SlotOf ==
    ASSUME NEW pc \in {"idle", "check", "insert", "find", "select", "write", "findToRemove", "delete"},
           NEW id \in Ids \cup {None}, NEW dto \in PartialDto \cup {None},
           NEW ent \in Entity \cup {None}, NEW seen \in Account \cup {None}
    PROVE  [pc |-> pc, id |-> id, dto |-> dto, ent |-> ent, seen |-> seen] \in Slot
BY DEF Slot

LEMMA IdleIsSlot == Idle \in Slot /\ Shaped(Idle)
BY SlotOf DEF Idle, Shaped

LEMMA DtoIsPartial == Dto \subseteq PartialDto
BY DEF Dto, PartialDto

LEMMA Hashing == ASSUME NEW dto \in Dto
                 PROVE  [dto EXCEPT !.password = Hash(@)] \in Account
BY DEF Dto, Account

LEMMA AccountIsEntity == Account \subseteq Entity
BY DEF Account, Entity

LEMMA MergedIsEntity ==
    ASSUME NEW ent \in Account, NEW dto \in PartialDto PROVE Merged(ent, dto) \in Entity
<1>1. ent.email \in Emails /\ ent.password \in {Hash(p) : p \in Passwords}
  BY DEF Account
<1>2. dto.email \in Emails \cup {None, Null} /\ dto.password \in Passwords \cup {None, Null}
  BY DEF PartialDto
<1> QED BY <1>1, <1>2 DEF Entity, Merged

LEMMA SavedIsAccount ==
    ASSUME NEW current \in Account \cup {None}, NEW ent \in Entity, NEW seen \in Account \cup {None},
           NEW i, Storable(i, seen, Saved(current, ent, seen))
    PROVE  Saved(current, ent, seen) \in Account \cup {None}
<1> DEFINE new == Saved(current, ent, seen)
<1>1. CASE new = None
  BY <1>1
<1>2. CASE seen = None /\ new # None
  <2>1. new = ent /\ new.email # Null /\ new.password # Null
    BY <1>2 DEF Saved, Storable, Columns
  <2> QED BY <2>1 DEF Entity, Account
<1>3. CASE seen # None /\ new # None
  <2>1. current \in Account /\ new = [c \in Columns |-> IF ent[c] # seen[c] THEN ent[c] ELSE current[c]]
    BY <1>3 DEF Saved
  <2>2. new.email # Null /\ new.password # Null
    BY <1>3 DEF Storable, Columns
  <2> QED BY <2>1, <2>2 DEF Entity, Account, Columns
<1> QED BY <1>1, <1>2, <1>3

\* A step that moves one handler.
LEMMA MoveSlot ==
    ASSUME Typed, NEW h \in Handlers, NEW S \in Slot, Shaped(S), slot' = [slot EXCEPT ![h] = S]
    PROVE  slot' \in [Handlers -> Slot] /\ SlotShape'
<1>1. \A g \in Handlers : slot'[g] = IF g = h THEN S ELSE slot[g]
  BY DEF Typed, TypeOK
<1>2. \A g \in Handlers : Shaped(slot'[g])
  BY <1>1 DEF Typed, SlotShape
<1>3. \A g \in Handlers : Shaped(slot[g])'
  BY <1>2 DEF Shaped
<1> QED BY <1>3 DEF Typed, TypeOK, SlotShape

LEMMA InitTyped == Init => Typed
<1> SUFFICES ASSUME Init PROVE Typed
  OBVIOUS
<1>1. PICK old \in [Ids -> Dto \cup {None}] :
        /\ row = [i \in Ids |-> IF old[i] = None THEN None ELSE [old[i] EXCEPT !.password = Hash(@)]]
        /\ told = [i \in Ids |-> IF old[i] = None THEN None ELSE old[i].password]
  BY DEF Init
<1>2. ASSUME NEW i \in Ids PROVE row[i] \in Account \cup {None} /\ told[i] \in Passwords \cup {None}
  <2>1. CASE old[i] = None
    BY <2>1, <1>1
  <2>2. CASE old[i] \in Dto /\ old[i] # None
    BY <2>2, <1>1, Hashing DEF Dto
  <2> QED BY <2>1, <2>2
<1>3. row \in [Ids -> Account \cup {None}] /\ told \in [Ids -> Passwords \cup {None}]
  BY <1>1, <1>2
<1>4. slot \in [Handlers -> Slot] /\ SlotShape
  BY IdleIsSlot DEF Init, SlotShape
<1> QED BY <1>3, <1>4, BoundAssumption DEF Init, Typed, TypeOK, Columns

\* A request that arrives.
LEMMA ReceiveTyped ==
    ASSUME Typed, NEW h \in Handlers, NEW S \in Slot, Shaped(S), Receive(h, S),
           UNCHANGED <<row, used, ghosts>>
    PROVE  Typed'
<1>1. slot' \in [Handlers -> Slot] /\ SlotShape'
  BY MoveSlot DEF Receive
<1>2. requests' \in 0 .. MaxRequests
  BY BoundAssumption DEF Receive, Typed, TypeOK
<1> QED BY <1>1, <1>2 DEF Typed, TypeOK, ghosts

LEMMA ArrivalsTyped ==
    ASSUME Typed, NEW h \in Handlers,
           \/ \E dto \in Dto : Register(h, dto) \/ Create(h, dto)
           \/ \E i \in Ids, dto \in PartialDto : Update(h, i, dto)
           \/ \E i \in Ids : Remove(h, i)
    PROVE  Typed'
<1>1. ASSUME NEW dto \in Dto, Register(h, dto) PROVE Typed'
  <2>1. PICK S : S = [Idle EXCEPT !.pc = "check", !.dto = dto]
    OBVIOUS
  <2>2. S = [pc |-> "check", id |-> None, dto |-> dto, ent |-> None, seen |-> None]
    BY <2>1 DEF Idle
  <2>3. S \in Slot /\ Shaped(S)
    BY <2>2, SlotOf, DtoIsPartial DEF Shaped
  <2> QED BY <1>1, <2>1, <2>3, ReceiveTyped DEF Register
<1>2. ASSUME NEW dto \in Dto, Create(h, dto) PROVE Typed'
  <2>1. PICK S : S = [Idle EXCEPT !.pc = "insert", !.dto = dto]
    OBVIOUS
  <2>2. S = [pc |-> "insert", id |-> None, dto |-> dto, ent |-> None, seen |-> None]
    BY <2>1 DEF Idle
  <2>3. S \in Slot /\ Shaped(S)
    BY <2>2, SlotOf, DtoIsPartial DEF Shaped
  <2> QED BY <1>2, <2>1, <2>3, ReceiveTyped DEF Create
<1>3. ASSUME NEW i \in Ids, NEW dto \in PartialDto, Update(h, i, dto) PROVE Typed'
  <2>1. PICK S : S = [Idle EXCEPT !.pc = "find", !.id = i, !.dto = dto]
    OBVIOUS
  <2>2. S = [pc |-> "find", id |-> i, dto |-> dto, ent |-> None, seen |-> None]
    BY <2>1 DEF Idle
  <2>3. S \in Slot /\ Shaped(S)
    BY <2>2, SlotOf DEF Shaped
  <2> QED BY <1>3, <2>1, <2>3, ReceiveTyped DEF Update
<1>4. ASSUME NEW i \in Ids, Remove(h, i) PROVE Typed'
  <2>1. PICK S : S = [Idle EXCEPT !.pc = "findToRemove", !.id = i]
    OBVIOUS
  <2>2. S = [pc |-> "findToRemove", id |-> i, dto |-> None, ent |-> None, seen |-> None]
    BY <2>1 DEF Idle
  <2>3. S \in Slot /\ Shaped(S)
    BY <2>2, SlotOf DEF Shaped
  <2> QED BY <1>4, <2>1, <2>3, ReceiveTyped DEF Remove
<1> QED BY <1>1, <1>2, <1>3, <1>4

\* The steps that end a request or move it to its next await, and touch no row.
LEMMA MovesTyped ==
    ASSUME Typed, NEW h \in Handlers,
           \/ CheckEmail(h) \/ InsertConflicts(h) \/ FindOne(h) \/ Select(h)
           \/ WriteFails(h) \/ FindToRemove(h) \/ DeleteFails(h)
    PROVE  Typed'
<1>1. slot[h] \in Slot /\ Shaped(slot[h])
  BY DEF Typed, TypeOK, SlotShape
<1>2. PICK S \in Slot : Shaped(S) /\ slot' = [slot EXCEPT ![h] = S]
  <2>1. CASE slot' = [slot EXCEPT ![h] = Idle]
    BY <2>1, IdleIsSlot
  <2>2. CASE CheckEmail(h) /\ Goto(h, "insert")
    <3>1. PICK S : S = [slot[h] EXCEPT !.pc = "insert"]
      OBVIOUS
    <3>2. S \in Slot /\ Shaped(S)
      BY <1>1, <2>2, <3>1 DEF Slot, Shaped, CheckEmail, At
    <3> QED BY <2>2, <3>1, <3>2 DEF Goto
  <2>3. CASE FindToRemove(h) /\ Goto(h, "delete")
    <3>1. PICK S : S = [slot[h] EXCEPT !.pc = "delete"]
      OBVIOUS
    <3>2. S \in Slot /\ Shaped(S)
      BY <1>1, <2>3, <3>1 DEF Slot, Shaped, FindToRemove, At
    <3> QED BY <2>3, <3>1, <3>2 DEF Goto
  <2>4. CASE /\ FindOne(h) /\ row[slot[h].id] # None
             /\ slot' = [slot EXCEPT ![h] = [@ EXCEPT !.pc = "select", !.ent = row[slot[h].id]]]
    <3>1. PICK S : S = [slot[h] EXCEPT !.pc = "select", !.ent = row[slot[h].id]]
      OBVIOUS
    <3>2. row[slot[h].id] \in Account
      BY <1>1, <2>4 DEF Typed, TypeOK, Shaped, FindOne, At
    <3>3. S \in Slot /\ Shaped(S)
      BY <1>1, <2>4, <3>1, <3>2, AccountIsEntity DEF Slot, Shaped, FindOne, At
    <3> QED BY <2>4, <3>1, <3>3
  <2>5. CASE Select(h)
    <3> DEFINE ent == Merged(slot[h].ent, slot[h].dto)
               seen == row[slot[h].id]
    <3>1. PICK S : S = [slot[h] EXCEPT !.pc = "write", !.ent = ent, !.seen = seen]
      OBVIOUS
    <3>2. ent \in Entity /\ seen \in Account \cup {None}
      BY <1>1, <2>5, MergedIsEntity DEF Typed, TypeOK, Shaped, Select, At
    <3>3. slot' = [slot EXCEPT ![h] = S]
      BY <2>5, <3>1 DEF Select
    <3> HIDE DEF ent, seen
    <3>4. S \in Slot /\ Shaped(S)
      BY <1>1, <2>5, <3>1, <3>2 DEF Slot, Shaped, Select, At
    <3> QED BY <3>3, <3>4
  <2> QED BY <2>1, <2>2, <2>3, <2>4, <2>5
        DEF CheckEmail, InsertConflicts, FindOne, WriteFails, FindToRemove, DeleteFails, Answer
<1>3. slot' \in [Handlers -> Slot] /\ SlotShape'
  BY <1>2, MoveSlot
<1>4. mixed' \subseteq Ids /\ missed' \in [Handlers -> SUBSET Columns]
  BY <1>1 DEF Typed, TypeOK, Shaped, At, CheckEmail, InsertConflicts, FindOne, Select,
              WriteFails, FindToRemove, DeleteFails, ghosts
<1>5. UNCHANGED <<row, used, requests, told>>
  BY DEF CheckEmail, InsertConflicts, FindOne, Select, WriteFails, FindToRemove, DeleteFails, ghosts
<1> QED BY <1>3, <1>4, <1>5 DEF Typed, TypeOK

LEMMA NoteTyped ==
    ASSUME Typed, NEW h \in Handlers, Note(h) PROVE missed' \in [Handlers -> SUBSET Columns]
<1>1. \A i : Changed(i) \subseteq Columns
  BY DEF Changed
<1> QED BY <1>1 DEF Note, Typed, TypeOK

\* The steps that write a row, and end their request.
LEMMA WritesTyped ==
    ASSUME Typed, NEW h \in Handlers, (\E i \in Ids : Insert(h, i)) \/ Write(h) \/ Delete(h)
    PROVE  Typed'
<1>1. slot[h] \in Slot /\ Shaped(slot[h])
  BY DEF Typed, TypeOK, SlotShape
<1>2. slot' \in [Handlers -> Slot] /\ SlotShape'
  BY IdleIsSlot, MoveSlot DEF Insert, Write, Delete, Answer
<1>a. missed' \in [Handlers -> SUBSET Columns]
  BY NoteTyped DEF Insert, Write, Delete
<1>3. CASE \E i \in Ids : Insert(h, i)
  <2>1. PICK i \in Ids : Insert(h, i)
    BY <1>3
  <2>2. slot[h].dto \in Dto
    BY <1>1, <2>1 DEF Insert, At, Shaped
  <2>3. slot[h].dto.password \in Passwords
    BY <2>2 DEF Dto
  <2> QED BY <1>2, <1>a, <2>1, <2>2, <2>3, Hashing DEF Insert, Typed, TypeOK
<1>4. CASE Write(h)
  <2>1. Saved(row[slot[h].id], slot[h].ent, slot[h].seen) \in Account \cup {None}
    BY <1>1, <1>4, SavedIsAccount DEF Typed, TypeOK, Slot, Shaped, Write, At
  <2>2. slot[h].dto.password \in Passwords \cup {None, Null}
    BY <1>1, <1>4 DEF Write, At, Shaped, PartialDto
  <2> QED BY <1>2, <1>4, <1>a, <2>1, <2>2 DEF Write, Typed, TypeOK
<1>5. CASE Delete(h)
  BY <1>2, <1>5, <1>a DEF Delete, Typed, TypeOK
<1> QED BY <1>3, <1>4, <1>5

LEMMA NextTyped == Typed /\ [Next]_vars => Typed'
<1> SUFFICES ASSUME Typed, [Next]_vars PROVE Typed'
  OBVIOUS
<1>1. CASE UNCHANGED vars
  BY <1>1 DEF vars, Typed, TypeOK, SlotShape, Shaped
<1>2. CASE Next
  BY <1>2, ArrivalsTyped, MovesTyped, WritesTyped DEF Next
<1> QED BY <1>1, <1>2

LEMMA AlwaysTyped == Spec => []Typed
BY InitTyped, NextTyped, PTL DEF Spec

\* Every variable keeps its type: no path stores a password that was not hashed.
THEOREM TypeCorrect == Spec => []TypeOK
<1>1. Typed => TypeOK
  BY DEF Typed
<1> QED BY AlwaysTyped, <1>1, PTL

-----------------------------------------------------------------------------
(* Removal *)

\* A removed user stays removed once the updates that had read it are over:
\* update starts with findOne (line 42 of users.service.ts), so only one that
\* began before the removal can bring the user back.
THEOREM RemovalTheorem == Spec => RemovalIsFinal
<1> DEFINE Final == \A i \in Ids : Gone(i) => Gone(i)'
<1>1. Typed /\ Next => Final
  <2> SUFFICES ASSUME Typed, Next, NEW i \in Ids, Gone(i) PROVE Gone(i)'
    OBVIOUS
  <2>1. i \in used /\ row[i] = None /\ \A h \in Handlers : ~ Updating(h, i)
    BY DEF Gone
  <2>3. ASSUME NEW h \in Handlers, NEW S, slot' = [slot EXCEPT ![h] = S],
               S.id = i => S.pc \notin {"select", "write"},
               row'[i] = None, i \in used'
        PROVE  Gone(i)'
    <3>1. \A g \in Handlers : slot'[g] = IF g = h THEN S ELSE slot[g]
      BY <2>3 DEF Typed, TypeOK
    <3>2. \A g \in Handlers : ~ Updating(g, i)'
      BY <2>1, <2>3, <3>1 DEF Updating
    <3> QED BY <2>3, <3>2 DEF Gone
  <2>4. PICK h \in Handlers :
          \/ \E dto \in Dto : Register(h, dto) \/ Create(h, dto)
          \/ \E j \in Ids : Insert(h, j) \/ Remove(h, j)
          \/ \E j \in Ids, dto \in PartialDto : Update(h, j, dto)
          \/ CheckEmail(h) \/ InsertConflicts(h)
          \/ FindOne(h) \/ Select(h) \/ Write(h) \/ WriteFails(h)
          \/ FindToRemove(h) \/ Delete(h) \/ DeleteFails(h)
    BY DEF Next
  <2>5. slot[h] \in Slot /\ Shaped(slot[h])
    BY DEF Typed, TypeOK, SlotShape
  <2>6. CASE \/ \E dto \in Dto : Register(h, dto) \/ Create(h, dto)
             \/ \E j \in Ids : Remove(h, j)
             \/ \E j \in Ids, dto \in PartialDto : Update(h, j, dto)
    <3>1. ASSUME NEW S, Receive(h, S), S.pc \in {"check", "insert", "find", "findToRemove"},
                 UNCHANGED <<row, used>>
          PROVE  Gone(i)'
      BY <2>1, <2>3, <3>1 DEF Receive
    <3>2. ASSUME NEW dto \in Dto, Register(h, dto) PROVE Gone(i)'
      BY <3>1, <3>2 DEF Register, Idle
    <3>3. ASSUME NEW dto \in Dto, Create(h, dto) PROVE Gone(i)'
      BY <3>1, <3>3 DEF Create, Idle
    <3>4. ASSUME NEW j \in Ids, Remove(h, j) PROVE Gone(i)'
      BY <3>1, <3>4 DEF Remove, Idle
    <3>5. ASSUME NEW j \in Ids, NEW dto \in PartialDto, Update(h, j, dto) PROVE Gone(i)'
      BY <3>1, <3>5 DEF Update, Idle
    <3> QED BY <2>6, <3>2, <3>3, <3>4, <3>5
  <2>7. CASE slot' = [slot EXCEPT ![h] = Idle] /\ UNCHANGED <<row, used>>
    BY <2>1, <2>3, <2>7 DEF Idle
  <2>8. CASE \/ CheckEmail(h) /\ Goto(h, "insert")
             \/ FindToRemove(h) /\ Goto(h, "delete")
    <3>1. PICK S : S = [slot[h] EXCEPT !.pc = IF At(h, "check") THEN "insert" ELSE "delete"]
      OBVIOUS
    <3>2. slot' = [slot EXCEPT ![h] = S] /\ UNCHANGED <<row, used>>
      BY <2>8, <3>1 DEF CheckEmail, FindToRemove, Goto, At
    <3>3. S.pc \in {"insert", "delete"}
      BY <2>5, <3>1 DEF Slot
    <3> QED BY <2>1, <2>3, <3>2, <3>3
  <2>9. CASE \/ /\ FindOne(h) /\ row[slot[h].id] # None
                /\ slot' = [slot EXCEPT ![h] = [@ EXCEPT !.pc = "select", !.ent = row[slot[h].id]]]
             \/ Select(h)
    <3>1. PICK S : S.id = slot[h].id /\ slot' = [slot EXCEPT ![h] = S]
      BY <2>5, <2>9 DEF Select, Slot
    <3>2. slot[h].id # i
      BY <2>1, <2>9 DEF Select, At, Updating
    <3>3. UNCHANGED <<row, used>>
      BY <2>9 DEF FindOne, Select
    <3> QED BY <2>1, <2>3, <3>1, <3>2, <3>3
  <2>10. CASE \E j \in Ids : Insert(h, j)
    <3>1. row'[i] = None /\ i \in used' /\ slot' = [slot EXCEPT ![h] = Idle]
      BY <2>1, <2>10 DEF Insert, Answer, Typed, TypeOK
    <3> QED BY <2>3, <3>1 DEF Idle
  <2>11. CASE Write(h)
    <3>1. slot[h].id # i
      BY <2>1, <2>11 DEF Write, At, Updating
    <3>2. row'[i] = None /\ i \in used' /\ slot' = [slot EXCEPT ![h] = Idle]
      BY <2>1, <2>11, <3>1 DEF Write, Answer, Typed, TypeOK
    <3> QED BY <2>3, <3>2 DEF Idle
  <2>12. CASE Delete(h)
    <3>1. row'[i] = None /\ i \in used' /\ slot' = [slot EXCEPT ![h] = Idle]
      BY <2>1, <2>12 DEF Delete, Answer, Typed, TypeOK
    <3> QED BY <2>3, <3>1 DEF Idle
  <2> QED BY <2>4, <2>6, <2>7, <2>8, <2>9, <2>10, <2>11, <2>12
        DEF CheckEmail, InsertConflicts, FindOne, WriteFails, FindToRemove, DeleteFails, Answer
<1>2. Spec => [][Final]_vars
  BY AlwaysTyped, <1>1, PTL DEF Spec
<1> QED BY <1>2 DEF RemovalIsFinal

-----------------------------------------------------------------------------
(* Passwords *)

\* What an update carries of a user whose password last set is p: it will write
\* the password of its request, or the one that is there.
Carries(S, p) ==
    /\ S.pc = "select" => S.ent.password = Hash(p)
    /\ S.pc = "write" => /\ S.ent.password = IF S.dto.password = None THEN Hash(p)
                                             ELSE IF S.dto.password = Null THEN Null
                                             ELSE Hash(S.dto.password)
                         /\ S.seen # None => S.seen.password = Hash(p)

\* Only one update at a time has read a user who is not mixed.
PasswordInv ==
    \A i \in Ids \ mixed :
        /\ row[i] # None => row[i].password = Hash(told[i])
        /\ \A h \in Handlers : Updating(h, i) =>
              /\ Carries(slot[h], told[i])
              /\ \A g \in Handlers : Updating(g, i) => g = h

\* The id of a row, or of a row an update has read, was generated.
RowsAreUsed ==
    \A i \in Ids : row[i] # None \/ (\E h \in Handlers : Updating(h, i)) => i \in used
PInv == Typed /\ RowsAreUsed /\ PasswordInv

LEMMA InitPasswords == Init => PInv
<1> SUFFICES ASSUME Init PROVE PInv
  OBVIOUS
<1>1. \A h \in Handlers, i \in Ids : ~ Updating(h, i)
  BY DEF Init, Updating, Idle
<1>2. RowsAreUsed
  BY <1>1 DEF Init, RowsAreUsed
<1>3. ASSUME NEW i \in Ids, row[i] # None PROVE row[i].password = Hash(told[i])
  <2>1. PICK old \in [Ids -> Dto \cup {None}] :
          /\ row = [k \in Ids |-> IF old[k] = None THEN None ELSE [old[k] EXCEPT !.password = Hash(@)]]
          /\ told = [k \in Ids |-> IF old[k] = None THEN None ELSE old[k].password]
    BY DEF Init
  <2>2. old[i] # None /\ row[i] = [old[i] EXCEPT !.password = Hash(@)] /\ told[i] = old[i].password
    BY <1>3, <2>1
  <2>3. old[i] \in Dto
    BY <2>2
  <2> QED BY <2>2, <2>3 DEF Dto
<1> QED BY <1>1, <1>2, <1>3, InitTyped DEF PInv, PasswordInv

\* Steps that write no password, end or start no update in its middle.
LEMMA QuietKeeps ==
    ASSUME PInv, UNCHANGED <<told, mixed, used>>,
           \A i \in Ids : row'[i] \in {row[i], None},
           \A g \in Handlers, i \in Ids : Updating(g, i)' => Updating(g, i) /\ slot'[g] = slot[g]
    PROVE  PasswordInv' /\ RowsAreUsed'
BY DEF PInv, PasswordInv, RowsAreUsed, Carries

\* A handler that is not in the middle of an update after the step.
LEMMA QuietSlot ==
    ASSUME PInv, NEW h \in Handlers, NEW S, slot' = [slot EXCEPT ![h] = S],
           S.pc \notin {"select", "write"}
    PROVE  \A g \in Handlers, i \in Ids : Updating(g, i)' => Updating(g, i) /\ slot'[g] = slot[g]
BY DEF PInv, Typed, TypeOK, Updating

LEMMA InsertKeeps ==
    ASSUME PInv, NEW h \in Handlers, NEW i \in Ids, Insert(h, i) PROVE PasswordInv' /\ RowsAreUsed'
<1>1. slot[h].dto \in Dto
  BY DEF PInv, Typed, SlotShape, Shaped, Insert, At
<1>2. slot' = [slot EXCEPT ![h] = Idle] /\ i \notin used /\ mixed' = mixed /\ used' = used \cup {i}
  BY DEF Insert, Answer
<1>3. \A g \in Handlers, j \in Ids : Updating(g, j)' => Updating(g, j) /\ slot'[g] = slot[g]
  BY <1>2, QuietSlot DEF Idle
<1>4. row'[i].password = Hash(told'[i])
  BY <1>1 DEF Insert, Dto, PInv, Typed, TypeOK
<1>5. \A j \in Ids \ {i} : row'[j] = row[j] /\ told'[j] = told[j]
  BY DEF Insert, PInv, Typed, TypeOK
<1>6. RowsAreUsed'
  BY <1>2, <1>3, <1>5 DEF PInv, RowsAreUsed
<1>7. ASSUME NEW j \in Ids \ mixed' 
      PROVE  /\ row'[j] # None => row'[j].password = Hash(told'[j])
             /\ \A f \in Handlers : Updating(f, j)' =>
                  /\ Carries(slot[f], told[j])'
                  /\ \A g \in Handlers : Updating(g, j)' => g = f
  <2>1. CASE j = i
    <3>1. \A g \in Handlers : ~ Updating(g, j)'
      BY <1>2, <1>3, <2>1 DEF PInv, RowsAreUsed
    <3> QED BY <1>4, <2>1, <3>1
  <2>2. CASE j # i
    BY <1>2, <1>3, <1>5, <1>7, <2>2 DEF PInv, PasswordInv, Carries
  <2> QED BY <2>1, <2>2
<1> QED BY <1>6, <1>7 DEF PasswordInv

LEMMA FindOneKeeps ==
    ASSUME PInv, NEW h \in Handlers, FindOne(h), row[slot[h].id] # None,
           slot' = [slot EXCEPT ![h] = [@ EXCEPT !.pc = "select", !.ent = row[slot[h].id]]],
           mixed' = IF \E g \in Handlers : Updating(g, slot[h].id)
                    THEN mixed \cup {slot[h].id} ELSE mixed
    PROVE  PasswordInv' /\ RowsAreUsed'
<1>1. slot[h].id \in Ids /\ slot[h] \in Slot /\ UNCHANGED <<row, used, told>>
  BY DEF PInv, Typed, TypeOK, SlotShape, Shaped, FindOne, At
<1>2. PICK S : S = [slot[h] EXCEPT !.pc = "select", !.ent = row[slot[h].id]]
  OBVIOUS
<1>3. S.id = slot[h].id /\ S.pc = "select" /\ S.ent = row[slot[h].id]
  BY <1>1, <1>2 DEF Slot
<1>4. \A g \in Handlers : slot'[g] = IF g = h THEN S ELSE slot[g]
  BY <1>2 DEF PInv, Typed, TypeOK
<1>5. RowsAreUsed'
  <2>1. \A g \in Handlers, j \in Ids : Updating(g, j)' => Updating(g, j) \/ j = slot[h].id
    BY <1>3, <1>4 DEF Updating
  <2> QED BY <1>1, <2>1 DEF PInv, RowsAreUsed
<1>6. ASSUME NEW j \in Ids \ mixed'
      PROVE  /\ row'[j] # None => row'[j].password = Hash(told'[j])
             /\ \A f \in Handlers : Updating(f, j)' =>
                  /\ Carries(slot[f], told[j])'
                  /\ \A g \in Handlers : Updating(g, j)' => g = f
  <2>1. j \notin mixed
    BY <1>6
  <2>2. CASE j = slot[h].id
    <3>1. \A g \in Handlers : ~ Updating(g, j)
      BY <1>6, <2>2
    <3>2. \A g \in Handlers : Updating(g, j)' => g = h
      BY <1>4, <3>1 DEF Updating
    <3>3. Carries(slot[h], told[j])'
      BY <1>1, <1>3, <1>4, <2>1, <2>2 DEF PInv, PasswordInv, Carries
    <3> QED BY <1>1, <2>1, <3>2, <3>3 DEF PInv, PasswordInv
  <2>3. CASE j # slot[h].id
    <3>1. \A g \in Handlers : Updating(g, j)' => Updating(g, j) /\ slot'[g] = slot[g]
      BY <1>3, <1>4, <2>3 DEF Updating
    <3>2. row'[j] # None => row'[j].password = Hash(told'[j])
      BY <1>1, <2>1 DEF PInv, PasswordInv
    <3>3. ASSUME NEW f \in Handlers, Updating(f, j)'
          PROVE  Carries(slot[f], told[j])' /\ \A g \in Handlers : Updating(g, j)' => g = f
      <4>1. Updating(f, j) /\ slot'[f] = slot[f]
        BY <3>1, <3>3
      <4>2. Carries(slot[f], told[j]) /\ \A g \in Handlers : Updating(g, j) => g = f
        BY <2>1, <4>1 DEF PInv, PasswordInv
      <4>3. Carries(slot[f], told[j])'
        BY <1>1, <4>1, <4>2 DEF Carries
      <4> QED BY <3>1, <4>2, <4>3
    <3> QED BY <3>2, <3>3
  <2> QED BY <2>2, <2>3
<1> QED BY <1>5, <1>6 DEF PasswordInv

LEMMA SelectKeeps ==
    ASSUME PInv, NEW h \in Handlers, Select(h) PROVE PasswordInv' /\ RowsAreUsed'
<1> DEFINE ent == Merged(slot[h].ent, slot[h].dto)
           seen == row[slot[h].id]
<1>1. /\ slot[h].id \in Ids /\ slot[h].dto \in PartialDto /\ slot[h].ent \in Account
      /\ slot[h] \in Slot /\ UNCHANGED <<row, used, told, mixed>>
  BY DEF PInv, Typed, TypeOK, SlotShape, Shaped, Select, At, ghosts
<1>2. PICK S : S = [slot[h] EXCEPT !.pc = "write", !.ent = ent, !.seen = seen]
  OBVIOUS
<1>3. S.id = slot[h].id /\ S.dto = slot[h].dto /\ S.pc = "write" /\ S.ent = ent /\ S.seen = seen
  BY <1>1, <1>2 DEF Slot
<1>4. \A g \in Handlers : slot'[g] = IF g = h THEN S ELSE slot[g]
  BY <1>2 DEF PInv, Typed, TypeOK, Select
<1>5. ent.password = IF slot[h].dto.password = None THEN slot[h].ent.password
                     ELSE IF slot[h].dto.password = Null THEN Null ELSE Hash(slot[h].dto.password)
  BY DEF Merged
<1>6. RowsAreUsed'
  <2>1. \A g \in Handlers, j \in Ids : Updating(g, j)' => Updating(g, j)
    BY <1>3, <1>4 DEF Updating, Select, At
  <2> QED BY <1>1, <2>1 DEF PInv, RowsAreUsed
<1> HIDE DEF ent
<1>7. ASSUME NEW j \in Ids \ mixed
      PROVE  /\ row'[j] # None => row'[j].password = Hash(told'[j])
             /\ \A f \in Handlers : Updating(f, j)' =>
                  /\ Carries(slot[f], told[j])'
                  /\ \A g \in Handlers : Updating(g, j)' => g = f
  <2>1. \A g \in Handlers : Updating(g, j)' => Updating(g, j)
    BY <1>3, <1>4 DEF Updating, Select, At
  <2>2. ASSUME slot[h].id = j PROVE Carries(slot[h], told[j])'
    <3>1. Updating(h, j) /\ slot[h].pc = "select"
      BY <2>2 DEF Updating, Select, At
    <3>2. slot[h].ent.password = Hash(told[j]) /\ (row[j] # None => row[j].password = Hash(told[j]))
      BY <3>1 DEF PInv, PasswordInv, Carries
    <3> QED BY <1>1, <1>3, <1>4, <1>5, <2>2, <3>2 DEF Carries
  <2>3. \A g \in Handlers \ {h} : slot'[g] = slot[g]
    BY <1>4
  <2>4. \A f \in Handlers : Updating(f, j)' => Carries(slot[f], told[j])'
    BY <1>1, <1>3, <1>4, <2>1, <2>2, <2>3 DEF PInv, PasswordInv, Updating, Carries
  <2> QED BY <1>1, <2>1, <2>4 DEF PInv, PasswordInv
<1> QED BY <1>1, <1>6, <1>7 DEF PasswordInv

LEMMA WriteKeeps ==
    ASSUME PInv, NEW h \in Handlers, Write(h) PROVE PasswordInv' /\ RowsAreUsed'
<1> DEFINE i == slot[h].id
           cur == row[i]
           ent == slot[h].ent
           seen == slot[h].seen
           new == Saved(cur, ent, seen)
<1>1. i \in Ids /\ slot[h].dto \in PartialDto /\ ent \in Entity /\ slot[h] \in Slot
      /\ cur \in Account \cup {None} /\ seen \in Account \cup {None}
  BY DEF PInv, Typed, TypeOK, SlotShape, Shaped, Write, At, Slot
<1>2. slot' = [slot EXCEPT ![h] = Idle] /\ UNCHANGED <<used, mixed>>
  BY DEF Write, Answer
<1>3. \A g \in Handlers, j \in Ids : Updating(g, j)' => Updating(g, j) /\ slot'[g] = slot[g] /\ g # h
  <2>1. \A g \in Handlers : slot'[g] = IF g = h THEN Idle ELSE slot[g]
    BY <1>2 DEF PInv, Typed, TypeOK
  <2> QED BY <2>1 DEF Updating, Idle
<1>4. \A j \in Ids \ {i} : row'[j] = row[j] /\ told'[j] = told[j]
  BY DEF Write, PInv, Typed, TypeOK
<1>5. row'[i] = new /\ told'[i] = IF slot[h].dto.password \in {None, Null} THEN told[i]
                                         ELSE slot[h].dto.password
  BY <1>1 DEF Write, PInv, Typed, TypeOK
<1>6. Updating(h, i)
  BY DEF Updating, Write, At
<1>7. ASSUME i \notin mixed, new # None PROVE new.password = Hash(told'[i])
  <2>1. /\ ent.password = IF slot[h].dto.password = Null THEN Null ELSE Hash(told'[i])
        /\ seen # None => seen.password = Hash(told[i])
        /\ cur # None => cur.password = Hash(told[i])
    BY <1>1, <1>5, <1>6, <1>7, NoneAssumption DEF PInv, PasswordInv, Carries, Write, At
  <2>a. new.password # Null
    BY <1>7 DEF Write, Storable, Columns
  <2>b. told'[i] = told[i] \/ ent.password = Hash(told'[i])
    BY <1>5, <2>1
  <2>2. CASE seen = None
    BY <2>1, <2>2, <2>a DEF Saved
  <2>3. CASE seen # None
    <3>1. cur # None /\ new = [c \in Columns |-> IF ent[c] # seen[c] THEN ent[c] ELSE cur[c]]
      BY <1>7, <2>3 DEF Saved
    <3>2. new.password = IF ent.password # seen.password THEN ent.password ELSE cur.password
      BY <3>1 DEF Columns
    <3>3. CASE slot[h].dto.password = Null
      <4>1. seen.password \in {Hash(p) : p \in Passwords}
        BY <1>1, <2>3 DEF Account
      <4>2. ent.password # seen.password
        BY <2>1, <3>3, <4>1, NullAssumption DEF Hash
      <4> QED BY <2>1, <2>a, <3>2, <3>3, <4>2
    <3>4. CASE slot[h].dto.password # Null
      BY <2>1, <2>3, <2>b, <3>1, <3>2, <3>4
    <3> QED BY <3>3, <3>4
  <2> QED BY <2>2, <2>3
<1> HIDE DEF new
<1>8. RowsAreUsed'
  <2>1. i \in used
    BY <1>1, <1>6 DEF PInv, RowsAreUsed
  <2> QED BY <1>2, <1>3, <1>4, <2>1 DEF PInv, RowsAreUsed
<1>9. ASSUME NEW j \in Ids \ mixed
      PROVE  /\ row'[j] # None => row'[j].password = Hash(told'[j])
             /\ \A f \in Handlers : Updating(f, j)' =>
                  /\ Carries(slot[f], told[j])'
                  /\ \A g \in Handlers : Updating(g, j)' => g = f
  <2>1. CASE j = i
    <3>1. \A g \in Handlers : ~ Updating(g, j)'
      BY <1>3, <1>6, <1>9, <2>1 DEF PInv, PasswordInv
    <3> QED BY <1>5, <1>7, <1>9, <2>1, <3>1
  <2>2. CASE j # i
    BY <1>2, <1>3, <1>4, <1>9, <2>2 DEF PInv, PasswordInv, Carries
  <2> QED BY <2>1, <2>2
<1> QED BY <1>2, <1>8, <1>9 DEF PasswordInv

LEMMA PasswordsKept == PInv /\ [Next]_vars => PasswordInv' /\ RowsAreUsed'
<1> SUFFICES ASSUME PInv, [Next]_vars PROVE PasswordInv' /\ RowsAreUsed'
  OBVIOUS
<1>1. CASE UNCHANGED vars
  BY <1>1 DEF vars, ghosts, PInv, PasswordInv, RowsAreUsed, Carries, Updating
<1>2. CASE Next
  <2>1. PICK h \in Handlers :
          \/ \E dto \in Dto : Register(h, dto) \/ Create(h, dto)
          \/ \E i \in Ids : Insert(h, i) \/ Remove(h, i)
          \/ \E i \in Ids, dto \in PartialDto : Update(h, i, dto)
          \/ CheckEmail(h) \/ InsertConflicts(h)
          \/ FindOne(h) \/ Select(h) \/ Write(h) \/ WriteFails(h)
          \/ FindToRemove(h) \/ Delete(h) \/ DeleteFails(h)
    BY <1>2 DEF Next
  <2>2. slot[h] \in Slot
    BY DEF PInv, Typed, TypeOK
  <2>3. ASSUME NEW S, slot' = [slot EXCEPT ![h] = S], S.pc \notin {"select", "write"},
               UNCHANGED <<told, mixed, used>>, \A i \in Ids : row'[i] \in {row[i], None}
        PROVE  PasswordInv' /\ RowsAreUsed'
    BY <2>3, QuietSlot, QuietKeeps
  <2>4. CASE \/ \E dto \in Dto : Register(h, dto) \/ Create(h, dto)
             \/ \E i \in Ids : Remove(h, i)
             \/ \E i \in Ids, dto \in PartialDto : Update(h, i, dto)
    <3>1. PICK S : Receive(h, S) /\ S.pc \in {"check", "insert", "find", "findToRemove"}
                   /\ UNCHANGED <<row, used, ghosts>>
      BY <2>4 DEF Register, Create, Remove, Update, Idle
    <3> QED BY <2>3, <3>1 DEF Receive, ghosts
  <2>5. CASE Answer(h) /\ UNCHANGED <<row, used, told, mixed>>
    BY <2>3, <2>5 DEF Answer, Idle
  <2>6. CASE (CheckEmail(h) \/ FindToRemove(h)) /\ ~ Answer(h)
    <3>1. PICK pc \in {"insert", "delete"} : Goto(h, pc)
      BY <2>6 DEF CheckEmail, FindToRemove
    <3>2. PICK S : S = [slot[h] EXCEPT !.pc = pc]
      OBVIOUS
    <3>3. slot' = [slot EXCEPT ![h] = S] /\ S.pc = pc
      BY <2>2, <3>1, <3>2 DEF Goto, Slot
    <3>4. UNCHANGED <<row, used, told, mixed>>
      BY <2>6 DEF CheckEmail, FindToRemove, ghosts
    <3> QED BY <2>3, <3>3, <3>4
  <2>7. CASE FindOne(h)
    <3>1. CASE row[slot[h].id] = None
      BY <2>5, <2>7, <3>1 DEF FindOne, ghosts
    <3>2. CASE row[slot[h].id] # None
      BY <2>7, <3>2, FindOneKeeps DEF FindOne
    <3> QED BY <3>1, <3>2
  <2>8. CASE Delete(h)
    <3>1. \A i \in Ids : row'[i] \in {row[i], None}
      BY <2>8 DEF Delete, PInv, Typed, TypeOK
    <3> QED BY <2>3, <2>8, <3>1 DEF Delete, Answer, Idle, ghosts
  <2>9. CASE InsertConflicts(h) \/ WriteFails(h) \/ DeleteFails(h)
    BY <2>5, <2>9 DEF InsertConflicts, WriteFails, DeleteFails, ghosts
  <2>10. CASE (CheckEmail(h) \/ FindToRemove(h)) /\ Answer(h)
    BY <2>5, <2>10 DEF CheckEmail, FindToRemove, ghosts
  <2> QED BY <2>1, <2>4, <2>6, <2>7, <2>8, <2>9, <2>10, InsertKeeps, SelectKeeps, WriteKeeps
<1> QED BY <1>1, <1>2

\* The password last set for an account opens it, as long as no two updates of
\* it overlapped: update hashes what a request sets, writes back the hash it
\* read otherwise, and leaves the column alone when nobody changed it.
THEOREM PasswordTheorem == Spec => []PasswordSetOpensTheAccount
<1>1. Init => PInv
  BY InitPasswords
<1>2. PInv /\ [Next]_vars => PasswordInv' /\ RowsAreUsed'
  BY PasswordsKept
<1>3. PInv => PasswordSetOpensTheAccount
  BY DEF PInv, PasswordInv, PasswordSetOpensTheAccount, Matches
<1>4. PInv <=> Typed /\ RowsAreUsed /\ PasswordInv
  BY DEF PInv
<1> QED BY <1>1, <1>2, <1>3, <1>4, AlwaysTyped, PTL DEF Spec

-----------------------------------------------------------------------------
(* Stale saves *)

\* What an update m misses: every column in which the row it found differs from
\* the row that is there now, or that its SELECT saw.
Misses(S, m) ==
    /\ S.pc = "select" =>
          IF row[S.id] = None THEN m = Columns
          ELSE \A c \in Columns : row[S.id][c] # S.ent[c] => c \in m
    /\ S.pc = "write" =>
          IF S.seen = None THEN m = Columns
          ELSE \A c \in Columns : S.dto[c] = None /\ S.ent[c] # S.seen[c] => c \in m
MissInv == \A h \in Handlers : Misses(slot[h], missed[h])

\* A handler that does not move misses what the step changes.
LEMMA NoteKeeps ==
    ASSUME Typed, Typed', MissInv, NEW h \in Handlers, Note(h), Answer(h) PROVE MissInv'
<1> SUFFICES ASSUME NEW g \in Handlers PROVE Misses(slot[g], missed[g])'
  BY DEF MissInv
<1>1. slot' = [slot EXCEPT ![h] = Idle] /\ slot[g] \in Slot /\ Shaped(slot[g])
  BY DEF Answer, Typed, TypeOK, SlotShape
<1>2. CASE g = h
  <2>1. slot'[g] = Idle
    BY <1>1, <1>2 DEF Typed, TypeOK
  <2> QED BY <2>1 DEF Misses, Idle
<1>3. CASE g # h /\ At(g, "select")
  <2> DEFINE i == slot[g].id
  <2>1. slot'[g] = slot[g] /\ slot[g].pc = "select" /\ i \in Ids
    BY <1>1, <1>3 DEF Typed, TypeOK, At, Shaped
  <2>2. missed'[g] = missed[g] \cup Changed(i) /\ missed[g] \subseteq Columns /\ missed'[g] \subseteq Columns
    BY <1>3 DEF Note, Typed, TypeOK
  <2>3. IF row[i] = None THEN missed[g] = Columns
        ELSE \A c \in Columns : row[i][c] # slot[g].ent[c] => c \in missed[g]
    BY <2>1 DEF MissInv, Misses
  <2> HIDE DEF i
  <2>4. IF row'[i] = None THEN missed'[g] = Columns
        ELSE \A c \in Columns : row'[i][c] # slot[g].ent[c] => c \in missed'[g]
    <3>1. CASE row'[i] = row[i]
      BY <2>2, <2>3, <3>1
    <3>2. CASE row'[i] # row[i] /\ None \in {row[i], row'[i]}
      <4>1. Changed(i) = Columns
        BY <3>2 DEF Changed
      <4> QED BY <2>2, <4>1
    <3>3. CASE row'[i] # row[i] /\ None \notin {row[i], row'[i]}
      <4>1. Changed(i) = {c \in Columns : row'[i][c] # row[i][c]}
        BY <3>3 DEF Changed
      <4> QED BY <2>2, <2>3, <3>3, <4>1
    <3> QED BY <3>1, <3>2, <3>3
  <2> QED BY <2>1, <2>4 DEF Misses, i
<1>4. CASE g # h /\ ~ At(g, "select")
  <2>1. slot'[g] = slot[g] /\ missed'[g] = missed[g] /\ slot[g].pc # "select"
    BY <1>1, <1>4 DEF Note, Typed, TypeOK, At
  <2> QED BY <2>1 DEF MissInv, Misses
<1> QED BY <1>2, <1>3, <1>4

\* A step that changes no row.
LEMMA RowsStay ==
    ASSUME Typed, MissInv, NEW h \in Handlers, NEW S, slot' = [slot EXCEPT ![h] = S], row' = row,
           \A g \in Handlers \ {h} : missed'[g] = missed[g],
           Misses(S, missed'[h])
    PROVE  MissInv'
<1> SUFFICES ASSUME NEW g \in Handlers PROVE Misses(slot[g], missed[g])'
  BY DEF MissInv
<1>1. slot'[g] = IF g = h THEN S ELSE slot[g]
  BY DEF Typed, TypeOK
<1>2. Misses(slot'[g], missed'[g])
  BY <1>1 DEF MissInv
<1> QED BY <1>2 DEF Misses

LEMMA MissKept == Typed /\ Typed' /\ MissInv /\ [Next]_vars => MissInv'
<1> SUFFICES ASSUME Typed, Typed', MissInv, [Next]_vars PROVE MissInv'
  OBVIOUS
<1>1. CASE UNCHANGED vars
  BY <1>1 DEF vars, MissInv, Misses
<1>2. ASSUME NEW h \in Handlers, NEW S, slot' = [slot EXCEPT ![h] = S], row' = row,
             S.pc \notin {"select", "write"}, \A g \in Handlers \ {h} : missed'[g] = missed[g]
      PROVE  MissInv'
  BY <1>2, RowsStay DEF Misses
<1>3. ASSUME NEW h \in Handlers,
             \/ \E dto \in Dto : Register(h, dto) \/ Create(h, dto)
             \/ \E i \in Ids : Remove(h, i)
             \/ \E i \in Ids, dto \in PartialDto : Update(h, i, dto)
      PROVE  MissInv'
  <2>1. PICK S : Receive(h, S) /\ S.pc \in {"check", "insert", "find", "findToRemove"}
                 /\ UNCHANGED <<row, used, ghosts>>
    BY <1>3 DEF Register, Create, Remove, Update, Idle
  <2> QED BY <1>2, <2>1 DEF Receive, ghosts
<1>4. ASSUME NEW h \in Handlers, (\E i \in Ids : Insert(h, i)) \/ Write(h) \/ Delete(h)
      PROVE  MissInv'
  BY <1>4, NoteKeeps DEF Insert, Write, Delete
<1>5. ASSUME NEW h \in Handlers, Answer(h), row' = row, \A g \in Handlers \ {h} : missed'[g] = missed[g]
      PROVE  MissInv'
  BY <1>2, <1>5 DEF Answer, Idle
<1>6. ASSUME NEW h \in Handlers, CheckEmail(h) \/ FindToRemove(h), ~ Answer(h) PROVE MissInv'
  <2>1. PICK pc \in {"insert", "delete"} : Goto(h, pc)
    BY <1>6 DEF CheckEmail, FindToRemove
  <2>2. PICK S : S = [slot[h] EXCEPT !.pc = pc]
    OBVIOUS
  <2>3. slot' = [slot EXCEPT ![h] = S] /\ S.pc = pc
    BY <2>1, <2>2 DEF Goto, Slot, Typed, TypeOK
  <2> QED BY <1>2, <1>6, <2>3 DEF CheckEmail, FindToRemove, ghosts
<1>7. ASSUME NEW h \in Handlers, FindOne(h), ~ Answer(h) PROVE MissInv'
  <2>1. PICK S : S = [slot[h] EXCEPT !.pc = "select", !.ent = row[slot[h].id]]
    OBVIOUS
  <2>2. S.id = slot[h].id /\ S.pc = "select" /\ S.ent = row[S.id]
    BY <2>1 DEF Slot, Typed, TypeOK
  <2>3. slot' = [slot EXCEPT ![h] = S] /\ row[S.id] # None /\ row' = row /\ missed' = missed
    BY <1>7, <2>1, <2>2 DEF FindOne
  <2>4. Misses(S, missed'[h])
    BY <2>2, <2>3 DEF Misses
  <2> QED BY <2>3, <2>4, RowsStay
<1>8. ASSUME NEW h \in Handlers, Select(h) PROVE MissInv'
  <2> DEFINE ent == Merged(slot[h].ent, slot[h].dto)
             seen == row[slot[h].id]
  <2>1. PICK S : S = [slot[h] EXCEPT !.pc = "write", !.ent = ent, !.seen = seen]
    OBVIOUS
  <2>2. S.pc = "write" /\ S.dto = slot[h].dto /\ S.ent = ent /\ S.seen = seen
    BY <2>1 DEF Slot, Typed, TypeOK
  <2>3. slot' = [slot EXCEPT ![h] = S] /\ row' = row /\ missed' = missed /\ slot[h].pc = "select"
    BY <1>8, <2>1 DEF Select, ghosts, At
  <2>4. \A c \in Columns : slot[h].dto[c] = None => ent[c] = slot[h].ent[c]
    BY DEF Merged, Columns
  <2>5. IF seen = None THEN missed[h] = Columns
        ELSE \A c \in Columns : seen[c] # slot[h].ent[c] => c \in missed[h]
    BY <2>3 DEF MissInv, Misses
  <2> HIDE DEF ent, seen
  <2>6. Misses(S, missed'[h])
    BY <2>2, <2>3, <2>4, <2>5 DEF Misses
  <2> QED BY <2>3, <2>6, RowsStay
<1>9. ASSUME NEW h \in Handlers, InsertConflicts(h) \/ WriteFails(h) \/ DeleteFails(h) PROVE MissInv'
  <2>1. Answer(h) /\ row' = row /\ \A g \in Handlers \ {h} : missed'[g] = missed[g]
    BY <1>9 DEF InsertConflicts, WriteFails, DeleteFails, ghosts, Typed, TypeOK
  <2> QED BY <1>5, <2>1
<1>10. ASSUME NEW h \in Handlers, CheckEmail(h) \/ FindToRemove(h) \/ FindOne(h), Answer(h) PROVE MissInv'
  BY <1>5, <1>10 DEF CheckEmail, FindToRemove, FindOne, ghosts
<1> QED BY <1>1, <1>3, <1>4, <1>6, <1>7, <1>8, <1>9, <1>10 DEF Next

\* A request changes of a user only what it was asked to change, or undoes what
\* it missed: update reads the user (line 42 of users.service.ts), and save
\* writes the columns in which that differs from what its own SELECT finds
\* (line 49).  A removed user can come back no other way.
THEOREM UndoTheorem == Spec => UndoesOnlyWhatItMissed
<1> DEFINE Allowed ==
      \A i \in used : row'[i] \notin {row[i], None} =>
          \E h \in Handlers :
              /\ At(h, "write") /\ slot[h].id = i
              /\ IF row[i] = None THEN missed[h] = Columns
                 ELSE \A c \in Columns : row'[i][c] # row[i][c] =>
                          slot[h].dto[c] # None \/ c \in missed[h]
<1>1. Init => MissInv
  BY DEF Init, MissInv, Misses, Idle
<1>2. Typed /\ MissInv /\ [Next]_vars => [Allowed]_vars
  <2> SUFFICES ASSUME Typed, MissInv, Next, NEW i \in used, row'[i] \notin {row[i], None}
               PROVE  \E h \in Handlers :
                         /\ At(h, "write") /\ slot[h].id = i
                         /\ IF row[i] = None THEN missed[h] = Columns
                            ELSE \A c \in Columns : row'[i][c] # row[i][c] =>
                                     slot[h].dto[c] # None \/ c \in missed[h]
    OBVIOUS
  <2>1. i \in Ids
    BY DEF Typed, TypeOK
  <2>2. PICK h \in Handlers : (\E j \in Ids : Insert(h, j)) \/ Write(h) \/ Delete(h)
    BY DEF Next, Register, Create, Remove, Update, CheckEmail, InsertConflicts, FindOne, Select,
           WriteFails, FindToRemove, DeleteFails
  <2>3. Write(h)
    BY <2>1, <2>2 DEF Insert, Delete, Typed, TypeOK
  <2>4. slot[h].id = i /\ At(h, "write") /\ row'[i] = Saved(row[i], slot[h].ent, slot[h].seen)
    BY <2>1, <2>3 DEF Write, Typed, TypeOK
  <2>5. Misses(slot[h], missed[h])
    BY DEF MissInv
  <2>6. CASE slot[h].seen = None
    <3>1. row[i] = None /\ missed[h] = Columns
      BY <2>3, <2>4, <2>5, <2>6 DEF Write, Storable, Misses, At
    <3> QED BY <2>4, <3>1
  <2>7. CASE slot[h].seen # None
    <3>1. /\ row[i] # None
          /\ row'[i] = [c \in Columns |-> IF slot[h].ent[c] # slot[h].seen[c]
                                         THEN slot[h].ent[c] ELSE row[i][c]]
      BY <2>4, <2>7 DEF Saved
    <3>2. \A c \in Columns : row'[i][c] # row[i][c] => slot[h].ent[c] # slot[h].seen[c]
      BY <3>1
    <3> QED BY <2>4, <2>5, <2>7, <3>1, <3>2 DEF Misses, At
  <2> QED BY <2>6, <2>7
<1>3. Spec => [][Allowed]_vars
  BY <1>1, <1>2, AlwaysTyped, MissKept, PTL DEF Spec
<1> QED BY <1>3 DEF UndoesOnlyWhatItMissed
=============================================================================
