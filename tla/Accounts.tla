------------------------------ MODULE Accounts ------------------------------
(***************************************************************************)
(* The table of users: UsersService, and register of AuthService, which    *)
(* calls it.  A handler is one running request; its pc is the await it     *)
(* stands at.  Only the columns that requests can change and compare are   *)
(* kept: the address and the password's hash.                              *)
(***************************************************************************)
EXTENDS Naturals, FiniteSets

CONSTANTS Ids,          \* the ids the table may generate
          Emails,
          Passwords,
          Handlers,     \* the requests that may run at once
          None,         \* nothing: no row, undefined
          Null,         \* null, as the body of a request may say
          MaxRequests   \* bound on the requests made

ASSUME NoneAssumption == None \notin Ids \cup Emails \cup Passwords \cup {Null}
ASSUME NullAssumption == Null \notin Emails \cup Passwords \cup {[hashOf |-> p] : p \in Passwords}
ASSUME BoundAssumption == MaxRequests \in Nat

VARIABLES row,          \* the row of each user, or None
          used,         \* ids that were generated
          slot,         \* the running handlers
          requests,     \* requests made so far
          told,         \* history: the password its user last set for an account
          mixed,        \* history: users of whom two updates have overlapped
          missed        \* history: the columns of its user that others changed
                        \* between the findOne of an update and the SELECT of its save

vars == <<row, used, slot, requests, told, mixed, missed>>
ghosts == <<told, mixed, missed>>

\* bcrypt.hash and bcrypt.compare.
Hash(p) == [hashOf |-> p]
Matches(p, stored) == stored = Hash(p)

Columns == {"email", "password"}
Account == [email : Emails, password : {Hash(p) : p \in Passwords}]
\* CreateUserDto, and UpdateUserDto: in a PartialType a null passes like an
\* absent property.
Dto == [email : Emails, password : Passwords]
PartialDto == [email : Emails \cup {None, Null}, password : Passwords \cup {None, Null}]
\* What merge makes of a row.
Entity == [email : Emails \cup {Null}, password : {Hash(p) : p \in Passwords} \cup {Null}]

Idle == [pc |-> "idle", id |-> None, dto |-> None, ent |-> None, seen |-> None]

\* The unique index on email: may user i have this address?
EmailFree(i, email) == \A j \in Ids \ {i} : row[j] # None => row[j].email # email

\* JwtAuthGuard: JwtStrategy.validate finds the user of the token.  The token
\* may be any user's, whoever's account the request is about.
Authenticated == \E i \in Ids : row[i] # None

At(h, pc) == slot[h].pc = pc
Goto(h, pc) == slot' = [slot EXCEPT ![h].pc = pc]
\* The request is answered, with its result or an error.
Answer(h) == slot' = [slot EXCEPT ![h] = Idle]

\* The table as an earlier run left it.
Init ==
    /\ \E old \in [Ids -> Dto \cup {None}] :
          /\ \A i, j \in Ids : i # j /\ old[i] # None /\ old[j] # None => old[i].email # old[j].email
          /\ row = [i \in Ids |-> IF old[i] = None THEN None
                                  ELSE [old[i] EXCEPT !.password = Hash(@)]]
          /\ told = [i \in Ids |-> IF old[i] = None THEN None ELSE old[i].password]
    /\ used = {i \in Ids : row[i] # None}
    /\ slot = [h \in Handlers |-> Idle]
    /\ requests = 0
    /\ mixed = {}
    /\ missed = [h \in Handlers |-> {}]

Receive(h, record) ==
    /\ At(h, "idle")
    /\ requests < MaxRequests
    /\ requests' = requests + 1
    /\ slot' = [slot EXCEPT ![h] = record]

\* The updates that have found their user, and not selected it again, miss what h
\* changes of it now.
Changed(i) ==
    IF row'[i] = row[i] THEN {}
    ELSE IF None \in {row[i], row'[i]} THEN Columns
    ELSE {c \in Columns : row'[i][c] # row[i][c]}
Note(h) == missed' = [g \in Handlers |-> IF g = h THEN {}
                                         ELSE IF At(g, "select") THEN missed[g] \cup Changed(slot[g].id)
                                         ELSE missed[g]]

-----------------------------------------------------------------------------
(* register and create *)

Register(h, dto) ==
    /\ Receive(h, [Idle EXCEPT !.pc = "check", !.dto = dto])
    /\ UNCHANGED <<row, used, ghosts>>

\* findByEmail; a user who has the address ends the request.
CheckEmail(h) ==
    /\ At(h, "check")
    /\ \/ EmailFree(None, slot[h].dto.email) /\ Goto(h, "insert")
       \/ ~ EmailFree(None, slot[h].dto.email) /\ Answer(h)
    /\ UNCHANGED <<row, used, requests, ghosts>>

\* POST /users calls UsersService.create without that check.
Create(h, dto) ==
    /\ Receive(h, [Idle EXCEPT !.pc = "insert", !.dto = dto])
    /\ UNCHANGED <<row, used, ghosts>>

\* The password is hashed, and save inserts the entity under a new id.  (What
\* follows in register, the first refresh token, is login's in RefreshTokens;
\* when it fails, the account stays.)
Insert(h, i) ==
    /\ At(h, "insert")
    /\ i \in Ids \ used
    /\ EmailFree(i, slot[h].dto.email)
    /\ row' = [row EXCEPT ![i] = [slot[h].dto EXCEPT !.password = Hash(@)]]
    /\ used' = used \cup {i}
    /\ told' = [told EXCEPT ![i] = slot[h].dto.password]
    /\ Note(h)
    /\ Answer(h)
    /\ UNCHANGED <<requests, mixed>>

InsertConflicts(h) ==
    /\ At(h, "insert")
    /\ ~ EmailFree(None, slot[h].dto.email)
    /\ Answer(h)
    /\ UNCHANGED <<row, used, requests, ghosts>>

-----------------------------------------------------------------------------
(* update: findOne; hash, merge and the SELECT of save; its write *)

Update(h, i, dto) ==
    /\ Authenticated
    /\ Receive(h, [Idle EXCEPT !.pc = "find", !.id = i, !.dto = dto])
    /\ UNCHANGED <<row, used, ghosts>>

Updating(h, i) == slot[h].id = i /\ slot[h].pc \in {"select", "write"}

\* Fault: the columns are taken from the request, which need not be about a user
\* that exists.
FindOne_Skipped(h) ==
    /\ At(h, "find")
    /\ \E a \in Account : slot' = [slot EXCEPT ![h] = [@ EXCEPT !.pc = "select", !.ent = a]]
    /\ UNCHANGED <<row, used, requests, ghosts>>

FindOne(h) ==
    /\ At(h, "find")
    /\ \/ /\ row[slot[h].id] # None
          /\ slot' = [slot EXCEPT ![h] = [@ EXCEPT !.pc = "select", !.ent = row[slot[h].id]]]
          /\ mixed' = IF \E g \in Handlers : Updating(g, slot[h].id)
                      THEN mixed \cup {slot[h].id} ELSE mixed
       \/ row[slot[h].id] = None /\ Answer(h) /\ UNCHANGED mixed
    /\ UNCHANGED <<row, used, requests, told, missed>>

\* Fault: the password is stored as it came.
Merged_Unhashed(ent, dto) ==
    [c \in Columns |-> IF dto[c] = None THEN ent[c] ELSE dto[c]]

\* A password is hashed unless it is absent or null.
Merged(ent, dto) ==
    [email |-> IF dto.email = None THEN ent.email ELSE dto.email,
     password |-> IF dto.password = None THEN ent.password
                  ELSE IF dto.password = Null THEN Null ELSE Hash(dto.password)]

Select(h) ==
    /\ At(h, "select")
    /\ slot' = [slot EXCEPT ![h] = [@ EXCEPT !.pc = "write",
                                             !.ent = Merged(slot[h].ent, slot[h].dto),
                                             !.seen = row[slot[h].id]]]
    /\ UNCHANGED <<row, used, requests, ghosts>>

\* Fault: save writes the whole entity.
Saved_Whole(current, ent, seen) ==
    IF seen # None /\ current = None THEN None ELSE ent

\* What save leaves of the row: it inserts the entity when its SELECT found
\* nothing, and else updates the columns in which the entity differs from what
\* that SELECT found, of a row that may be gone by now.
Saved(current, ent, seen) ==
    IF seen = None THEN ent
    ELSE IF current = None THEN None
    ELSE [c \in Columns |-> IF ent[c] # seen[c] THEN ent[c] ELSE current[c]]

\* The primary key, NOT NULL and the unique index let save write the row.
Storable(i, seen, new) ==
    /\ seen = None => row[i] = None
    /\ new # None => (\A c \in Columns : new[c] # Null) /\ EmailFree(i, new.email)

Write(h) ==
    LET i == slot[h].id
        new == Saved(row[i], slot[h].ent, slot[h].seen)
    IN  /\ At(h, "write")
        /\ Storable(i, slot[h].seen, new)
        /\ row' = [row EXCEPT ![i] = new]
        /\ told' = IF slot[h].dto.password \in {None, Null} THEN told
                   ELSE [told EXCEPT ![i] = slot[h].dto.password]
        /\ Note(h)
        /\ Answer(h)
        /\ UNCHANGED <<used, requests, mixed>>

WriteFails(h) ==
    LET i == slot[h].id
    IN  /\ At(h, "write")
        /\ ~ Storable(i, slot[h].seen, Saved(row[i], slot[h].ent, slot[h].seen))
        /\ missed' = [missed EXCEPT ![h] = {}]
        /\ Answer(h)
        /\ UNCHANGED <<row, used, requests, told, mixed>>

-----------------------------------------------------------------------------
(* remove: findOne; the DELETE, by id *)

Remove(h, i) ==
    /\ Authenticated
    /\ Receive(h, [Idle EXCEPT !.pc = "findToRemove", !.id = i])
    /\ UNCHANGED <<row, used, ghosts>>

FindToRemove(h) ==
    /\ At(h, "findToRemove")
    /\ \/ row[slot[h].id] # None /\ Goto(h, "delete")
       \/ row[slot[h].id] = None /\ Answer(h)
    /\ UNCHANGED <<row, used, requests, ghosts>>

Delete(h) ==
    /\ At(h, "delete")
    /\ row' = [row EXCEPT ![slot[h].id] = None]
    /\ Note(h)
    /\ Answer(h)
    /\ UNCHANGED <<used, requests, told, mixed>>

\* The foreign key of the user's tasks refuses it: only the migration's cascades.
DeleteFails(h) ==
    /\ At(h, "delete")
    /\ row[slot[h].id] # None
    /\ Answer(h)
    /\ UNCHANGED <<row, used, requests, ghosts>>

-----------------------------------------------------------------------------
Next ==
    \E h \in Handlers :
        \/ \E dto \in Dto : Register(h, dto) \/ Create(h, dto)
        \/ \E i \in Ids : Insert(h, i) \/ Remove(h, i)
        \/ \E i \in Ids, dto \in PartialDto : Update(h, i, dto)
        \/ CheckEmail(h) \/ InsertConflicts(h)
        \/ FindOne(h) \/ Select(h) \/ Write(h) \/ WriteFails(h)
        \/ FindToRemove(h) \/ Delete(h) \/ DeleteFails(h)

Spec == Init /\ [][Next]_vars

-----------------------------------------------------------------------------
(* Properties *)

Slot == [pc : {"idle", "check", "insert", "find", "select", "write", "findToRemove", "delete"},
         id : Ids \cup {None},
         dto : PartialDto \cup {None},
         ent : Entity \cup {None},
         seen : Account \cup {None}]

\* Every variable stays in its type: a stored password is always a hash.
TypeOK ==
    /\ row \in [Ids -> Account \cup {None}]
    /\ used \subseteq Ids
    /\ slot \in [Handlers -> Slot]
    /\ requests \in 0 .. MaxRequests
    /\ told \in [Ids -> Passwords \cup {None}]
    /\ mixed \subseteq Ids
    /\ missed \in [Handlers -> SUBSET Columns]

\* Of a user who has existed, a request changes only what it was asked to change,
\* or undoes a change that came between its findOne and the SELECT of its save;
\* a removed user comes back only through an update that missed the removal so.
UndoesOnlyWhatItMissed ==
    [][\A i \in used : row'[i] \notin {row[i], None} =>
          \E h \in Handlers :
              /\ At(h, "write") /\ slot[h].id = i
              /\ IF row[i] = None THEN missed[h] = Columns
                 ELSE \A c \in Columns : row'[i][c] # row[i][c] =>
                          slot[h].dto[c] # None \/ c \in missed[h]]_vars

\* A removed user whom no update has read is gone for good.
Gone(i) == i \in used /\ row[i] = None /\ \A h \in Handlers : ~ Updating(h, i)
RemovalIsFinal == [][\A i \in Ids : Gone(i) => Gone(i)']_vars

\* As long as updates of a user do not overlap, the password last set for the
\* account opens it; an update that only changes the address leaves it alone.
PasswordSetOpensTheAccount ==
    \A i \in Ids : row[i] # None /\ i \notin mixed => Matches(told[i], row[i].password)
=============================================================================
