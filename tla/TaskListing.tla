----------------------------- MODULE TaskListing -----------------------------
(***************************************************************************)
(* findAll of TasksService, for one user and one set of filters: a client  *)
(* walks the pages, and may start over, while tasks are created and        *)
(* removed.  Pages live in the cache, and no change of a task deletes      *)
(* them, so a walk may be given pages that an earlier one has left there.  *)
(* The order is the default one, newest first, and createdAt tells any two *)
(* tasks apart.                                                            *)
(*                                                                         *)
(* History: every state the table has been in is kept, and a page knows    *)
(* the states in which its first and its last query ran.                   *)
(***************************************************************************)
EXTENDS Pagination, Sequences, FiniteSets

CONSTANTS Tasks,        \* ids of tasks
          RawPages,     \* page parameters a walk may start with
          RawLimits,    \* limit parameters it may use
          None,         \* no entry
          MaxChanges    \* bound on the changes of the table

\* A walk starts at the first page, however its number is given.
ASSUME RawAssumption ==
    /\ \A raw \in RawPages : raw \in Raw /\ Page(ValidPage(raw)) = 1
    /\ RawLimits \subseteq Raw
ASSUME TasksAssumption == IsFiniteSet(Tasks)
ASSUME ChangesAssumption == MaxChanges \in Nat

VARIABLES tables,       \* the states of the table so far: lists of tasks, newest first
          limit,        \* the limit the client asks for, as findAll works with it
          cache,        \* Redis: tasks:list:<parameters>, by page
          request,      \* the running findAll
          walk          \* the pages of the walk so far

vars == <<tables, limit, cache, request, walk>>

Now == Len(tables)
Table == tables[Now]
Elements(s) == {s[k] : k \in DOMAIN s}
Injective(s) == \A j, k \in DOMAIN s : s[j] = s[k] => j = k

\* The elements of s that are in S, in their order.
KeptOf(s, S) ==
    LET I == {k \in DOMAIN s : s[k] \in S}
        Rank(k) == Cardinality({j \in I : j <= k})
    IN  [n \in 1 .. Cardinality(I) |-> s[CHOOSE k \in I : Rank(k) = n]]

\* A client that follows hasNextPage needs no more pages than this.
Pages == 1 .. Cardinality(Tasks) + 1
IdLists == UNION {[1 .. n -> Tasks] : n \in 0 .. Cardinality(Tasks)}

\* data and what is needed of meta; from and to are history.
Answer == [data : IdLists, page : Pages, next : BOOLEAN, from : Nat, to : Nat]
Idle == [pc |-> "idle", page |-> None, data |-> None, from |-> None]

Init ==
    /\ \E ids \in IdLists : Injective(ids) /\ tables = <<ids>>
    /\ limit \in {Limit(ValidLimit(raw)) : raw \in RawLimits}
    /\ cache = [p \in Pages |-> None]
    /\ request = Idle
    /\ walk = <<>>

-----------------------------------------------------------------------------
(* The table *)

Change(ids) == Now <= MaxChanges /\ tables' = Append(tables, ids)

\* s with t as its element n.
Inserted(s, n, t) ==
    [k \in 1 .. Len(s) + 1 |-> IF k < n THEN s[k] ELSE IF k = n THEN t ELSE s[k - 1]]

\* createdAt is the start of the transaction, and transactions that overlap may
\* commit in another order: a new task need not be the first of the list.  Nor
\* need one that an update lets match the filters.
Create(t) ==
    /\ t \notin Elements(Table)
    /\ \E n \in 1 .. Len(Table) + 1 : Change(Inserted(Table, n, t))
    /\ UNCHANGED <<limit, cache, request, walk>>

Remove(t) ==
    /\ t \in Elements(Table)
    /\ Change(KeptOf(Table, Tasks \ {t}))
    /\ UNCHANGED <<limit, cache, request, walk>>

-----------------------------------------------------------------------------
(* findAll *)

Ask(page) ==
    /\ request.pc = "idle"
    /\ request' = [request EXCEPT !.pc = "lookup", !.page = page]
    /\ UNCHANGED <<tables, limit, cache, walk>>

\* The walk starts at its first page and follows hasNextPage.
Walk ==
    \/ walk = <<>> /\ \E raw \in RawPages : Ask(Page(ValidPage(raw)))
    \/ walk # <<>> /\ walk[Len(walk)].next /\ Ask(walk[Len(walk)].page + 1)

StartOver ==
    /\ request.pc = "idle"
    /\ walk # <<>>
    /\ walk' = <<>>
    /\ UNCHANGED <<tables, limit, cache, request>>

Deliver(answer) == request' = Idle /\ walk' = Append(walk, answer)

FindCached ==
    /\ request.pc = "lookup"
    /\ cache[request.page] # None
    /\ Deliver(cache[request.page])
    /\ UNCHANGED <<tables, limit, cache>>

\* OFFSET and LIMIT
Rows(skip, take) ==
    LET last == IF skip + take < Len(Table) THEN skip + take ELSE Len(Table)
    IN  SubSeq(Table, skip + 1, last)

\* Fault: one row more is taken, to see whether there is a next page.
Taken_OneMore(page) == Rows(Skip(page, limit), limit + 1)
Taken(page) == Rows(Skip(page, limit), limit)

\* A query with a join and a LIMIT is two: one for the ids of the page.
QueryIds ==
    /\ request.pc = "lookup"
    /\ cache[request.page] = None
    /\ request' = [request EXCEPT !.pc = "rows", !.data = Taken(request.page), !.from = Now]
    /\ UNCHANGED <<tables, limit, cache, walk>>

\* And one for the rows that still have these ids.
QueryRows ==
    /\ request.pc = "rows"
    /\ request' = [request EXCEPT !.pc = "count",
                          !.data = KeptOf(@, Elements(Table))]
    /\ UNCHANGED <<tables, limit, cache, walk>>

\* getManyAndCount takes the total from the place where the page ends, and needs
\* a COUNT only where the page is full, or empty and not the first one.
Counted ==
    \/ Len(request.data) = limit
    \/ request.data = <<>> /\ Skip(request.page, limit) > 0
Total == IF Counted THEN Len(Table) ELSE Skip(request.page, limit) + Len(request.data)

\* paginate builds the answer, and findAll caches it; Redis may fail to.
CountAndFill ==
    /\ request.pc = "count"
    /\ LET answer == [data |-> request.data, page |-> request.page,
                      next |-> HasNextPage(request.page, Total, limit),
                      from |-> request.from, to |-> Now]
       IN  /\ Deliver(answer)
           /\ \/ cache' = [cache EXCEPT ![request.page] = answer]
              \/ UNCHANGED cache
    /\ UNCHANGED <<tables, limit>>

\* No change of a task deletes the key of a list: it lives for its TTL.
Expire(p) ==
    /\ cache[p] # None
    /\ cache' = [cache EXCEPT ![p] = None]
    /\ UNCHANGED <<tables, limit, request, walk>>

Next ==
    \/ \E t \in Tasks : Create(t) \/ Remove(t)
    \/ Walk \/ StartOver
    \/ FindCached \/ QueryIds \/ QueryRows \/ CountAndFill
    \/ \E p \in Pages : Expire(p)

Spec == Init /\ [][Next]_vars

-----------------------------------------------------------------------------
(* Properties *)

TypeOK ==
    /\ tables \in Seq(IdLists)
    /\ limit \in 1 .. MaxLimit
    /\ cache \in [Pages -> Answer \cup {None}]
    /\ request \in [pc : {"idle", "lookup", "rows", "count"}, page : Pages \cup {None},
                    data : IdLists \cup {None}, from : Nat \cup {None}]
    /\ walk \in Seq(Answer)

\* The walk is over: its last page announces no other.
Done == walk # <<>> /\ ~ walk[Len(walk)].next
First == walk[1].from
Last == walk[Len(walk)].to
Collected == UNION {Elements(walk[k].data) : k \in DOMAIN walk}

\* No page is older than the one before it, as a page from the cache may be.
InOrder == \A k \in 1 .. Len(walk) - 1 : walk[k].from <= walk[k + 1].from
Unchanged == \A k \in DOMAIN walk : walk[k].from = First /\ walk[k].to = First
OnlyCreated == \A k \in First .. Now - 1 : Len(tables[k + 1]) > Len(tables[k])
OnlyRemoved == \A k \in First .. Now - 1 : Len(tables[k + 1]) < Len(tables[k])

\* When all pages show one state of the table, the walk returns every task of
\* it, once, in its order, whatever limit was asked for.
WalkOfOneStateIsTheList ==
    Done /\ Unchanged =>
        /\ Collected = Elements(tables[First])
        /\ \A k \in DOMAIN walk : \A j \in DOMAIN walk[k].data :
              tables[First][(k - 1) * limit + j] = walk[k].data[j]

\* Creations during a walk hide no task from it that was there at its start.
CreationsHideNothing ==
    Done /\ InOrder /\ OnlyCreated => Elements(tables[First]) \subseteq Collected

\* Removals during a walk do not make it return a task twice.
RemovalsRepeatNothing ==
    InOrder /\ (walk # <<>> => OnlyRemoved) =>
        \A j, k \in DOMAIN walk : j # k => Elements(walk[j].data) \cap Elements(walk[k].data) = {}
=============================================================================
