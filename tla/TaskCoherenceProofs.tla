------------------------ MODULE TaskCoherenceProofs ------------------------
(***************************************************************************)
(* Proofs about TasksService and TaskCoherence, for any number of tasks,   *)
(* users, clients and workers, any requests and any failures.              *)
(***************************************************************************)
EXTENDS TaskCoherence, FiniteSetTheorems, SequenceTheorems, TLAPS

\* Where a handler of one task stands.
AtTask == {"lookup", "query", "fill", "select", "write", "enqueue", "commit", "delete"}
Finding == {"lookup", "query", "fill"}
Finders == {"findOne", "update", "remove", "updateStatus"}
StatsParts == [byStatus : [Statuses -> Nat] \cup {None}, byPriority : Nat \cup {None}]

\* What the locals of a handler hold, by the place where it stands.
Shape(x) ==
    /\ x.pc \in AtTask => x.task \in Tasks
    /\ x.pc \in Finding => x.op \in Finders /\ (x.op = "update" => x.patch \in Patch)
    /\ x.pc = "select" => x.op \in {"update", "updateStatus"}
    /\ x.pc = "write" => x.op \in {"create", "update", "updateStatus"}
    /\ x.pc \in {"enqueue", "commit"} => x.op \in {"create", "update"}
    /\ x.pc \in Held => x.ent \in Row /\ (x.op = "create" => x.seen = None)
    /\ x.op = "updateStatus" => x.job \in Job
    /\ x.pc \in {"list", "listQuery", "listFill", "stats", "statsQueries"} => x.user \in Users
    /\ x.pc = "listFill" => x.ent \in ListType
    /\ x.pc \in {"list", "stats", "statsQueries"} => x.ent \in StatsParts
    /\ x.pc = "idle" => x.op = None

\* A worker that has taken a job holds it until its write, or until it failed.
RunsJob(x) == x.pc \in {"idle", "invalidate"} \/ x.op = "updateStatus"

\* The task of an entity was committed, unless the handler is creating it.
Creating(x) == x.op = "create" /\ x.pc \in Held
KnowsTask(x, l) ==
    x.pc \in Held => l[x.task] = IF x.op = "create" THEN "given" ELSE "born"

Fits(s, x, l) == x \in SlotType /\ Shape(x) /\ (s \in Workers => RunsJob(x)) /\ KnowsTask(x, l)

\* An id is given to one create only.
OneCreator ==
    \A s, q \in Slots :
        Creating(slot[s]) /\ Creating(slot[q]) /\ slot[s].task = slot[q].task => s = q

SlotsFit == (\A s \in Slots : Fits(s, slot[s], life)) /\ OneCreator
IInv == TypeOK /\ SlotsFit /\ RolledBackCreateLeavesNothing

-----------------------------------------------------------------------------
(* Data *)

LEMMA MergeIsRow == ASSUME NEW r \in Row, NEW p \in Patch PROVE Merge(r, p) \in Row
BY NoneAssumption DEF Row, Patch, Merge, Fields

LEMMA SavedIsRow ==
    ASSUME NEW cur \in Row \cup {None}, NEW ent \in Row, NEW seen \in Row \cup {None}
    PROVE  Saved(cur, ent, seen) \in Row \cup {None}
BY NoneAssumption DEF Row, Saved, Fields

LEMMA RowsOfIsFinite ==
    ASSUME NEW u PROVE RowsOf(u) \subseteq Tasks /\ Cardinality(RowsOf(u)) \in Nat
BY TasksAssumption, FS_Subset, FS_CardinalityType DEF RowsOf

LEMMA ListOfIsList == ASSUME TypeOK, NEW u PROVE ListOf(u) \in ListType
<1> DEFINE T == RowsOf(u)
<1>1. T \in SUBSET Tasks /\ [t \in T |-> row[t]] \in [T -> Row]
  BY DEF RowsOf, TypeOK
<1>2. [t \in T |-> row[t]] \in UNION {[R -> Row] : R \in SUBSET Tasks}
  BY <1>1
<1> QED BY <1>2 DEF ListOf, ListType

LEMMA StatsOfIsStats ==
    ASSUME NEW u
    PROVE  StatsOf(u).byStatus \in [Statuses -> Nat] /\ StatsOf(u).byPriority \in Nat
<1>1. ASSUME NEW st PROVE Cardinality({t \in RowsOf(u) : row[t].status = st}) \in Nat
  <2>1. {t \in RowsOf(u) : row[t].status = st} \subseteq Tasks
    BY RowsOfIsFinite
  <2> QED BY <2>1, TasksAssumption, FS_Subset, FS_CardinalityType
<1>2. StatusCounts(u) \in [Statuses -> Nat]
  BY <1>1 DEF StatusCounts
<1> QED BY <1>2, RowsOfIsFinite DEF StatsOf, PriorityCounts

LEMMA SubSeqIsSeq ==
    ASSUME NEW S, NEW q \in Seq(S), NEW m \in Int, NEW n \in Int, 1 <= m, n <= Len(q)
    PROVE  SubSeq(q, m, n) \in Seq(S)
<1>1. \A i \in m .. n : q[i] \in S
  OBVIOUS
<1> QED BY <1>1, SubSeqProperties

-----------------------------------------------------------------------------
(* Slots *)

LEMMA IdleFits == ASSUME NEW s, NEW l PROVE Fits(s, Idle, l)
BY NoneAssumption DEF Fits, SlotType, Shape, RunsJob, KnowsTask, Idle, AtTask, Finding, Held

\* One slot becomes x; the others keep their place, and know of their tasks what
\* they knew.
LEMMA OneSlotMoves ==
    ASSUME IInv, NEW s \in Slots, NEW x, slot' = [slot EXCEPT ![s] = x], Fits(s, x, life'),
           \A q \in Slots : q # s => /\ KnowsTask(slot[q], life')
                                     /\ Creating(x) /\ Creating(slot[q]) => slot[q].task # x.task
    PROVE  SlotsFit' /\ slot' \in [Slots -> SlotType]
<1>1. slot \in [Slots -> SlotType]
  BY DEF IInv, TypeOK
<1>2. \A q \in Slots : slot'[q] = IF q = s THEN x ELSE slot[q]
  BY <1>1
<1>3. \A q \in Slots : Fits(q, slot'[q], life')
  BY <1>2 DEF IInv, SlotsFit, Fits
<1>4. OneCreator'
  <2> SUFFICES ASSUME NEW p \in Slots, NEW q \in Slots, Creating(slot'[p]), Creating(slot'[q]),
                      slot'[p].task = slot'[q].task, p # q
               PROVE  FALSE
    BY DEF OneCreator
  <2>1. CASE p # s /\ q # s
    BY <2>1, <1>2 DEF IInv, SlotsFit, OneCreator
  <2>2. CASE p = s \/ q = s
    BY <2>2, <1>2
  <2> QED BY <2>1, <2>2
<1>5. slot' \in [Slots -> SlotType]
  BY <1>1, <1>2, <1>3 DEF Fits
<1> QED BY <1>3, <1>4, <1>5 DEF SlotsFit

\* The case in which no task is created or committed.
LEMMA OneSlotStays ==
    ASSUME IInv, NEW s \in Slots, NEW x, slot' = [slot EXCEPT ![s] = x], Fits(s, x, life),
           life' = life, Creating(x) => Creating(slot[s]) /\ x.task = slot[s].task
    PROVE  SlotsFit' /\ slot' \in [Slots -> SlotType]
<1>1. ASSUME NEW q \in Slots, q # s
      PROVE  /\ KnowsTask(slot[q], life)
             /\ Creating(x) /\ Creating(slot[q]) => slot[q].task # x.task
  BY <1>1 DEF IInv, SlotsFit, Fits, OneCreator
<1> QED BY <1>1, OneSlotMoves

\* Only the place changes, along one of the code's paths.
Follows(x, pc) ==
    \/ x.pc = "lookup" /\ pc = "query"
    \/ x.pc = "write" /\ x.op \in {"create", "update"} /\ pc \in {"enqueue", "commit"}
    \/ x.pc = "commit" /\ pc = "rollback"
    \/ x.pc \in {"list", "stats"} /\ pc \in {"listQuery", "statsQueries"}

LEMMA FollowerFits ==
    ASSUME NEW s, NEW l, NEW x, Fits(s, x, l), NEW pc, Follows(x, pc)
    PROVE  /\ Fits(s, [x EXCEPT !.pc = pc], l)
           /\ Creating([x EXCEPT !.pc = pc]) => Creating(x)
<1> DEFINE y == [x EXCEPT !.pc = pc]
<1>1. x \in SlotType /\ Shape(x)
  BY DEF Fits
<1>2. y \in SlotType
  BY <1>1 DEF SlotType, Follows
<1>3. /\ y.pc = pc /\ y.op = x.op /\ y.task = x.task /\ y.patch = x.patch /\ y.ent = x.ent
      /\ y.user = x.user /\ y.job = x.job /\ y.seen = x.seen
  BY <1>1 DEF SlotType
<1> HIDE DEF y
<1>4. Shape(y)
  BY <1>1, <1>3 DEF Shape, Follows, AtTask, Finding, Held
<1>5. KnowsTask(y, l) /\ (Creating(y) => Creating(x))
  BY <1>1, <1>3 DEF Fits, Shape, KnowsTask, Creating, Follows, Held
<1>6. s \in Workers => RunsJob(y)
  BY <1>3 DEF Fits, RunsJob, Follows
<1> QED BY <1>2, <1>4, <1>5, <1>6 DEF Fits, y

\* A handler that throws, and one that has written and owes deletes.
LEMMA ThrownFits ==
    ASSUME NEW s, NEW l, NEW x, Fits(s, x, l), x.pc \notin {"idle", "invalidate"}
    PROVE  Fits(s, [Idle EXCEPT !.pc = "failed", !.op = x.op, !.task = x.task, !.job = x.job], l)
<1> DEFINE y == [Idle EXCEPT !.pc = "failed", !.op = x.op, !.task = x.task, !.job = x.job]
<1>1. y \in SlotType
  BY DEF Fits, SlotType, Idle
<1>2. y.pc = "failed" /\ y.op = x.op /\ y.job = x.job
  BY DEF Idle
<1> HIDE DEF y
<1>3. Shape(y) /\ (s \in Workers => RunsJob(y)) /\ KnowsTask(y, l)
  BY <1>2 DEF Fits, Shape, RunsJob, KnowsTask, AtTask, Finding, Held
<1> QED BY <1>1, <1>3 DEF Fits, y

LEMMA OwingFits ==
    ASSUME NEW s, NEW l, NEW x \in SlotType, x.pc = "invalidate", x.op # "updateStatus"
    PROVE  Fits(s, x, l) /\ ~Creating(x)
BY DEF Fits, Shape, RunsJob, KnowsTask, Creating, AtTask, Finding, Held

LEMMA KeysOfAreKeys == ASSUME NEW t \in Tasks PROVE KeysOf(t) \in SUBSET CacheKey
BY OwnerAssumption DEF KeysOf, CacheKey

-----------------------------------------------------------------------------
(* How each step moves its slot                                            *)

Moved(s, x) ==
    /\ slot' = [slot EXCEPT ![s] = x]
    /\ Fits(s, x, life)
    /\ Creating(x) => Creating(slot[s]) /\ x.task = slot[s].task

LEMMA SlotFits ==
    ASSUME IInv, NEW s \in Slots
    PROVE  /\ slot \in [Slots -> SlotType] /\ slot[s] \in SlotType
           /\ Fits(s, slot[s], life) /\ Shape(slot[s])
BY DEF IInv, TypeOK, SlotsFit, Fits

\* A row that is there, or cached, is of a task that was committed.
LEMMA OnlyBornAreSeen ==
    ASSUME IInv, NEW t \in Tasks
    PROVE  /\ row[t] # None => row[t] \in Row /\ life[t] = "born"
           /\ taskCache[t] # None => taskCache[t] \in Row /\ life[t] = "born"
BY DEF IInv, TypeOK, RolledBackCreateLeavesNothing

LEMMA GotoMoves ==
    ASSUME IInv, NEW s \in Slots, NEW pc, Goto(s, pc), Follows(slot[s], pc)
    PROVE  \E x : Moved(s, x)
<1>1. slot' = [slot EXCEPT ![s] = [slot[s] EXCEPT !.pc = pc]]
  BY DEF Goto
<1>2. [slot[s] EXCEPT !.pc = pc].task = slot[s].task
  BY SlotFits DEF SlotType
<1> QED BY <1>1, <1>2, SlotFits, FollowerFits DEF Moved

LEMMA ThrowMoves ==
    ASSUME IInv, NEW s \in Slots, Throw(s), slot[s].pc \notin {"idle", "invalidate"}
    PROVE  \E x : Moved(s, x)
<1> DEFINE x == [Idle EXCEPT !.pc = "failed", !.op = slot[s].op, !.task = slot[s].task,
                             !.job = slot[s].job]
<1>1. slot' = [slot EXCEPT ![s] = x] /\ ~Creating(x)
  BY DEF Throw, Idle, Creating, Held
<1>2. Fits(s, x, life)
  BY SlotFits, ThrownFits
<1> QED BY <1>1, <1>2 DEF Moved

LEMMA OweMoves ==
    ASSUME IInv, NEW s \in Slots, NEW keys \in SUBSET CacheKey, Owe(s, keys)
    PROVE  \E x : Moved(s, x)
<1> DEFINE x == [Idle EXCEPT !.pc = "invalidate", !.owes = keys]
<1>1. slot' = [slot EXCEPT ![s] = x] /\ x.pc = "invalidate" /\ x.op # "updateStatus"
  BY NoneAssumption DEF Owe, Idle
<1>2. x \in SlotType
  BY DEF SlotType, Idle
<1> QED BY <1>1, <1>2, OwingFits DEF Moved

LEMMA IdleMoves ==
    ASSUME NEW s \in Slots, slot' = [slot EXCEPT ![s] = Idle] PROVE Moved(s, Idle)
BY IdleFits DEF Moved, Creating, Idle, Held

\* findOne has found a committed task: what its caller does with it.
LEMMA FoundMoves ==
    ASSUME IInv, NEW s \in Slots, slot[s].pc \in {"lookup", "fill"},
           NEW e \in Row, NEW plain \in BOOLEAN, life[slot[s].task] = "born", Found(s, e, plain)
    PROVE  \E x : Moved(s, x)
<1> DEFINE y == slot[s]
<1>1. y \in SlotType /\ Shape(y) /\ Fits(s, y, life) /\ y.op \in Finders /\ y.task \in Tasks
  BY SlotFits DEF Shape, Finding, AtTask
<1>2. CASE y.op = "findOne"
  BY <1>2, IdleMoves DEF Found
<1>3. CASE y.op = "remove"
  <2> DEFINE x == [y EXCEPT !.pc = "delete", !.ent = None]
  <2>1. slot' = [slot EXCEPT ![s] = x]
    BY <1>3 DEF Found
  <2>2. x \in SlotType
    BY <1>1 DEF SlotType
  <2>3. x.pc = "delete" /\ x.op = "remove" /\ x.task = y.task
    BY <1>1, <1>3 DEF SlotType
  <2> HIDE DEF x
  <2>4. Fits(s, x, life) /\ ~Creating(x)
    BY <1>1, <1>3, <2>2, <2>3
    DEF Fits, Shape, RunsJob, KnowsTask, Creating, AtTask, Finding, Held
  <2> QED BY <2>1, <2>4 DEF Moved
<1>4. CASE y.op = "updateStatus"
  <2> DEFINE x == [y EXCEPT !.pc = "select", !.ent = [e EXCEPT !.status = y.job.status]]
  <2>1. slot' = [slot EXCEPT ![s] = x]
    BY <1>4 DEF Found
  <2>2. y.job \in Job
    BY <1>1, <1>4 DEF Shape
  <2>3. [e EXCEPT !.status = y.job.status] \in Row
    BY <2>2 DEF Row, Job
  <2>4. x \in SlotType
    BY <1>1, <2>3 DEF SlotType
  <2>5. /\ x.pc = "select" /\ x.op = "updateStatus" /\ x.task = y.task
        /\ x.job = y.job /\ x.ent \in Row
    BY <1>1, <1>4, <2>3 DEF SlotType
  <2> HIDE DEF x
  <2>6. Fits(s, x, life) /\ ~Creating(x)
    BY <1>1, <1>4, <2>2, <2>4, <2>5
    DEF Fits, Shape, RunsJob, KnowsTask, Creating, AtTask, Finding, Held
  <2> QED BY <2>1, <2>6 DEF Moved
<1>5. CASE y.op = "update" /\ plain
  <2> DEFINE x == [y EXCEPT !.pc = "failed", !.patch = None]
  <2>1. slot' = [slot EXCEPT ![s] = x]
    BY <1>5 DEF Found
  <2>2. x \in SlotType
    BY <1>1 DEF SlotType
  <2>3. x.pc = "failed" /\ x.op = "update" /\ x.task = y.task
    BY <1>1, <1>5 DEF SlotType
  <2> HIDE DEF x
  <2>4. Fits(s, x, life) /\ ~Creating(x)
    BY <1>1, <1>5, <2>2, <2>3
    DEF Fits, Shape, RunsJob, KnowsTask, Creating, AtTask, Finding, Held
  <2> QED BY <2>1, <2>4 DEF Moved
<1>6. CASE y.op = "update" /\ ~plain
  <2> DEFINE m == Merge(e, y.patch)
             x == [y EXCEPT !.pc = "select", !.patch = None, !.ent = m,
                            !.announce = m.status # e.status]
  <2>1. slot' = [slot EXCEPT ![s] = x]
    BY <1>6 DEF Found
  <2>2. m \in Row
    BY <1>1, <1>6, MergeIsRow DEF Shape, Finding
  <2> HIDE DEF m
  <2>3. x \in SlotType
    BY <1>1, <2>2 DEF SlotType
  <2>4. /\ x.pc = "select" /\ x.op = "update" /\ x.task = y.task
        /\ x.ent \in Row
    BY <1>1, <1>6, <2>2 DEF SlotType
  <2> HIDE DEF x
  <2>5. Fits(s, x, life) /\ ~Creating(x)
    BY <1>1, <1>6, <2>3, <2>4
    DEF Fits, Shape, RunsJob, KnowsTask, Creating, AtTask, Finding, Held
  <2> QED BY <2>1, <2>5 DEF Moved
<1> QED BY <1>1, <1>2, <1>3, <1>4, <1>5, <1>6 DEF Finders

LEMMA LookupMoves ==
    ASSUME IInv, NEW s \in Slots,
           FindCached(s) \/ FindMisses(s) \/ FindQuery(s) \/ FindNothing(s) \/ FindFills(s)
    PROVE  \E x : Moved(s, x)
<1> DEFINE y == slot[s]
<1>1. y \in SlotType /\ Shape(y) /\ Fits(s, y, life) /\ slot \in [Slots -> SlotType]
  BY SlotFits
<1>2. CASE FindCached(s)
  <2>1. y.pc = "lookup" /\ y.task \in Tasks /\ taskCache[y.task] # None
    BY <1>1, <1>2 DEF FindCached, At, Shape, AtTask
  <2>2. taskCache[y.task] \in Row /\ life[y.task] = "born" /\ Found(s, taskCache[y.task], TRUE)
    BY <1>2, <2>1, OnlyBornAreSeen DEF FindCached
  <2> QED BY <2>1, <2>2, FoundMoves
<1>3. CASE FindMisses(s)
  BY <1>3, GotoMoves DEF FindMisses, At, Follows
<1>4. CASE FindQuery(s)
  <2> DEFINE x == [y EXCEPT !.pc = "fill", !.ent = row[y.task]]
  <2>1. slot' = [slot EXCEPT ![s] = x]
    BY <1>1, <1>4 DEF FindQuery
  <2>2. y.pc = "query" /\ y.task \in Tasks /\ row[y.task] \in Row /\ life[y.task] = "born"
    BY <1>1, <1>4, OnlyBornAreSeen DEF FindQuery, At, Shape, AtTask
  <2>3. x \in SlotType
    BY <1>1, <2>2 DEF SlotType
  <2>4. /\ x.pc = "fill" /\ x.op = y.op /\ x.task = y.task
        /\ x.job = y.job /\ x.patch = y.patch /\ x.ent \in Row
    BY <1>1, <2>2 DEF SlotType
  <2> HIDE DEF x
  <2>5. Fits(s, x, life) /\ ~Creating(x)
    BY <1>1, <2>2, <2>3, <2>4
    DEF Fits, Shape, RunsJob, KnowsTask, Creating, AtTask, Finding, Held, Finders
  <2> QED BY <2>1, <2>5 DEF Moved
<1>5. CASE FindNothing(s)
  BY <1>5, ThrowMoves DEF FindNothing, At
<1>6. CASE FindFills(s)
  <2>1. y.pc = "fill" /\ y.task \in Tasks /\ y.ent \in Row /\ life[y.task] = "born"
    BY <1>1, <1>6
    DEF FindFills, At, Fits, Shape, KnowsTask, AtTask, Finding, Finders, Held
  <2>2. Found(s, y.ent, FALSE)
    BY <1>6 DEF FindFills
  <2> QED BY <2>1, <2>2, FoundMoves
<1> QED BY <1>2, <1>3, <1>4, <1>5, <1>6

LEMMA WriteMoves ==
    ASSUME IInv, NEW s \in Slots,
           \/ SaveSelects(s) \/ SaveWrites(s) \/ StatusWrites(s) \/ WriteConflicts(s)
           \/ Enqueue(s) \/ CommitFails(s) \/ Rollback(s) \/ Remove(s)
    PROVE  \E x : Moved(s, x)
<1> DEFINE y == slot[s]
<1>1. y \in SlotType /\ Shape(y) /\ Fits(s, y, life) /\ slot \in [Slots -> SlotType]
  BY SlotFits
<1>2. CASE SaveSelects(s)
  <2> DEFINE x == [y EXCEPT !.pc = "write", !.seen = row[y.task]]
  <2>1. slot' = [slot EXCEPT ![s] = x]
    BY <1>1, <1>2 DEF SaveSelects
  <2>2. y.pc = "select" /\ row[y.task] \in Row \cup {None}
    BY <1>1, <1>2 DEF SaveSelects, At, Shape, AtTask, IInv, TypeOK
  <2>3. x \in SlotType
    BY <1>1, <2>2 DEF SlotType
  <2>4. /\ x.pc = "write" /\ x.op = y.op /\ x.task = y.task
        /\ x.job = y.job /\ x.ent = y.ent
    BY <1>1, <2>2 DEF SlotType
  <2> HIDE DEF x
  <2>5. Fits(s, x, life) /\ ~Creating(x)
    BY <1>1, <2>2, <2>3, <2>4
    DEF Fits, Shape, RunsJob, KnowsTask, Creating, AtTask, Finding, Held
  <2> QED BY <2>1, <2>5 DEF Moved
<1>3. CASE SaveWrites(s)
  BY <1>3, GotoMoves DEF SaveWrites, At, Follows
<1>4. CASE StatusWrites(s) \/ Remove(s)
  <2>1. y.task \in Tasks /\ Owe(s, KeysOf(y.task))
    BY <1>1, <1>4 DEF StatusWrites, Remove, At, Shape, AtTask
  <2> QED BY <2>1, KeysOfAreKeys, OweMoves
<1>5. CASE WriteConflicts(s) \/ Rollback(s)
  BY <1>5, ThrowMoves DEF WriteConflicts, Rollback, At
<1>6. CASE Enqueue(s)
  <2> DEFINE x == [y EXCEPT !.pc = "commit", !.announce = FALSE]
  <2>1. slot' = [slot EXCEPT ![s] = x]
    BY <1>1, <1>6 DEF Enqueue
  <2>2. y.pc = "enqueue"
    BY <1>6 DEF Enqueue, At
  <2>3. x \in SlotType
    BY <1>1 DEF SlotType
  <2>4. /\ x.pc = "commit" /\ x.op = y.op /\ x.task = y.task
        /\ x.job = y.job /\ x.ent = y.ent /\ x.seen = y.seen
    BY <1>1 DEF SlotType
  <2> HIDE DEF x
  <2>5. Fits(s, x, life) /\ (Creating(x) => Creating(y))
    BY <1>1, <2>2, <2>3, <2>4
    DEF Fits, Shape, RunsJob, KnowsTask, Creating, AtTask, Finding, Held
  <2> QED BY <2>1, <2>4, <2>5 DEF Moved
<1>7. CASE CommitFails(s)
  BY <1>7, GotoMoves DEF CommitFails, At, Follows
<1> QED BY <1>2, <1>3, <1>4, <1>5, <1>6, <1>7

LEMMA InvalidateMoves ==
    ASSUME IInv, NEW s \in Slots, NEW k, Invalidate(s, k) PROVE \E x : Moved(s, x)
<1> DEFINE y == slot[s]
           x == [y EXCEPT !.owes = @ \ {k}]
<1>1. y \in SlotType /\ Shape(y) /\ Fits(s, y, life) /\ slot \in [Slots -> SlotType]
  BY SlotFits
<1>2. slot' = [slot EXCEPT ![s] = x] /\ y.pc = "invalidate"
  BY <1>1 DEF Invalidate, At
<1>3. x \in SlotType
  <2>1. y.owes \ {k} \in SUBSET CacheKey
    BY <1>1 DEF SlotType
  <2> QED BY <1>1, <2>1 DEF SlotType
<1>4. x.pc = y.pc /\ x.op = y.op /\ x.job = y.job
  BY <1>1 DEF SlotType
<1> HIDE DEF x
<1>5. Fits(s, x, life) /\ ~Creating(x)
  BY <1>1, <1>2, <1>3, <1>4
  DEF Fits, Shape, RunsJob, KnowsTask, Creating, AtTask, Finding, Held
<1> QED BY <1>2, <1>5 DEF Moved

\* The reads of lists and statistics, and the ends of the handlers.
LEMMA ReadMoves ==
    ASSUME IInv, NEW s \in Slots,
           \/ Finish(s) \/ FailRequest(s) \/ FailJob(s)
           \/ AskCached(s) \/ AskMisses(s) \/ ListQuery(s) \/ ListFills(s) \/ StatsFills(s)
           \/ \E part \in {"byStatus", "byPriority"} : StatsQuery(s, part)
    PROVE  \E x : Moved(s, x)
<1> DEFINE y == slot[s]
<1>1. y \in SlotType /\ Shape(y) /\ Fits(s, y, life) /\ slot \in [Slots -> SlotType]
  BY SlotFits
<1>2. CASE \/ Finish(s) \/ FailRequest(s) \/ FailJob(s) \/ AskCached(s) \/ ListFills(s)
           \/ StatsFills(s)
  BY <1>2, IdleMoves
  DEF Finish, FailRequest, FailJob, AskCached, ListFills, StatsFills, Answer
<1>3. CASE AskMisses(s)
  <2>1. PICK pc \in {"listQuery", "statsQueries"} : Goto(s, pc)
    BY <1>3 DEF AskMisses
  <2> QED BY <1>3, <2>1, GotoMoves DEF AskMisses, Follows
<1>4. CASE ListQuery(s)
  <2> DEFINE x == [y EXCEPT !.pc = "listFill", !.ent = ListOf(y.user)]
  <2>1. slot' = [slot EXCEPT ![s] = x] /\ y.pc = "listQuery"
    BY <1>1, <1>4 DEF ListQuery, At
  <2>2. ListOf(y.user) \in ListType
    BY ListOfIsList DEF IInv
  <2>3. x \in SlotType
    BY <1>1, <2>2 DEF SlotType
  <2>4. /\ x.pc = "listFill" /\ x.op = y.op /\ x.job = y.job
        /\ x.user = y.user /\ x.ent \in ListType
    BY <1>1, <2>2 DEF SlotType
  <2> HIDE DEF x
  <2>5. Fits(s, x, life) /\ ~Creating(x)
    BY <1>1, <2>1, <2>3, <2>4
    DEF Fits, Shape, RunsJob, KnowsTask, Creating, AtTask, Finding, Held
  <2> QED BY <2>1, <2>5 DEF Moved
<1>5. ASSUME NEW part \in {"byStatus", "byPriority"}, StatsQuery(s, part) PROVE \E x : Moved(s, x)
  <2> DEFINE e == [y.ent EXCEPT ![part] = StatsOf(y.user)[part]]
             x == [y EXCEPT !.ent = e]
  <2>1. slot' = [slot EXCEPT ![s] = x] /\ y.pc = "statsQueries"
    BY <1>1, <1>5 DEF StatsQuery, At
  <2>2. e \in StatsParts
    <3>1. y.ent \in StatsParts
      BY <1>1, <2>1 DEF Shape
    <3>2. CASE part = "byStatus"
      BY <3>1, <3>2, StatsOfIsStats DEF StatsParts
    <3>3. CASE part = "byPriority"
      BY <3>1, <3>3, StatsOfIsStats DEF StatsParts
    <3> QED BY <3>2, <3>3
  <2> HIDE DEF e
  <2>3. x \in SlotType
    BY <1>1, <2>2 DEF SlotType, StatsParts
  <2>4. /\ x.pc = y.pc /\ x.op = y.op /\ x.job = y.job
        /\ x.user = y.user /\ x.ent \in StatsParts
    BY <1>1, <2>2 DEF SlotType
  <2> HIDE DEF x
  <2>5. Fits(s, x, life) /\ ~Creating(x)
    BY <1>1, <2>1, <2>3, <2>4
    DEF Fits, Shape, RunsJob, KnowsTask, Creating, AtTask, Finding, Held
  <2> QED BY <2>1, <2>5 DEF Moved
<1> QED BY <1>2, <1>3, <1>4, <1>5

\* A worker takes the oldest job.
LEMMA TakeMoves == ASSUME IInv, NEW w \in Workers, TakeJob(w) PROVE \E x : Moved(w, x)
<1> DEFINE j == Head(waiting)
           x == [Idle EXCEPT !.pc = "lookup", !.op = "updateStatus", !.task = j.task, !.job = j]
<1>1. j \in Job /\ slot' = [slot EXCEPT ![w] = x]
  BY HeadTailProperties DEF TakeJob, IInv, TypeOK
<1> HIDE DEF j
<1>2. j.task \in Tasks
  BY <1>1 DEF Job
<1>3. x \in SlotType
  BY <1>1, <1>2 DEF SlotType, Idle
<1>4. x.pc = "lookup" /\ x.op = "updateStatus" /\ x.task \in Tasks /\ x.job \in Job
  BY <1>1, <1>2 DEF Idle
<1> HIDE DEF x
<1>5. Fits(w, x, life) /\ ~Creating(x)
  BY <1>3, <1>4
  DEF Fits, Shape, RunsJob, KnowsTask, Creating, AtTask, Finding, Held, Finders
<1> QED BY <1>1, <1>5 DEF Moved

LEMMA StepMoves ==
    ASSUME IInv, NEW s \in Slots, Step(s), ~Commit(s) PROVE \E x : Moved(s, x)
BY LookupMoves, WriteMoves, InvalidateMoves, ReadMoves DEF Step

-----------------------------------------------------------------------------
(* Requests, and the commit                                                *)

\* The id that create is given was given to no other handler.
LEMMA CreateMoves ==
    ASSUME IInv, NEW c \in Clients, NEW t \in Tasks, NEW st \in Statuses, NEW text \in Texts,
           Create(c, t, st, text)
    PROVE  SlotsFit' /\ slot' \in [Slots -> SlotType]
<1> DEFINE e == [status |-> st, text |-> text]
           x == [Idle EXCEPT !.pc = "write", !.op = "create", !.task = t, !.ent = e,
                             !.announce = TRUE]
<1>1. slot' = [slot EXCEPT ![c] = x] /\ life' = [life EXCEPT ![t] = "given"] /\ life[t] = "never"
  BY DEF Create, Receive
<1>2. c \in Slots /\ "create" \in Ops /\ life'[t] = "given"
  BY <1>1 DEF Slots, Create, Receive, IInv, TypeOK
<1>3. x \in SlotType
  <2>1. e \in Row
    BY DEF Row
  <2> HIDE DEF e
  <2> QED BY <1>2, <2>1 DEF SlotType, Idle
<1>4. x.pc = "write" /\ x.op = "create" /\ x.task = t /\ x.ent \in Row /\ x.seen = None
  BY DEF Idle, Row
<1> HIDE DEF x
<1>5. c \notin Workers
  BY SlotsAssumption
<1>6. Fits(c, x, life')
  BY <1>2, <1>3, <1>4, <1>5 DEF Fits, Shape, KnowsTask, AtTask, Finding, Held
<1>7. ASSUME NEW q \in Slots, q # c
      PROVE  /\ KnowsTask(slot[q], life')
             /\ Creating(x) /\ Creating(slot[q]) => slot[q].task # x.task
  <2>1. KnowsTask(slot[q], life)
    BY SlotFits DEF Fits
  <2>2. slot[q].pc \in Held => slot[q].task # t
    BY <1>1, <2>1 DEF KnowsTask
  <2>3. KnowsTask(slot[q], life')
    BY <1>1, <2>1, <2>2 DEF KnowsTask, IInv, TypeOK
  <2> QED BY <1>4, <2>2, <2>3 DEF Creating
<1> QED BY <1>1, <1>2, <1>6, <1>7, OneSlotMoves

LEMMA OpenMoves ==
    ASSUME IInv, NEW c \in Clients, NEW op \in {"findOne", "remove", "update"}, NEW t \in Tasks,
           NEW p \in Patch \cup {None}, op = "update" => p \in Patch, Open(c, op, t, p)
    PROVE  \E x : Moved(c, x)
<1> DEFINE x == [Idle EXCEPT !.pc = "lookup", !.op = op, !.task = t, !.patch = p]
<1>1. slot' = [slot EXCEPT ![c] = x] /\ op \in Ops
  BY DEF Open, Receive
<1>2. x \in SlotType
  BY <1>1 DEF SlotType, Idle
<1>3. x.pc = "lookup" /\ x.op = op /\ x.task = t /\ x.patch = p
  BY DEF Idle
<1> HIDE DEF x
<1>4. Fits(c, x, life) /\ ~Creating(x)
  BY <1>2, <1>3, SlotsAssumption
  DEF Fits, Shape, KnowsTask, Creating, AtTask, Finding, Held, Finders
<1> QED BY <1>1, <1>4 DEF Moved

LEMMA BatchMoves ==
    ASSUME IInv, NEW c \in Clients, NEW op \in BatchOps, NEW ids \in SUBSET Tasks,
           NEW u \in Users \cup {None}, NEW after, RunBatch(c, op, ids, u, after)
    PROVE  \E x : Moved(c, x)
<1> DEFINE x == [Idle EXCEPT !.pc = "invalidate", !.op = op, !.owes = BatchOwes(ids, u)]
<1>1. slot' = [slot EXCEPT ![c] = x] /\ op \in Ops
  BY DEF RunBatch, Receive
<1>2. BatchOwes(ids, u) \in SUBSET CacheKey
  BY DEF BatchOwes, CacheKey
<1>3. x \in SlotType /\ x.pc = "invalidate" /\ x.op # "updateStatus"
  BY <1>1, <1>2 DEF SlotType, Idle, BatchOps, AdminOps
<1> QED BY <1>1, <1>3, OwingFits DEF Moved

LEMMA BatchFailsMoves ==
    ASSUME IInv, NEW c \in Clients, NEW op \in BatchOps, BatchFails(c, op)
    PROVE  \E x : Moved(c, x)
<1> DEFINE x == [Idle EXCEPT !.pc = "rollback", !.op = op]
<1>1. slot' = [slot EXCEPT ![c] = x] /\ op \in Ops
  BY DEF BatchFails, Receive
<1>2. x \in SlotType
  BY <1>1 DEF SlotType, Idle
<1>3. x.pc = "rollback" /\ x.op # "updateStatus"
  BY DEF Idle, BatchOps, AdminOps
<1> HIDE DEF x
<1>4. Fits(c, x, life) /\ ~Creating(x)
  BY <1>2, <1>3, SlotsAssumption DEF Fits, Shape, KnowsTask, Creating, AtTask, Finding, Held
<1> QED BY <1>1, <1>4 DEF Moved

LEMMA AskMoves ==
    ASSUME IInv, NEW c \in Clients, NEW op \in {"list", "stats"}, NEW u \in Users, Ask(c, op, u)
    PROVE  \E x : Moved(c, x)
<1> DEFINE x == [Idle EXCEPT !.pc = op, !.op = op, !.user = u, !.ent = NoStats]
<1>1. slot' = [slot EXCEPT ![c] = x] /\ op \in Ops
  BY DEF Ask, Receive
<1>2. NoStats \in StatsParts
  BY DEF NoStats, StatsParts
<1>3. x \in SlotType
  BY <1>1, <1>2 DEF SlotType, Idle, StatsParts
<1>4. x.pc = op /\ x.op = op /\ x.user = u /\ x.ent \in StatsParts
  BY <1>2 DEF Idle
<1> HIDE DEF x
<1>5. Fits(c, x, life) /\ ~Creating(x)
  BY <1>3, <1>4, SlotsAssumption DEF Fits, Shape, KnowsTask, Creating, AtTask, Finding, Held
<1> QED BY <1>1, <1>5 DEF Moved

\* A commit of a create tells all others nothing new: the id is its own.
LEMMA CommitMoves ==
    ASSUME IInv, NEW s \in Slots, Commit(s) PROVE SlotsFit' /\ slot' \in [Slots -> SlotType]
<1> DEFINE y == slot[s]
<1>1. y \in SlotType /\ Shape(y) /\ Fits(s, y, life)
  BY SlotFits
<1>2. y.pc = "commit" /\ y.task \in Tasks /\ y.op \in {"create", "update"}
  BY <1>1 DEF Commit, At, Shape, AtTask
<1>3. CASE y.op # "create"
  <2>1. Owe(s, KeysOf(y.task)) /\ life' = life
    BY <1>3 DEF Commit
  <2>2. \E x : Moved(s, x)
    BY <1>2, <2>1, KeysOfAreKeys, OweMoves
  <2> QED BY <2>1, <2>2, OneSlotStays DEF Moved
<1>4. CASE y.op = "create"
  <2> DEFINE keys == {<<"user", Owner[y.task]>>}
             x == [Idle EXCEPT !.pc = "invalidate", !.owes = keys]
  <2>1. slot' = [slot EXCEPT ![s] = x] /\ life' = [life EXCEPT ![y.task] = "born"]
    BY <1>4 DEF Commit, Owe
  <2>2. keys \in SUBSET CacheKey
    BY <1>2, OwnerAssumption DEF CacheKey
  <2> HIDE DEF keys
  <2>3. x \in SlotType /\ x.pc = "invalidate" /\ x.op # "updateStatus"
    BY <2>2, NoneAssumption DEF SlotType, Idle
  <2>4. Fits(s, x, life') /\ ~Creating(x)
    BY <2>3, OwingFits
  <2>5. ASSUME NEW q \in Slots, q # s PROVE KnowsTask(slot[q], life')
    <3>1. KnowsTask(slot[q], life) /\ Shape(slot[q])
      BY SlotFits DEF Fits
    <3>2. Creating(slot[q]) => slot[q].task # y.task
      BY <1>2, <1>4, <2>5 DEF IInv, SlotsFit, OneCreator, Creating, Held
    <3> QED BY <2>1, <3>1, <3>2 DEF KnowsTask, Creating, IInv, TypeOK
  <2> QED BY <2>1, <2>4, <2>5, OneSlotMoves
<1> QED BY <1>3, <1>4

LEMMA SlotsKept == ASSUME IInv, Next PROVE SlotsFit' /\ slot' \in [Slots -> SlotType]
<1> DEFINE Kept == SlotsFit' /\ slot' \in [Slots -> SlotType]
<1>1. ASSUME NEW s \in Slots, life' = life, \E x : Moved(s, x) PROVE Kept
  BY <1>1, OneSlotStays DEF Moved
<1>2. ASSUME NEW c \in Clients, Request(c) PROVE Kept
  <2>1. c \in Slots
    BY DEF Slots
  <2>2. CASE \E t \in Tasks, st \in Statuses, text \in Texts : Create(c, t, st, text)
    BY <2>2, CreateMoves
  <2>3. CASE \/ \E op \in {"findOne", "remove"}, t \in Tasks : Open(c, op, t, None)
             \/ \E t \in Tasks, p \in Patch : Open(c, "update", t, p)
    <3>1. PICK op \in {"findOne", "remove", "update"}, t \in Tasks, p \in Patch \cup {None} :
              (op = "update" => p \in Patch) /\ Open(c, op, t, p)
      BY <2>3
    <3> QED BY <1>1, <2>1, <3>1, OpenMoves DEF Open
  <2>4. ASSUME NEW ids \in SUBSET Tasks, NEW u \in Users \cup {None}, NEW p \in Patch,
               BatchUpdate(c, ids, u, p)
        PROVE  Kept
    <3> DEFINE op == IF u = None THEN "adminBatchUpdate" ELSE "batchUpdate"
    <3>1. op \in BatchOps
      BY DEF BatchOps, AdminOps
    <3>2. RunBatch(c, op, ids, u, [t \in Affected(ids, u) |-> Merge(row[t], p)])
      BY <2>4 DEF BatchUpdate
    <3> HIDE DEF op
    <3>3. life' = life
      BY <3>2 DEF RunBatch
    <3>4. \E x : Moved(c, x)
      BY <3>1, <3>2, BatchMoves
    <3> QED BY <1>1, <2>1, <3>3, <3>4
  <2>5. ASSUME NEW ids \in SUBSET Tasks, NEW u \in Users \cup {None}, BatchDelete(c, ids, u)
        PROVE  Kept
    <3> DEFINE op == IF u = None THEN "adminBatchDelete" ELSE "batchDelete"
    <3>1. op \in BatchOps
      BY DEF BatchOps, AdminOps
    <3>2. RunBatch(c, op, ids, u, [t \in Tasks |-> None])
      BY <2>5 DEF BatchDelete
    <3> HIDE DEF op
    <3>3. life' = life
      BY <3>2 DEF RunBatch
    <3>4. \E x : Moved(c, x)
      BY <3>1, <3>2, BatchMoves
    <3> QED BY <1>1, <2>1, <3>3, <3>4
  <2>6. ASSUME NEW op \in BatchOps, BatchFails(c, op) PROVE Kept
    BY <1>1, <2>1, <2>6, BatchFailsMoves DEF BatchFails
  <2>7. ASSUME NEW op \in {"list", "stats"}, NEW u \in Users, Ask(c, op, u) PROVE Kept
    BY <1>1, <2>1, <2>7, AskMoves DEF Ask
  <2> QED BY <1>2, <2>2, <2>3, <2>4, <2>5, <2>6, <2>7 DEF Request
<1>3. ASSUME NEW w \in Workers, TakeJob(w) PROVE Kept
  BY <1>1, <1>3, TakeMoves DEF TakeJob, Slots
<1>4. ASSUME NEW s \in Slots, Step(s), ~Commit(s) PROVE Kept
  <2>1. life' = life
    BY <1>4 DEF Step, FindCached, FindMisses, FindQuery, FindNothing, FindFills, SaveSelects,
                SaveWrites, StatusWrites, WriteConflicts, Enqueue, CommitFails, Rollback, Remove,
                Invalidate, Finish, FailRequest, FailJob, AskCached, AskMisses, ListQuery,
                ListFills, StatsFills, StatsQuery
  <2> QED BY <1>1, <1>4, <2>1, StepMoves
<1>5. ASSUME UNCHANGED <<slot, life>> PROVE Kept
  BY <1>5 DEF IInv, TypeOK, SlotsFit, OneCreator
<1>6. CASE BackoffEnds \/ \E k \in CacheKey : Expire(k)
  BY <1>5, <1>6 DEF BackoffEnds, Expire
<1> QED BY <1>2, <1>3, <1>4, <1>6, CommitMoves DEF Next

-----------------------------------------------------------------------------
(* The rows, the caches and the queue                                      *)

\* The steps that leave the rows, or the caches and the queue, alone.
LEMMA OtherSteps ==
    ASSUME Next
    PROVE  /\ \/ UNCHANGED <<row, life>>
              \/ \E s \in Slots : StatusWrites(s) \/ Commit(s) \/ Remove(s)
              \/ \E c \in Clients : Request(c)
           /\ \/ UNCHANGED taskCache
              \/ \E s \in Slots : FindFills(s) \/ \E k \in CacheKey : Invalidate(s, k)
              \/ \E k \in CacheKey : Expire(k)
           /\ \/ UNCHANGED caches
              \/ \E s \in Slots : \/ FindFills(s) \/ ListFills(s) \/ StatsFills(s)
                                  \/ \E k \in CacheKey : Invalidate(s, k)
              \/ \E k \in CacheKey : Expire(k)
           /\ \/ UNCHANGED queue
              \/ \E w \in Workers : TakeJob(w) \/ FailJob(w)
              \/ \E s \in Slots : Enqueue(s)
              \/ BackoffEnds
           /\ requests' = requests \/ \E c \in Clients : Request(c)
<1>1. CASE \E c \in Clients : Request(c)
  BY <1>1 DEF Request, Create, Open, BatchUpdate, BatchDelete, RunBatch, BatchFails, Ask, caches, queue
<1>2. CASE (\E w \in Workers : TakeJob(w)) \/ BackoffEnds \/ \E k \in CacheKey : Expire(k)
  BY <1>2 DEF TakeJob, BackoffEnds, Expire, DeleteKey, caches, queue
<1>3. ASSUME NEW s \in Slots,
             \/ FindCached(s) \/ FindMisses(s) \/ FindQuery(s) \/ FindNothing(s)
             \/ SaveSelects(s) \/ SaveWrites(s) \/ WriteConflicts(s)
             \/ CommitFails(s) \/ Rollback(s) \/ Finish(s) \/ FailRequest(s)
             \/ AskCached(s) \/ AskMisses(s) \/ ListQuery(s)
             \/ \E part \in {"byStatus", "byPriority"} : StatsQuery(s, part)
      PROVE  UNCHANGED <<row, life, caches, queue, requests>>
  BY <1>3 DEF FindCached, FindMisses, FindQuery, FindNothing, SaveSelects, SaveWrites,
              WriteConflicts, CommitFails, Rollback, Finish, FailRequest, AskCached, AskMisses,
              ListQuery, StatsQuery
<1>4. ASSUME NEW s \in Slots, StatusWrites(s) \/ Commit(s) \/ Remove(s)
      PROVE  UNCHANGED <<caches, queue, requests>>
  BY <1>4 DEF StatusWrites, Commit, Remove
<1>5. ASSUME NEW s \in Slots, FindFills(s) \/ \E k \in CacheKey : Invalidate(s, k)
      PROVE  UNCHANGED <<row, life, queue, requests>>
  BY <1>5 DEF FindFills, Invalidate
<1>6. ASSUME NEW s \in Slots, ListFills(s) \/ StatsFills(s)
      PROVE  UNCHANGED <<row, life, taskCache, queue, requests>>
  BY <1>6 DEF ListFills, StatsFills
<1>7. ASSUME NEW s \in Slots, Enqueue(s) \/ FailJob(s)
      PROVE  UNCHANGED <<row, life, caches, requests>>
  BY <1>7 DEF Enqueue, FailJob
<1>8. CASE \E s \in Slots : Step(s)
  <2>1. PICK s \in Slots : Step(s)
    BY <1>8
  <2> QED BY <2>1, <1>3, <1>4, <1>5, <1>6, <1>7 DEF Step, caches
<1> QED BY <1>1, <1>2, <1>8 DEF Next

\* Rows are written to, or deleted from, tasks that were committed.
RowsOK ==
    /\ row \in [Tasks -> Row \cup {None}]
    /\ life \in [Tasks -> {"never", "given", "born"}]
    /\ \A t \in Tasks : life[t] # "born" => row[t] = None

LEMMA WritesKeepRows ==
    ASSUME IInv, NEW s \in Slots, StatusWrites(s) \/ Commit(s) \/ Remove(s) PROVE RowsOK'
<1> DEFINE y == slot[s]
           t == y.task
<1>1. RowsOK /\ y \in SlotType /\ Shape(y) /\ KnowsTask(y, life)
  BY SlotFits DEF RowsOK, IInv, TypeOK, RolledBackCreateLeavesNothing, Fits
<1>2. t \in Tasks
  BY <1>1 DEF Shape, StatusWrites, Commit, Remove, At, AtTask
<1>3. CASE Remove(s)
  BY <1>1, <1>2, <1>3 DEF Remove, RowsOK
<1>4. CASE StatusWrites(s) \/ Commit(s)
  <2> DEFINE saved == Saved(row[t], y.ent, y.seen)
  <2>1. y.pc \in {"write", "commit"} /\ row' = [row EXCEPT ![t] = saved]
    BY <1>4 DEF StatusWrites, Commit, At
  <2>2. saved \in Row \cup {None}
    <3>1. row[t] \in Row \cup {None} /\ y.ent \in Row /\ y.seen \in Row \cup {None}
      BY <1>1, <1>2, <2>1 DEF RowsOK, Shape, SlotType, Held
    <3> QED BY <3>1, SavedIsRow
  <2>3. life' = [life EXCEPT ![t] = "born"]
    <3>1. CASE y.op = "create"
      BY <1>1, <1>4, <3>1 DEF StatusWrites, Commit
    <3>2. CASE y.op # "create"
      <4>1. life' = life /\ life[t] = "born"
        BY <1>1, <1>4, <2>1, <3>2 DEF StatusWrites, Commit, KnowsTask, Held
      <4> QED BY <1>1, <1>2, <4>1 DEF RowsOK
    <3> QED BY <3>1, <3>2
  <2> HIDE DEF saved
  <2> QED BY <1>1, <1>2, <2>1, <2>2, <2>3 DEF RowsOK
<1> QED BY <1>3, <1>4

LEMMA RequestsKeepRows ==
    ASSUME IInv, NEW c \in Clients, Request(c)
    PROVE  RowsOK' /\ requests' \in 0 .. MaxRequests
<1>1. RowsOK
  BY DEF RowsOK, IInv, TypeOK, RolledBackCreateLeavesNothing
<1>2. requests' \in 0 .. MaxRequests
  <2>1. requests < MaxRequests /\ requests' = requests + 1
    BY DEF Request, Create, Open, BatchUpdate, BatchDelete, RunBatch, BatchFails, Ask, Receive
  <2> QED BY <2>1, BoundAssumption DEF IInv, TypeOK
<1>3. ASSUME NEW op, NEW ids \in SUBSET Tasks, NEW u, NEW after, RunBatch(c, op, ids, u, after),
             \A t \in Affected(ids, u) : after[t] \in Row \cup {None}
      PROVE  RowsOK'
  <2>1. \A t \in Tasks : row'[t] = IF t \in Affected(ids, u) THEN after[t] ELSE row[t]
    BY <1>3 DEF RunBatch
  <2>2. \A t \in Affected(ids, u) : row[t] # None
    BY DEF Affected
  <2>3. row' \in [Tasks -> Row \cup {None}] /\ life' = life
    BY <1>1, <1>3 DEF RunBatch, RowsOK
  <2> QED BY <1>1, <2>1, <2>2, <2>3 DEF RowsOK
<1>4. ASSUME NEW t \in Tasks, NEW st \in Statuses, NEW text \in Texts, Create(c, t, st, text)
      PROVE  RowsOK'
  <2>1. life[t] = "never" /\ life' = [life EXCEPT ![t] = "given"] /\ row' = row
    BY <1>4 DEF Create
  <2> QED BY <1>1, <2>1 DEF RowsOK
<1>5. ASSUME NEW ids \in SUBSET Tasks, NEW u \in Users \cup {None}, NEW p \in Patch,
             BatchUpdate(c, ids, u, p)
      PROVE  RowsOK'
  <2> DEFINE after == [t \in Affected(ids, u) |-> Merge(row[t], p)]
             op == IF u = None THEN "adminBatchUpdate" ELSE "batchUpdate"
  <2>1. \A t \in Affected(ids, u) : after[t] \in Row
    BY <1>1, MergeIsRow DEF Affected, RowsOK
  <2>2. RunBatch(c, op, ids, u, after)
    BY <1>5 DEF BatchUpdate
  <2> HIDE DEF after, op
  <2> QED BY <1>3, <2>1, <2>2
<1>6. ASSUME NEW ids \in SUBSET Tasks, NEW u \in Users \cup {None}, BatchDelete(c, ids, u)
      PROVE  RowsOK'
  <2> DEFINE after == [t \in Tasks |-> None]
             op == IF u = None THEN "adminBatchDelete" ELSE "batchDelete"
  <2>1. \A t \in Affected(ids, u) : after[t] = None
    BY DEF Affected
  <2>2. RunBatch(c, op, ids, u, after)
    BY <1>6 DEF BatchDelete
  <2> HIDE DEF after, op
  <2> QED BY <1>3, <2>1, <2>2
<1>7. ASSUME \/ \E op \in {"findOne", "remove"}, t \in Tasks : Open(c, op, t, None)
             \/ \E t \in Tasks, p \in Patch : Open(c, "update", t, p)
             \/ \E op \in BatchOps : BatchFails(c, op)
             \/ \E op \in {"list", "stats"}, u \in Users : Ask(c, op, u)
      PROVE  RowsOK'
  <2>1. UNCHANGED <<row, life>>
    BY <1>7 DEF Open, BatchFails, Ask
  <2> QED BY <1>1, <2>1 DEF RowsOK
<1> QED BY <1>2, <1>4, <1>5, <1>6, <1>7 DEF Request

LEMMA RowsKept == ASSUME IInv, Next PROVE RowsOK' /\ requests' \in 0 .. MaxRequests
<1>1. CASE \E c \in Clients : Request(c)
  BY <1>1, RequestsKeepRows
<1>2. CASE ~ \E c \in Clients : Request(c)
  <2>1. requests' = requests
    BY <1>2, OtherSteps
  <2>2. RowsOK'
    <3>1. CASE UNCHANGED <<row, life>>
      BY <3>1 DEF RowsOK, IInv, TypeOK, RolledBackCreateLeavesNothing
    <3> QED BY <1>2, <3>1, OtherSteps, WritesKeepRows
  <2> QED BY <2>1, <2>2 DEF IInv, TypeOK
<1> QED BY <1>1, <1>2

\* Ids are given, and committed, once.
LEMMA BornStaysBorn ==
    ASSUME IInv, Next, NEW t \in Tasks, life[t] = "born" PROVE life'[t] = "born"
<1>1. \/ life' = life
      \/ \E u \in Tasks : life[u] = "never" /\ life' = [life EXCEPT ![u] = "given"]
      \/ \E u : life' = [life EXCEPT ![u] = "born"]
  <2>1. ASSUME NEW c \in Clients, Request(c)
        PROVE  \/ life' = life
               \/ \E u \in Tasks : life[u] = "never" /\ life' = [life EXCEPT ![u] = "given"]
    BY <2>1 DEF Request, Create, Open, BatchUpdate, BatchDelete, RunBatch, BatchFails, Ask
  <2>2. ASSUME NEW s \in Slots, StatusWrites(s) \/ Commit(s) \/ Remove(s)
        PROVE  life' = life \/ \E u : life' = [life EXCEPT ![u] = "born"]
    BY <2>2 DEF StatusWrites, Commit, Remove
  <2> QED BY <2>1, <2>2, OtherSteps
<1> QED BY <1>1 DEF IInv, TypeOK

\* The caches hold rows of committed tasks, lists and statistics.
CachesOK ==
    /\ taskCache \in [Tasks -> Row \cup {None}]
    /\ listCache \in [Users -> {None} \cup ListType]
    /\ statsCache \in [Users -> {None} \cup [byStatus : [Statuses -> Nat], byPriority : Nat]]
    /\ \A t \in Tasks : life[t] # "born" => taskCache[t] = None

LEMMA CachesKept == ASSUME IInv, Next PROVE CachesOK'
<1>1. CachesOK
  BY DEF CachesOK, IInv, TypeOK, RolledBackCreateLeavesNothing
<1>2. ASSUME \A t \in Tasks : taskCache'[t] \in {None, taskCache[t]} \/ life[t] = "born"
      PROVE  \A t \in Tasks : life'[t] # "born" => taskCache'[t] = None
  BY <1>1, <1>2, BornStaysBorn, RowsKept DEF CachesOK, RowsOK, IInv, TypeOK
<1>3. CASE UNCHANGED caches
  BY <1>1, <1>2, <1>3 DEF CachesOK, caches
<1>4. ASSUME NEW s \in Slots, FindFills(s) PROVE CachesOK'
  <2> DEFINE t == slot[s].task
  <2>1. t \in Tasks /\ slot[s].ent \in Row /\ life[t] = "born"
    BY <1>4, SlotFits
    DEF FindFills, At, Fits, Shape, KnowsTask, AtTask, Finding, Finders, Held
  <2>2. taskCache' = [taskCache EXCEPT ![t] = slot[s].ent] \/ UNCHANGED taskCache
    BY <1>4 DEF FindFills
  <2>3. UNCHANGED <<listCache, statsCache>>
    BY <1>4 DEF FindFills
  <2>4. \A q \in Tasks : taskCache'[q] = taskCache[q] \/ life[q] = "born"
    BY <1>1, <2>1, <2>2 DEF CachesOK
  <2> QED BY <1>1, <1>2, <2>1, <2>2, <2>3, <2>4 DEF CachesOK
<1>5. ASSUME NEW s \in Slots, ListFills(s) PROVE CachesOK'
  <2>1. slot[s].ent \in ListType
    BY <1>5, SlotFits DEF ListFills, At, Shape
  <2>2. UNCHANGED <<taskCache, statsCache>>
    BY <1>5 DEF ListFills
  <2>3. listCache' = [listCache EXCEPT ![slot[s].user] = slot[s].ent] \/ UNCHANGED listCache
    BY <1>5 DEF ListFills
  <2> QED BY <1>1, <1>2, <2>1, <2>2, <2>3 DEF CachesOK
<1>6. ASSUME NEW s \in Slots, StatsFills(s) PROVE CachesOK'
  <2> DEFINE e == slot[s].ent
  <2>1. e \in StatsParts /\ e.byStatus # None /\ e.byPriority # None
    BY <1>6, SlotFits DEF StatsFills, At, Shape
  <2>2. e \in [byStatus : [Statuses -> Nat], byPriority : Nat]
    BY <2>1 DEF StatsParts
  <2>3. UNCHANGED <<taskCache, listCache>>
    BY <1>6 DEF StatsFills
  <2>4. statsCache' = [statsCache EXCEPT ![slot[s].user] = e] \/ UNCHANGED statsCache
    BY <1>6 DEF StatsFills
  <2> QED BY <1>1, <1>2, <2>2, <2>3, <2>4 DEF CachesOK
<1>7. ASSUME NEW k \in CacheKey, DeleteKey(k) \/ Expire(k) PROVE CachesOK'
  <2>1. /\ taskCache' = taskCache \/ taskCache' = [taskCache EXCEPT ![k[2]] = None]
        /\ statsCache' = statsCache \/ statsCache' = [statsCache EXCEPT ![k[2]] = None]
        /\ \/ listCache' = listCache
           \/ listCache' = [listCache EXCEPT ![k[2]] = None]
           \/ listCache' = [u \in Users |-> IF u \in ListKeysMatching(k[2])
                                            THEN None ELSE listCache[u]]
    BY <1>7 DEF DeleteKey, Expire
  <2>2. listCache' \in [Users -> {None} \cup ListType]
    BY <1>1, <2>1 DEF CachesOK
  <2>3. \A q \in Tasks : taskCache'[q] \in {None, taskCache[q]}
    BY <1>1, <2>1 DEF CachesOK
  <2> QED BY <1>1, <1>2, <2>1, <2>2, <2>3 DEF CachesOK
<1>8. ASSUME NEW s \in Slots, NEW k \in CacheKey, Invalidate(s, k) PROVE CachesOK'
  BY <1>3, <1>7, <1>8 DEF Invalidate
<1> QED BY <1>3, <1>4, <1>5, <1>6, <1>7, <1>8, OtherSteps

LEMMA QueueKept == ASSUME IInv, Next PROVE waiting' \in Seq(Job) /\ delayed' \in Seq(Job)
<1>1. waiting \in Seq(Job) /\ delayed \in Seq(Job)
  BY DEF IInv, TypeOK
<1>2. CASE UNCHANGED queue
  BY <1>1, <1>2 DEF queue
<1>3. ASSUME NEW w \in Workers, TakeJob(w) PROVE waiting' \in Seq(Job) /\ delayed' \in Seq(Job)
  BY <1>1, <1>3, HeadTailProperties DEF TakeJob
<1>4. ASSUME NEW w \in Workers, FailJob(w) PROVE waiting' \in Seq(Job) /\ delayed' \in Seq(Job)
  <2> DEFINE j == slot[w].job
  <2>1. j \in Job
    BY <1>4, SlotFits DEF Slots, FailJob, At, Fits, Shape, RunsJob
  <2>2. CASE j.failures + 1 < MaxAttempts
    <3>1. [j EXCEPT !.failures = @ + 1] \in Job
      BY <2>1, <2>2 DEF Job, MaxAttempts
    <3>2. waiting' = waiting /\ delayed' = Append(delayed, [j EXCEPT !.failures = @ + 1])
      BY <1>4, <2>2 DEF FailJob
    <3> QED BY <1>1, <3>1, <3>2
  <2>3. CASE ~(j.failures + 1 < MaxAttempts)
    BY <1>1, <1>4, <2>3 DEF FailJob
  <2> QED BY <2>2, <2>3
<1>5. ASSUME NEW s \in Slots, Enqueue(s) PROVE waiting' \in Seq(Job) /\ delayed' \in Seq(Job)
  <2> DEFINE j == [task |-> slot[s].task, status |-> slot[s].ent.status, failures |-> 0]
  <2>1. slot[s].task \in Tasks /\ slot[s].ent \in Row
    BY <1>5, SlotFits DEF Enqueue, At, Shape, AtTask, Held
  <2>2. j \in Job
    BY <2>1 DEF Job, Row, MaxAttempts
  <2>3. delayed' = delayed /\ (waiting' = Append(waiting, j) \/ waiting' = waiting)
    BY <1>5 DEF Enqueue
  <2> HIDE DEF j
  <2> QED BY <1>1, <2>2, <2>3
<1>6. CASE BackoffEnds
  <2>1. PICK i \in DOMAIN delayed :
            /\ waiting' = Append(waiting, delayed[i])
            /\ delayed' = SubSeq(delayed, 1, i - 1) \o SubSeq(delayed, i + 1, Len(delayed))
    BY <1>6 DEF BackoffEnds
  <2>2. i \in 1 .. Len(delayed) /\ delayed[i] \in Job /\ Len(delayed) \in Nat
    BY <1>1
  <2>3. SubSeq(delayed, 1, i - 1) \in Seq(Job)
    BY <1>1, <2>2, SubSeqIsSeq
  <2>4. SubSeq(delayed, i + 1, Len(delayed)) \in Seq(Job)
    BY <1>1, <2>2, SubSeqIsSeq
  <2> QED BY <1>1, <2>1, <2>2, <2>3, <2>4
<1> QED BY <1>2, <1>3, <1>4, <1>5, <1>6, OtherSteps

-----------------------------------------------------------------------------
LEMMA InitHolds == Init => IInv
<1> SUFFICES ASSUME Init PROVE IInv
  OBVIOUS
<1>1. row \in [Tasks -> Row \cup {None}] /\ \A t \in Tasks : life[t] # "born" => row[t] = None
  <2>1. [status : {Pending}, text : Texts] \subseteq Row
    BY StatusAssumption DEF Row
  <2> QED BY <2>1 DEF Init
<1>2. waiting \in Seq(Job) /\ delayed \in Seq(Job)
  <2>1. PICK n \in 0 .. Backlog : waiting \in [1 .. n -> {job \in Job : job.failures = 0}]
    BY DEF Init
  <2>2. waiting \in [1 .. n -> Job] /\ n \in Nat
    BY <2>1, BoundAssumption
  <2> QED BY <2>2 DEF Init
<1>3. SlotsFit /\ slot \in [Slots -> SlotType]
  <2>1. \A s \in Slots : slot[s] = Idle
    BY DEF Init
  <2>2. \A s \in Slots : Fits(s, slot[s], life)
    BY <2>1, IdleFits
  <2>3. OneCreator
    BY <2>1 DEF OneCreator, Creating, Idle, Held
  <2> QED BY <2>2, <2>3 DEF SlotsFit, Fits, Init
<1>4. RolledBackCreateLeavesNothing
  BY <1>1 DEF RolledBackCreateLeavesNothing, Init
<1>5. TypeOK
  BY <1>1, <1>2, <1>3, BoundAssumption DEF TypeOK, Init
<1> QED BY <1>3, <1>4, <1>5 DEF IInv

LEMMA NextKeeps == IInv /\ [Next]_vars => IInv'
<1> SUFFICES ASSUME IInv, [Next]_vars PROVE IInv'
  OBVIOUS
<1>1. CASE Next
  <2>1. TypeOK'
    BY <1>1, SlotsKept, RowsKept, CachesKept, QueueKept DEF TypeOK, RowsOK, CachesOK
  <2>2. RolledBackCreateLeavesNothing'
    BY <1>1, RowsKept, CachesKept DEF RolledBackCreateLeavesNothing, RowsOK, CachesOK
  <2> QED BY <1>1, <2>1, <2>2, SlotsKept DEF IInv
<1>2. CASE UNCHANGED vars
  BY <1>2 DEF vars, IInv, TypeOK, SlotsFit, OneCreator, RolledBackCreateLeavesNothing
<1> QED BY <1>1, <1>2

LEMMA Inductive == Spec => []IInv
BY InitHolds, NextKeeps, PTL DEF Spec

\* Every variable keeps its type, whichever requests, jobs and failures there
\* are: a job never has three failures behind it (attempts: 3).
THEOREM TypeTheorem == Spec => []TypeOK
<1>1. IInv => TypeOK
  BY DEF IInv
<1> QED BY Inductive, <1>1, PTL

\* A create that was rolled back leaves no row and no cached copy, though the
\* job it queued before its commit is run, and may be retried.
THEOREM RolledBackTheorem == Spec => []RolledBackCreateLeavesNothing
<1>1. IInv => RolledBackCreateLeavesNothing
  BY DEF IInv
<1> QED BY Inductive, <1>1, PTL

-----------------------------------------------------------------------------
(* Stale keys (StaleTaskIsExplained, StaleStatsAreExplained)               *)

\* A key becomes stale, by no late fill, when its truth changes; a key that stays
\* stale is still owed its delete.
LEMMA BecomesStale ==
    ASSUME NEW k, Coherent(k), ~FilledLate(k), ~DeleteLost(k), ~Coherent(k)'
    PROVE  Entry(k)' # None /\ Truth(k)' # Truth(k) /\ ~Owed(k)'
<1>1. Stale(k)' /\ ~Owed(k)' /\ Entry(k)' # None /\ Entry(k)' # Truth(k)'
  BY DEF Coherent, Stale
<1>2. Entry(k)' = Entry(k) \/ Entry(k)' = Truth(k) \/ Entry(k)' = Truth(k)'
  BY DEF FilledLate
<1>3. ~Owed(k)
  BY <1>1 DEF Owed, DeleteLost
<1>4. ~Stale(k)
  BY <1>3 DEF Coherent
<1> QED BY <1>1, <1>2, <1>4 DEF Stale

\* A write changes the row of its task, and then owes the deletes of the keys of
\* the task and of its owner, but that a create owes none of the task's.
LEMMA WriteOwes ==
    ASSUME IInv, NEW s \in Slots, StatusWrites(s) \/ Commit(s) \/ Remove(s)
    PROVE  LET t == slot[s].task
           IN  /\ t \in Tasks
               /\ \A q \in Tasks : q # t => row'[q] = row[q]
               /\ <<"user", Owner[t]>> \in slot'[s].owes
               /\ taskCache'[t] # None => <<"task", t>> \in slot'[s].owes
<1> DEFINE t == slot[s].task
<1>1. slot \in [Slots -> SlotType] /\ Shape(slot[s]) /\ KnowsTask(slot[s], life)
  BY SlotFits DEF Fits
<1>2. t \in Tasks
  BY <1>1 DEF StatusWrites, Commit, Remove, At, Shape, AtTask
<1>3. \A q \in Tasks : q # t => row'[q] = row[q]
  BY DEF StatusWrites, Commit, Remove, IInv, TypeOK
<1>4. ASSUME NEW keys, Owe(s, keys) PROVE slot'[s].owes = keys
  BY <1>1, <1>4 DEF Owe, Idle
<1>5. CASE Owe(s, KeysOf(t))
  BY <1>2, <1>3, <1>4, <1>5 DEF KeysOf
<1>6. CASE ~Owe(s, KeysOf(t))
  <2>1. Owe(s, {<<"user", Owner[t]>>}) /\ life[t] = "given"
    BY <1>1, <1>6 DEF StatusWrites, Commit, Remove, At, KnowsTask, Held
  <2>2. taskCache'[t] = None
    BY <1>2, <2>1, OnlyBornAreSeen DEF StatusWrites, Commit, Remove, caches
  <2> QED BY <1>2, <1>3, <1>4, <2>1, <2>2
<1> QED BY <1>5, <1>6

\* A batch owes the deletes of its tasks' keys, and of the keys of its user if it
\* knows one.
LEMMA BatchesOwe ==
    ASSUME IInv, NEW c \in Clients, Request(c), NEW t \in Tasks, row'[t] # row[t]
    PROVE  /\ <<"task", t>> \in slot'[c].owes
           /\ \/ <<"user", Owner[t]>> \in slot'[c].owes
              \/ slot'[c].op \in AdminOps /\ slot[c].op \notin AdminOps
<1>1. PICK ids \in SUBSET Tasks, u \in Users \cup {None} :
          (\E p \in Patch : BatchUpdate(c, ids, u, p)) \/ BatchDelete(c, ids, u)
  BY DEF Request, Create, Open, BatchFails, Ask
<1>2. ASSUME NEW op, NEW after, RunBatch(c, op, ids, u, after), u = None => op \in AdminOps
      PROVE  /\ <<"task", t>> \in slot'[c].owes
             /\ \/ <<"user", Owner[t]>> \in slot'[c].owes
                \/ slot'[c].op \in AdminOps /\ slot[c].op \notin AdminOps
  <2>1. /\ slot' = [slot EXCEPT ![c] = [Idle EXCEPT !.pc = "invalidate", !.op = op,
                                                    !.owes = BatchOwes(ids, u)]]
        /\ slot[c].pc = "idle"
    BY <1>2 DEF RunBatch, Receive, At
  <2>2. slot'[c].op = op /\ slot'[c].owes = BatchOwes(ids, u)
    BY <2>1, SlotFits DEF Slots, Idle
  <2>3. t \in Affected(ids, u)
    BY <1>2 DEF RunBatch
  <2>4. <<"task", t>> \in BatchOwes(ids, u)
    BY <2>3 DEF Affected, BatchOwes
  <2>5. u # None => <<"user", Owner[t]>> \in BatchOwes(ids, u)
    BY <2>3 DEF Affected, BatchOwes
  <2>6. slot[c].op \notin AdminOps
    BY <2>1, SlotFits, NoneAssumption DEF Slots, Shape, BatchOps
  <2> QED BY <1>2, <2>2, <2>4, <2>5, <2>6
<1>3. ASSUME NEW p \in Patch, BatchUpdate(c, ids, u, p)
      PROVE  /\ <<"task", t>> \in slot'[c].owes
             /\ \/ <<"user", Owner[t]>> \in slot'[c].owes
                \/ slot'[c].op \in AdminOps /\ slot[c].op \notin AdminOps
  <2> DEFINE after == [q \in Affected(ids, u) |-> Merge(row[q], p)]
             op == IF u = None THEN "adminBatchUpdate" ELSE "batchUpdate"
  <2>1. RunBatch(c, op, ids, u, after) /\ (u = None => op \in AdminOps)
    BY <1>3 DEF BatchUpdate, AdminOps
  <2> HIDE DEF after, op
  <2> QED BY <1>2, <2>1
<1>4. CASE BatchDelete(c, ids, u)
  <2> DEFINE after == [q \in Tasks |-> None]
             op == IF u = None THEN "adminBatchDelete" ELSE "batchDelete"
  <2>1. RunBatch(c, op, ids, u, after) /\ (u = None => op \in AdminOps)
    BY <1>4 DEF BatchDelete, AdminOps
  <2> HIDE DEF after, op
  <2> QED BY <1>2, <2>1
<1> QED BY <1>1, <1>3, <1>4

\* The statistics of a user change with the rows of the user's tasks only.
LEMMA StatsChangeWithRows ==
    ASSUME NEW u, \A t \in Tasks : Owner[t] = u => row'[t] = row[t]
    PROVE  StatsOf(u)' = StatsOf(u)
<1>1. RowsOf(u)' = RowsOf(u) /\ \A t \in RowsOf(u) : row'[t] = row[t]
  BY DEF RowsOf
<1>2. ASSUME NEW st
      PROVE  {t \in RowsOf(u)' : row'[t].status = st} = {t \in RowsOf(u) : row[t].status = st}
  BY <1>1
<1>3. StatusCounts(u)' = StatusCounts(u)
  BY <1>2 DEF StatusCounts
<1> QED BY <1>1, <1>3 DEF StatsOf, PriorityCounts

LEMMA TaskStaysCoherent ==
    ASSUME IInv, Next, NEW t \in Tasks PROVE StaysCoherent(<<"task", t>>)
<1> DEFINE k == <<"task", t>>
<1>1. Entry(k)' = taskCache'[t] /\ Truth(k) = row[t] /\ Truth(k)' = row'[t]
  BY DEF Entry, Truth
<1> HIDE DEF k
<1>2. SUFFICES ASSUME Coherent(k), ~FilledLate(k), ~DeleteLost(k), ~Coherent(k)' PROVE FALSE
  BY DEF StaysCoherent, k
<1>3. taskCache'[t] # None /\ row'[t] # row[t] /\ ~Owed(k)'
  BY <1>1, <1>2, BecomesStale
<1>4. \/ \E s \in Slots : StatusWrites(s) \/ Commit(s) \/ Remove(s)
      \/ \E c \in Clients : Request(c)
  BY <1>3, OtherSteps
<1>5. ASSUME NEW s \in Slots, StatusWrites(s) \/ Commit(s) \/ Remove(s) PROVE k \in slot'[s].owes
  BY <1>3, <1>5, WriteOwes DEF k
<1>6. ASSUME NEW c \in Clients, Request(c) PROVE k \in slot'[c].owes
  BY <1>3, <1>6, BatchesOwe DEF k
<1> QED BY <1>3, <1>4, <1>5, <1>6 DEF Owed, Slots

LEMMA StatsStayCoherent ==
    ASSUME IInv, Next, NEW u \in Users PROVE StaysCoherent(<<"user", u>>)
<1> DEFINE k == <<"user", u>>
<1>1. Truth(k) = StatsOf(u) /\ Truth(k)' = StatsOf(u)' /\ k[1] = "user"
  BY DEF Truth
<1> HIDE DEF k
<1>2. SUFFICES ASSUME Coherent(k), ~FilledLate(k), ~DeleteLost(k), ~OwnerUnknown(k), ~Coherent(k)'
               PROVE  FALSE
  BY DEF StaysCoherent, k
<1>3. StatsOf(u)' # StatsOf(u) /\ ~Owed(k)'
  BY <1>1, <1>2, BecomesStale
<1>4. PICK t \in Tasks : Owner[t] = u /\ row'[t] # row[t]
  BY <1>3, StatsChangeWithRows
<1>5. \/ \E s \in Slots : StatusWrites(s) \/ Commit(s) \/ Remove(s)
      \/ \E c \in Clients : Request(c)
  BY <1>4, OtherSteps
<1>6. ASSUME NEW s \in Slots, StatusWrites(s) \/ Commit(s) \/ Remove(s) PROVE k \in slot'[s].owes
  BY <1>4, <1>6, WriteOwes DEF k
<1>7. ASSUME NEW c \in Clients, Request(c) PROVE k \in slot'[c].owes
  BY <1>1, <1>2, <1>4, <1>7, BatchesOwe DEF k, OwnerUnknown
<1> QED BY <1>3, <1>5, <1>6, <1>7 DEF Owed, Slots

\* A cached task that disagrees with its row is about to be deleted from the
\* cache by the handler that wrote the row, unless a reader filled the key late
\* or Redis lost the delete: of all writers, none forgets the key.
THEOREM StaleTaskTheorem == Spec => StaleTaskIsExplained
<1> DEFINE Kept == \A t \in Tasks : StaysCoherent(<<"task", t>>)
<1>1. IInv /\ [Next]_vars => Kept \/ UNCHANGED vars
  BY TaskStaysCoherent
<1>2. IInv /\ [Next]_vars => [Kept]_vars
  BY <1>1
<1>3. Spec => [][Kept]_vars
  BY Inductive, <1>2, PTL DEF Spec
<1> QED BY <1>3 DEF StaleTaskIsExplained

\* The same of the statistics of a user, where a batch of an administrator is the
\* one writer that does not delete them.
THEOREM StaleStatsTheorem == Spec => StaleStatsAreExplained
<1> DEFINE Kept == \A u \in Users : StaysCoherent(<<"user", u>>)
<1>1. IInv /\ [Next]_vars => Kept \/ UNCHANGED vars
  BY StatsStayCoherent
<1>2. IInv /\ [Next]_vars => [Kept]_vars
  BY <1>1
<1>3. Spec => [][Kept]_vars
  BY Inductive, <1>2, PTL DEF Spec
<1> QED BY <1>3 DEF StaleStatsAreExplained

-----------------------------------------------------------------------------
(* The table as a store (ImplementsTaskStore, GoneTasksStayGone)           *)

Rows == {t \in Tasks : row[t] # None}
Creates ==
    \E c \in Clients, t \in Tasks, status \in Statuses, text \in Texts : Create(c, t, status, text)

LEMMA HandlerCopies ==
    ASSUME IInv, NEW s \in Slots, slot[s].pc \in Held PROVE slot[s].task \in Copied
BY SlotFits DEF Copied, Shape, AtTask, Held

\* What a handler has found is of the task it was looking for.
LEMMA FoundKeepsTask ==
    ASSUME IInv, NEW s \in Slots, slot[s].pc \in {"lookup", "fill"}, NEW e, NEW plain,
           Found(s, e, plain), slot'[s].pc \in Held
    PROVE  slot'[s].task = slot[s].task
<1>1. slot \in [Slots -> SlotType] /\ slot[s] \in SlotType /\ slot[s].op \in Finders
  BY SlotFits DEF Shape, Finding
<1>2. CASE slot[s].op = "findOne"
  BY <1>1, <1>2 DEF Found, Idle, Held
<1>3. CASE slot[s].op = "remove"
  BY <1>1, <1>3 DEF Found, SlotType
<1>4. CASE slot[s].op = "updateStatus"
  BY <1>1, <1>4 DEF Found, SlotType
<1>5. CASE slot[s].op = "update" /\ plain
  BY <1>1, <1>5 DEF Found, SlotType
<1>6. CASE slot[s].op = "update" /\ ~plain
  BY <1>1, <1>6 DEF Found, SlotType
<1> QED BY <1>1, <1>2, <1>3, <1>4, <1>5, <1>6 DEF Finders

\* A running handler takes its copy from the row, from the cache, or has it.
LEMMA StepCopies ==
    ASSUME IInv, NEW s \in Slots, Step(s), slot'[s].pc \in Held
    PROVE  slot'[s].task \in Copied \cup Rows
<1>1. slot \in [Slots -> SlotType] /\ slot[s] \in SlotType /\ Shape(slot[s])
  BY SlotFits
<1>2. CASE FindCached(s)
  <2>1. slot'[s].task = slot[s].task
    BY <1>2, FoundKeepsTask DEF FindCached, At
  <2> QED BY <1>1, <1>2, <2>1 DEF FindCached, At, Shape, AtTask, Copied
<1>3. CASE FindQuery(s)
  <2>1. slot'[s].task = slot[s].task
    BY <1>1, <1>3 DEF FindQuery, SlotType
  <2> QED BY <1>1, <1>3, <2>1 DEF FindQuery, At, Shape, AtTask, Rows
<1>4. CASE FindFills(s)
  <2>1. slot[s].pc \in Held /\ slot'[s].task = slot[s].task
    BY <1>4, FoundKeepsTask DEF FindFills, At, Held
  <2> QED BY <2>1, HandlerCopies
<1>5. CASE SaveSelects(s) \/ SaveWrites(s) \/ Enqueue(s)
  <2>1. slot[s].pc \in Held
    BY <1>5 DEF SaveSelects, SaveWrites, Enqueue, At, Held
  <2>2. slot'[s].task = slot[s].task
    BY <1>1, <1>5 DEF SaveSelects, SaveWrites, Enqueue, Goto, SlotType
  <2> QED BY <2>1, <2>2, HandlerCopies
<1>6. CASE \/ FindMisses(s) \/ CommitFails(s) \/ AskMisses(s) \/ ListQuery(s)
           \/ (\E part \in {"byStatus", "byPriority"} : StatsQuery(s, part))
           \/ \E k \in CacheKey : Invalidate(s, k)
  BY <1>1, <1>6
  DEF FindMisses, CommitFails, AskMisses, ListQuery, StatsQuery, Invalidate, At, Goto, SlotType, Held
<1>7. CASE \/ FindNothing(s) \/ StatusWrites(s) \/ WriteConflicts(s) \/ Commit(s) \/ Rollback(s)
           \/ Remove(s) \/ Finish(s) \/ FailRequest(s) \/ FailJob(s) \/ AskCached(s)
           \/ ListFills(s) \/ StatsFills(s)
  <2>1. Throw(s) \/ (\E keys : Owe(s, keys)) \/ slot' = [slot EXCEPT ![s] = Idle]
    BY <1>7 DEF FindNothing, StatusWrites, WriteConflicts, Commit, Rollback, Remove, Finish,
                FailRequest, FailJob, AskCached, ListFills, StatsFills, Answer
  <2>2. CASE Throw(s)
    <3> DEFINE x == [Idle EXCEPT !.pc = "failed", !.op = slot[s].op, !.task = slot[s].task,
                                 !.job = slot[s].job]
    <3>1. slot' = [slot EXCEPT ![s] = x] /\ x.pc \notin Held
      BY <2>2 DEF Throw, Idle, Held
    <3> QED BY <1>1, <3>1
  <2>3. ASSUME NEW keys, Owe(s, keys) PROVE slot'[s].pc \notin Held
    <3> DEFINE x == [Idle EXCEPT !.pc = "invalidate", !.owes = keys]
    <3>1. slot' = [slot EXCEPT ![s] = x] /\ x.pc \notin Held
      BY <2>3 DEF Owe, Idle, Held
    <3> QED BY <1>1, <3>1
  <2>4. CASE slot' = [slot EXCEPT ![s] = Idle]
    BY <1>1, <2>4 DEF Idle, Held
  <2> QED BY <2>1, <2>2, <2>3, <2>4
<1> QED BY <1>2, <1>3, <1>4, <1>5, <1>6, <1>7 DEF Step

LEMMA StepMovesOne ==
    ASSUME IInv, NEW s \in Slots, Step(s), NEW q \in Slots, q # s PROVE slot'[q] = slot[q]
<1>1. CASE Commit(s)
  BY <1>1, SlotFits DEF Commit, Owe
<1>2. CASE ~Commit(s)
  BY <1>2, StepMoves, SlotFits DEF Moved
<1> QED BY <1>1, <1>2

\* Nobody makes a copy of a task of which there is nothing, but its create.
LEMMA CopiesOfWhatIs ==
    ASSUME IInv, Next, ~Creates PROVE Store!Copy
<1> SUFFICES ASSUME NEW t \in Tasks, t \in Copied' PROVE t \in Copied \cup Rows
  BY DEF Store!Copy, Rows, Copied
<1>1. CASE taskCache'[t] # None
  <2>1. ASSUME NEW s \in Slots, FindFills(s) PROVE t \in Copied
    <3>1. slot[s].task \in Copied
      BY <2>1, HandlerCopies DEF FindFills, At, Held
    <3>2. taskCache'[t] = taskCache[t] \/ t = slot[s].task
      BY <2>1 DEF FindFills, IInv, TypeOK
    <3> QED BY <1>1, <3>1, <3>2 DEF Copied
  <2>2. ASSUME NEW k \in CacheKey, DeleteKey(k) \/ Expire(k) PROVE t \in Copied
    <3>1. taskCache' = taskCache \/ taskCache' = [taskCache EXCEPT ![k[2]] = None]
      BY <2>2 DEF DeleteKey, Expire
    <3> QED BY <1>1, <3>1 DEF Copied, IInv, TypeOK
  <2>3. ASSUME UNCHANGED taskCache PROVE t \in Copied
    BY <1>1, <2>3 DEF Copied
  <2> QED BY <2>1, <2>2, <2>3, OtherSteps DEF Invalidate, caches
<1>2. ASSUME NEW q \in Slots, slot'[q].task = t, slot'[q].pc \in Held PROVE t \in Copied \cup Rows
  <2>1. CASE slot'[q] = slot[q]
    BY <1>2, <2>1 DEF Copied
  <2>2. ASSUME NEW s \in Slots, Step(s) PROVE t \in Copied \cup Rows
    BY <1>2, <2>1, <2>2, StepCopies, StepMovesOne
  <2>3. ASSUME NEW s \in Slots, NEW x, slot' = [slot EXCEPT ![s] = x], x.pc \notin Held
        PROVE  t \in Copied \cup Rows
    BY <1>2, <2>1, <2>3, SlotFits
  <2>4. ASSUME NEW c \in Clients, Request(c) PROVE t \in Copied \cup Rows
    <3> DEFINE Took == t \in Copied \cup Rows
    <3>1. ASSUME NEW op, NEW x, Receive(c, op, x), x.pc \notin Held PROVE Took
      BY <2>3, <3>1 DEF Receive, Slots
    <3> HIDE DEF Took
    <3>2. ASSUME NEW op, NEW u, NEW p, Open(c, op, u, p) PROVE Took
      <4> DEFINE x == [Idle EXCEPT !.pc = "lookup", !.op = op, !.task = u, !.patch = p]
      <4>1. Receive(c, op, x) /\ x.pc \notin Held
        BY <3>2 DEF Open, Idle, Held
      <4> QED BY <3>1, <4>1
    <3>3. ASSUME NEW op, NEW ids, NEW u, NEW after, RunBatch(c, op, ids, u, after) PROVE Took
      <4> DEFINE x == [Idle EXCEPT !.pc = "invalidate", !.op = op, !.owes = BatchOwes(ids, u)]
      <4>1. Receive(c, op, x) /\ x.pc \notin Held
        BY <3>3 DEF RunBatch, Idle, Held
      <4> QED BY <3>1, <4>1
    <3>4. ASSUME NEW op, BatchFails(c, op) PROVE Took
      <4> DEFINE x == [Idle EXCEPT !.pc = "rollback", !.op = op]
      <4>1. Receive(c, op, x) /\ x.pc \notin Held
        BY <3>4 DEF BatchFails, Idle, Held
      <4> QED BY <3>1, <4>1
    <3>5. ASSUME NEW op \in {"list", "stats"}, NEW u, Ask(c, op, u) PROVE Took
      <4> DEFINE x == [Idle EXCEPT !.pc = op, !.op = op, !.user = u, !.ent = NoStats]
      <4>1. Receive(c, op, x) /\ x.pc \notin Held
        BY <3>5 DEF Ask, Idle, Held
      <4> QED BY <3>1, <4>1
    <3>6. ASSUME NEW ids, NEW u, NEW p, BatchUpdate(c, ids, u, p) PROVE Took
      BY <3>3, <3>6 DEF BatchUpdate
    <3>7. ASSUME NEW ids, NEW u, BatchDelete(c, ids, u) PROVE Took
      BY <3>3, <3>7 DEF BatchDelete
    <3>8. Took
      BY <2>4, <3>2, <3>4, <3>5, <3>6, <3>7 DEF Request, Creates
    <3> QED BY <3>8 DEF Took
  <2>5. ASSUME NEW w \in Workers, TakeJob(w) PROVE t \in Copied \cup Rows
    BY <2>3, <2>5 DEF TakeJob, Slots, Idle, Held
  <2>6. CASE BackoffEnds \/ \E k \in CacheKey : Expire(k)
    BY <2>1, <2>6 DEF BackoffEnds, Expire
  <2> QED BY <2>2, <2>4, <2>5, <2>6 DEF Next
<1> QED BY <1>1, <1>2 DEF Copied

LEMMA CreateGives ==
    ASSUME IInv, NEW c \in Clients, NEW t \in Tasks, NEW st, NEW text, Create(c, t, st, text)
    PROVE  Store!Give(t)
<1> DEFINE x == [Idle EXCEPT !.pc = "write", !.op = "create", !.task = t,
                             !.ent = [status |-> st, text |-> text], !.announce = TRUE]
<1>1. slot' = [slot EXCEPT ![c] = x] /\ slot[c].pc = "idle" /\ UNCHANGED <<row, taskCache>>
  BY DEF Create, Receive, At, caches
<1>2. x.pc \in Held /\ x.task = t /\ c \in Slots
  BY DEF Idle, Held, Slots
<1> HIDE DEF x
<1>3. slot'[c] = x /\ \A q \in Slots : q # c => slot'[q] = slot[q]
  BY <1>1, <1>2, SlotFits
<1>4. slot[c].pc \notin Held
  BY <1>1 DEF Held
<1>5. Copied' = Copied \cup {t}
  BY <1>1, <1>2, <1>3, <1>4 DEF Copied
<1> QED BY <1>1, <1>5 DEF Store!Give, Create

\* A write, a delete or nothing at one row.
LEMMA OneRowChanges ==
    ASSUME IInv, NEW t \in Tasks, row[t] # None, NEW v \in Row \cup {None},
           row' = [row EXCEPT ![t] = v], life' = life, Store!Copy
    PROVE  Store!Change({t})
<1>1. [q \in {t} |-> v] \in [{t} -> Row \cup {None}]
  OBVIOUS
<1>2. row' = [q \in Tasks |-> IF q \in {t} THEN [p \in {t} |-> v][q] ELSE row[q]]
  BY DEF IInv, TypeOK
<1> QED BY <1>1, <1>2 DEF Store!Change

LEMMA NothingChanges ==
    ASSUME IInv, row' = row, life' = life, Store!Copy PROVE Store!Change({})
<1>1. PICK after : after \in [{} -> Row \cup {None}]
  <2>1. [q \in {} |-> None] \in [{} -> Row \cup {None}]
    OBVIOUS
  <2> QED BY <2>1
<1>2. row' = [q \in Tasks |-> IF q \in {} THEN after[q] ELSE row[q]]
  BY DEF IInv, TypeOK
<1> QED BY <1>1, <1>2 DEF Store!Change

LEMMA WriteStores ==
    ASSUME IInv, NEW s \in Slots, StatusWrites(s) \/ Commit(s) \/ Remove(s), Store!Copy
    PROVE  Store!Next
<1> DEFINE y == slot[s]
           t == y.task
<1>1. y \in SlotType /\ Shape(y) /\ KnowsTask(y, life)
  BY SlotFits DEF Fits
<1>2. t \in Tasks /\ row[t] \in Row \cup {None} /\ row \in [Tasks -> Row \cup {None}]
  BY <1>1 DEF StatusWrites, Commit, Remove, At, Shape, AtTask, IInv, TypeOK
<1>3. ASSUME NEW v \in Row \cup {None}, row' = [row EXCEPT ![t] = v], life' = life,
             row[t] # None \/ v = None
      PROVE  Store!Next
  <2>1. CASE row[t] # None
    BY <1>2, <1>3, <2>1, OneRowChanges DEF Store!Next
  <2>2. CASE row[t] = None
    <3>1. row' = row
      BY <1>2, <1>3, <2>2
    <3> QED BY <1>3, <3>1, NothingChanges DEF Store!Next
  <2> QED BY <2>1, <2>2
<1>4. CASE Remove(s)
  BY <1>3, <1>4 DEF Remove
<1>5. CASE StatusWrites(s) \/ Commit(s)
  <2> DEFINE v == Saved(row[t], y.ent, y.seen)
  <2>1. y.pc \in Held /\ row' = [row EXCEPT ![t] = v] /\ t \in Copied
    BY <1>5, HandlerCopies DEF StatusWrites, Commit, At, Held
  <2>2. y.ent \in Row /\ (y.op = "create" => y.seen = None)
    BY <1>1, <2>1 DEF Shape
  <2>3. v \in Row \cup {None}
    BY <1>1, <1>2, <2>2, SavedIsRow DEF SlotType
  <2>4. y.seen = None => v \in Row
    BY <2>2 DEF Saved
  <2>5. row[t] = None /\ y.seen # None => v = None
    BY DEF Saved
  <2> HIDE DEF v
  <2>6. CASE y.op = "create"
    <3>1. life[t] = "given" /\ life' = [life EXCEPT ![t] = "born"] /\ v \in Row
      BY <1>1, <1>5, <2>1, <2>2, <2>4, <2>6 DEF StatusWrites, Commit, KnowsTask
    <3>2. Store!Bear(t)
      BY <2>1, <3>1 DEF Store!Bear, Store!Put
    <3> QED BY <1>2, <3>2 DEF Store!Next
  <2>7. CASE y.op # "create"
    <3>1. life' = life /\ life[t] = "born"
      BY <1>1, <1>5, <2>1, <2>7 DEF StatusWrites, Commit, KnowsTask
    <3>2. CASE row[t] = None /\ y.seen = None
      <4>1. Store!Return(t)
        BY <2>1, <2>4, <3>1, <3>2 DEF Store!Return, Store!Put
      <4> QED BY <1>2, <4>1 DEF Store!Next
    <3> QED BY <1>3, <2>1, <2>3, <2>5, <3>1, <3>2
  <2> QED BY <2>6, <2>7
<1> QED BY <1>4, <1>5

LEMMA RequestStores ==
    ASSUME IInv, NEW c \in Clients, Request(c), Store!Copy PROVE Store!Next
<1>1. ASSUME NEW op, NEW ids \in SUBSET Tasks, NEW u, NEW after, RunBatch(c, op, ids, u, after),
             \A t \in Affected(ids, u) : after[t] \in Row \cup {None}
      PROVE  Store!Next
  <2> DEFINE S == Affected(ids, u)
             now == [t \in S |-> after[t]]
  <2>1. S \in SUBSET Tasks /\ \A t \in S : row[t] # None
    BY DEF Affected
  <2>2. now \in [S -> Row \cup {None}]
    BY <1>1
  <2>3. row' = [t \in Tasks |-> IF t \in S THEN now[t] ELSE row[t]] /\ life' = life
    BY <1>1 DEF RunBatch
  <2> HIDE DEF S, now
  <2>4. Store!Change(S)
    BY <2>1, <2>2, <2>3 DEF Store!Change
  <2> QED BY <2>1, <2>4 DEF Store!Next
<1>2. ASSUME NEW ids \in SUBSET Tasks, NEW u \in Users \cup {None}, NEW p \in Patch,
             BatchUpdate(c, ids, u, p)
      PROVE  Store!Next
  <2> DEFINE after == [t \in Affected(ids, u) |-> Merge(row[t], p)]
             op == IF u = None THEN "adminBatchUpdate" ELSE "batchUpdate"
  <2>1. \A t \in Affected(ids, u) : after[t] \in Row
    BY MergeIsRow DEF Affected, IInv, TypeOK
  <2>2. RunBatch(c, op, ids, u, after)
    BY <1>2 DEF BatchUpdate
  <2> HIDE DEF after, op
  <2> QED BY <1>1, <2>1, <2>2
<1>3. ASSUME NEW ids \in SUBSET Tasks, NEW u \in Users \cup {None}, BatchDelete(c, ids, u)
      PROVE  Store!Next
  <2> DEFINE after == [t \in Tasks |-> None]
             op == IF u = None THEN "adminBatchDelete" ELSE "batchDelete"
  <2>1. \A t \in Affected(ids, u) : after[t] = None
    BY DEF Affected
  <2>2. RunBatch(c, op, ids, u, after)
    BY <1>3 DEF BatchDelete
  <2> HIDE DEF after, op
  <2> QED BY <1>1, <2>1, <2>2
<1>4. ASSUME \/ \E op \in {"findOne", "remove"}, t \in Tasks : Open(c, op, t, None)
             \/ \E t \in Tasks, p \in Patch : Open(c, "update", t, p)
             \/ \E op \in BatchOps : BatchFails(c, op)
             \/ \E op \in {"list", "stats"}, u \in Users : Ask(c, op, u)
      PROVE  Store!Next
  <2>1. row' = row /\ life' = life
    BY <1>4 DEF Open, BatchFails, Ask
  <2> QED BY <2>1, NothingChanges DEF Store!Next
<1> QED BY <1>2, <1>3, <1>4, CreateGives DEF Request, Store!Next

LEMMA StoreStep == ASSUME IInv, [Next]_vars PROVE [Store!Next]_(Store!vars)
<1>1. CASE Creates
  BY <1>1, CreateGives DEF Creates, Store!Next
<1>2. CASE Next /\ ~Creates
  <2>1. Store!Copy
    BY <1>2, CopiesOfWhatIs
  <2>2. CASE UNCHANGED <<row, life>>
    BY <2>1, <2>2, NothingChanges DEF Store!Next
  <2>3. CASE \E s \in Slots : StatusWrites(s) \/ Commit(s) \/ Remove(s)
    BY <2>1, <2>3, WriteStores
  <2>4. CASE \E c \in Clients : Request(c)
    BY <2>1, <2>4, RequestStores DEF Store!Next
  <2> QED BY <1>2, <2>2, <2>3, <2>4, OtherSteps
<1>3. CASE UNCHANGED vars
  BY <1>3 DEF vars, Store!vars, Copied
<1> QED BY <1>1, <1>2, <1>3

\* Whatever the interleaving of requests, jobs, retries, transactions and cache:
\* a task is born once, rows change by writes that found them, and a deleted task
\* comes back only from a copy that a handler or the cache has kept.
THEOREM StoreTheorem == Spec => ImplementsTaskStore
<1>1. IInv /\ Init => Store!Init
  BY DEF Init, Store!Init, IInv, TypeOK, Copied, Idle, Held
<1>2. IInv /\ [Next]_vars => [Store!Next]_(Store!vars)
  BY StoreStep
<1> QED BY <1>1, <1>2, InitHolds, Inductive, PTL DEF Spec, Store!Spec, ImplementsTaskStore

LEMMA GoneStays ==
    ASSUME IInv, [Store!Next]_(Store!vars), NEW t \in Tasks, Store!Gone(t) PROVE Store!Gone(t)'
<1>1. row \in [Tasks -> Row \cup {None}] /\ life \in [Tasks -> {"never", "given", "born"}]
  BY DEF IInv, TypeOK
<1>2. life[t] # "never" /\ row[t] = None /\ t \notin Copied
  BY DEF Store!Gone
<1>3. SUFFICES life'[t] # "never" /\ row'[t] = None /\ t \notin Copied'
  BY DEF Store!Gone
<1>4. ASSUME NEW u \in Tasks, Store!Give(u)
      PROVE  life'[t] # "never" /\ row'[t] = None /\ t \notin Copied'
  BY <1>1, <1>2, <1>4 DEF Store!Give
<1>5. ASSUME NEW u \in Tasks, Store!Bear(u) \/ Store!Return(u)
      PROVE  life'[t] # "never" /\ row'[t] = None /\ t \notin Copied'
  BY <1>1, <1>2, <1>5 DEF Store!Bear, Store!Return, Store!Put, Store!Copy
<1>6. ASSUME NEW S \in SUBSET Tasks, Store!Change(S)
      PROVE  life'[t] # "never" /\ row'[t] = None /\ t \notin Copied'
  BY <1>1, <1>2, <1>6 DEF Store!Change, Store!Copy
<1>7. CASE UNCHANGED Store!vars
  BY <1>2, <1>7 DEF Store!vars
<1> QED BY <1>4, <1>5, <1>6, <1>7 DEF Store!Next

\* A task that was deleted, or whose create was rolled back, never comes back once
\* no handler and no key of the cache keeps a copy: a job that speaks of it, and
\* its retries, find nothing.
THEOREM GoneTheorem == Spec => GoneTasksStayGone
<1> DEFINE Stay == \A t \in Tasks : Store!Gone(t) => Store!Gone(t)'
<1>1. IInv /\ [Next]_vars => [Stay]_(Store!vars)
  BY StoreStep, GoneStays
<1>2. Spec => [][Stay]_(Store!vars)
  BY Inductive, <1>1, PTL DEF Spec
<1> QED BY <1>2 DEF GoneTasksStayGone, Store!GoneStaysGone
=============================================================================
