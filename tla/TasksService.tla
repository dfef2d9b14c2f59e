---------------------------- MODULE TasksService ----------------------------
(***************************************************************************)
(* TasksService, its Redis cache and the BullMQ worker that calls it.      *)
(*                                                                         *)
(* A slot is one running handler: a client's request, or a worker with a   *)
(* job.  It keeps what the handler's local variables hold, and its pc is   *)
(* the await it stands at; between two awaits a handler runs alone, so one *)
(* action is the code between two awaits.  PostgreSQL runs at READ         *)
(* COMMITTED: a query sees committed rows, a second writer of a row waits  *)
(* until the first one's transaction ends.                                 *)
(*                                                                         *)
(* A task keeps its owner (Owner), and the requests modelled are those of  *)
(* owners and of administrators: OwnershipGuard and the WHERE on user_id   *)
(* turn the others away without a change of state.                         *)
(***************************************************************************)
EXTENDS Naturals, Sequences, FiniteSets

CONSTANTS Tasks,        \* task ids that create may be given
          Users,        \* users that own tasks
          Owner,        \* the owner of each task
          Statuses,     \* TaskStatus
          Pending,      \* TaskStatus.PENDING, the column's default
          Texts,        \* everything of a task but its status
          Clients,      \* request slots
          Workers,      \* worker slots
          None,         \* null
          Ops,          \* which requests the clients make
          Faults,       \* which services may fail: "redis", "queue", "db"
          Backlog,      \* bound on the jobs in the queue at the start
          MaxRequests   \* bound on the requests made

ASSUME TasksAssumption == IsFiniteSet(Tasks)
ASSUME OwnerAssumption == Owner \in [Tasks -> Users]
ASSUME StatusAssumption == Pending \in Statuses
ASSUME SlotsAssumption == Clients \cap Workers = {}
ASSUME BoundAssumption == MaxRequests \in Nat /\ Backlog \in Nat

VARIABLES row,          \* committed row of each task, or None
          life,         \* history: is the id not generated, generated, or committed
          taskCache,    \* Redis: task:<id>
          listCache,    \* Redis: one key tasks:list:<parameters> per user
          statsCache,   \* Redis: task:stats:<user>
          waiting,      \* BullMQ: jobs ready to run, oldest first
          delayed,      \* BullMQ: failed jobs that wait for their backoff
          slot,         \* the running handlers
          requests      \* requests made so far

vars == <<row, life, taskCache, listCache, statsCache, waiting, delayed,
          slot, requests>>

Slots == Clients \cup Workers
Fields == {"status", "text"}
Row == [status : Statuses, text : Texts]
Patch == [status : Statuses \cup {None}, text : Texts \cup {None}]
MaxAttempts == 3
Job == [task : Tasks, status : Statuses, failures : 0 .. MaxAttempts - 1]
AdminOps == {"adminBatchUpdate", "adminBatchDelete"}
BatchOps == {"batchUpdate", "batchDelete"} \cup AdminOps
ASSUME NoneAssumption ==
    None \notin Tasks \cup Users \cup Statuses \cup Texts \cup BatchOps \cup {"updateStatus"}
CacheKey == ({"task"} \X Tasks) \cup ({"user"} \X Users)

Idle == [pc |-> "idle", op |-> None, task |-> None, user |-> None,
         patch |-> None, ent |-> None, seen |-> None,
         announce |-> FALSE, job |-> None, owes |-> {}]

-----------------------------------------------------------------------------
(* Data *)

\* Object.assign(task, updateTaskDto) and SET: a field left out stays.
Merge(r, p) == [f \in Fields |-> IF p[f] = None THEN r[f] ELSE p[f]]

\* What save() makes of the committed row: it inserts the entity when its
\* SELECT found nothing, and else writes the columns in which the entity
\* differs from what that SELECT saw, to whatever the row is by then.
Saved(cur, ent, seen) ==
    IF seen = None THEN ent
    ELSE IF cur = None THEN None
    ELSE [f \in Fields |-> IF ent[f] # seen[f] THEN ent[f] ELSE cur[f]]

RowsOf(u) == {t \in Tasks : Owner[t] = u /\ row[t] # None}
ListOf(u) == [data |-> [t \in RowsOf(u) |-> row[t]]]
StatusCounts(u) == [s \in Statuses |-> Cardinality({t \in RowsOf(u) : row[t].status = s})]
\* All tasks have one priority, so there is one count.
PriorityCounts(u) == Cardinality(RowsOf(u))
StatsOf(u) == [byStatus |-> StatusCounts(u), byPriority |-> PriorityCounts(u)]
NoStats == [byStatus |-> None, byPriority |-> None]

\* The keys that KEYS cache:tasks:list:*<user>* returns.  buildCacheKey encodes
\* the parameters in base64, whose alphabet has no '-', so the name of a list
\* key never holds a user's UUID.
ListKeysMatching(u) == {}

\* A transaction that has written the row and not ended locks it.
Locked(t) == \E s \in Slots : slot[s].task = t
                              /\ slot[s].pc \in {"enqueue", "commit", "rollback"}

\* Fault: only invalidateCache is called.
KeysOf_ForgetsTask(t) == {<<"user", Owner[t]>>}

\* The cache keys a write of task t invalidates.
KeysOf(t) == {<<"task", t>>, <<"user", Owner[t]>>}

At(s, pc) == slot[s].pc = pc
Goto(s, pc) == slot' = [slot EXCEPT ![s].pc = pc]
\* The handler throws; its locals are gone, but BullMQ still has the job.
Throw(s) == slot' = [slot EXCEPT ![s] =
                [Idle EXCEPT !.pc = "failed", !.op = slot[s].op, !.task = slot[s].task,
                             !.job = slot[s].job]]
\* The write is done: all that is left is to delete these cache keys.
Owe(s, keys) == slot' = [slot EXCEPT ![s] = [Idle EXCEPT !.pc = "invalidate", !.owes = keys]]
Lost(service) == service \in Faults

-----------------------------------------------------------------------------
\* The application starts on the tasks and the jobs that an earlier run of it
\* left in PostgreSQL and in Redis.
Init ==
    /\ row \in [Tasks -> {None} \cup [status : {Pending}, text : Texts]]
    /\ life = [t \in Tasks |-> IF row[t] = None THEN "never" ELSE "born"]
    /\ taskCache = [t \in Tasks |-> None]
    /\ listCache = [u \in Users |-> None]
    /\ statsCache = [u \in Users |-> None]
    /\ \E n \in 0 .. Backlog : waiting \in [1 .. n -> {job \in Job : job.failures = 0}]
    /\ delayed = <<>>
    /\ slot = [s \in Slots |-> Idle]
    /\ requests = 0

caches == <<taskCache, listCache, statsCache>>
queue == <<waiting, delayed>>

\* A request arrives at a client slot.
Receive(c, op, record) ==
    /\ At(c, "idle")
    /\ op \in Ops
    /\ requests < MaxRequests
    /\ requests' = requests + 1
    /\ slot' = [slot EXCEPT ![c] = record]

(* create: the entity is new, so save() goes straight to its INSERT. *)
Create(c, t, status, text) ==
    /\ life[t] = "never"
    /\ life' = [life EXCEPT ![t] = "given"]
    /\ Receive(c, "create",
               [Idle EXCEPT !.pc = "write", !.op = "create", !.task = t,
                            !.ent = [status |-> status, text |-> text],
                            !.announce = TRUE])
    /\ UNCHANGED <<row, caches, queue>>

(* findOne, update and remove start with OwnershipGuard, which reads the   *)
(* row: 404 if there is none.                                              *)
Open(c, op, t, p) ==
    /\ row[t] # None
    /\ Receive(c, op, [Idle EXCEPT !.pc = "lookup", !.op = op, !.task = t, !.patch = p])
    /\ UNCHANGED <<row, life, caches, queue>>

(* The worker takes the oldest job; handleStatusUpdate calls updateStatus. *)
TakeJob(w) ==
    /\ At(w, "idle")
    /\ waiting # <<>>
    /\ slot' = [slot EXCEPT ![w] =
                  [Idle EXCEPT !.pc = "lookup", !.op = "updateStatus",
                               !.task = Head(waiting).task, !.job = Head(waiting)]]
    /\ waiting' = Tail(waiting)
    /\ UNCHANGED <<row, life, caches, delayed, requests>>

-----------------------------------------------------------------------------
(* findOne, and what its callers do with its result before they next wait. *)

\* e is the task found, plain tells whether it is JSON from the cache: an
\* object without a class, which EntityManager.save refuses.
Found(s, e, plain) ==
    slot' = [slot EXCEPT ![s] =
        CASE slot[s].op = "findOne" -> Idle
          [] slot[s].op = "remove" -> [slot[s] EXCEPT !.pc = "delete", !.ent = None]
          [] slot[s].op = "updateStatus" ->
                [slot[s] EXCEPT !.pc = "select",
                                !.ent = [e EXCEPT !.status = slot[s].job.status]]
          [] slot[s].op = "update" /\ plain ->
                [slot[s] EXCEPT !.pc = "failed", !.patch = None]
          [] slot[s].op = "update" /\ ~plain ->
                [slot[s] EXCEPT !.pc = "select", !.patch = None,
                                !.ent = Merge(e, slot[s].patch),
                                !.announce = Merge(e, slot[s].patch).status # e.status]]

FindCached(s) ==
    /\ At(s, "lookup")
    /\ taskCache[slot[s].task] # None
    /\ Found(s, taskCache[slot[s].task], TRUE)
    /\ UNCHANGED <<row, life, caches, queue, requests>>

FindMisses(s) ==
    /\ At(s, "lookup")
    /\ taskCache[slot[s].task] = None \/ Lost("redis")
    /\ Goto(s, "query")
    /\ UNCHANGED <<row, life, caches, queue, requests>>

FindQuery(s) ==
    /\ At(s, "query")
    /\ row[slot[s].task] # None
    /\ slot' = [slot EXCEPT ![s].pc = "fill", ![s].ent = row[slot[s].task]]
    /\ UNCHANGED <<row, life, caches, queue, requests>>

\* Fault: the worker creates the task its job speaks of.
FindNothing_Upserts(s) ==
    /\ At(s, "query")
    /\ row[slot[s].task] = None
    /\ slot[s].op = "updateStatus"
    /\ \E x \in Texts : slot' = [slot EXCEPT ![s].pc = "select",
                                    ![s].ent = [status |-> slot[s].job.status, text |-> x]]
    /\ UNCHANGED <<row, life, caches, queue, requests>>

FindNothing(s) ==
    /\ At(s, "query")
    /\ row[slot[s].task] = None
    /\ Throw(s)
    /\ UNCHANGED <<row, life, caches, queue, requests>>

FindFills(s) ==
    /\ At(s, "fill")
    /\ \/ taskCache' = [taskCache EXCEPT ![slot[s].task] = slot[s].ent]
       \/ Lost("redis") /\ UNCHANGED taskCache
    /\ Found(s, slot[s].ent, FALSE)
    /\ UNCHANGED <<row, life, listCache, statsCache, queue, requests>>

-----------------------------------------------------------------------------
(* save(), the job, and the end of the transaction. *)

\* save() reads the row it is about to write.
SaveSelects(s) ==
    /\ At(s, "select")
    /\ slot' = [slot EXCEPT ![s].pc = "write", ![s].seen = row[slot[s].task]]
    /\ UNCHANGED <<row, life, caches, queue, requests>>

\* An INSERT of an id that is there by now breaks the primary key.
Conflict(s) == slot[s].seen = None /\ row[slot[s].task] # None

\* Fault: the write goes around the query runner, and is there before the commit.
SaveWrites_Outside(s) ==
    /\ At(s, "write")
    /\ slot[s].op \in {"create", "update"}
    /\ ~ Locked(slot[s].task)
    /\ ~ Conflict(s)
    /\ row' = [row EXCEPT ![slot[s].task] = Saved(@, slot[s].ent, slot[s].seen)]
    /\ Goto(s, IF slot[s].announce THEN "enqueue" ELSE "commit")
    /\ UNCHANGED <<life, caches, queue, requests>>

\* Inside the transaction of create and update: written, not committed.
SaveWrites(s) ==
    /\ At(s, "write")
    /\ slot[s].op \in {"create", "update"}
    /\ ~ Locked(slot[s].task)
    /\ ~ Conflict(s)
    /\ Goto(s, IF slot[s].announce THEN "enqueue" ELSE "commit")
    /\ UNCHANGED <<row, life, caches, queue, requests>>

\* tasksRepository.save of updateStatus is a transaction of its own.
StatusWrites(s) ==
    /\ At(s, "write")
    /\ slot[s].op = "updateStatus"
    /\ ~ Locked(slot[s].task)
    /\ ~ Conflict(s)
    /\ row' = [row EXCEPT ![slot[s].task] = Saved(@, slot[s].ent, slot[s].seen)]
    /\ Owe(s, KeysOf(slot[s].task))
    /\ UNCHANGED <<life, caches, queue, requests>>

WriteConflicts(s) ==
    /\ At(s, "write")
    /\ ~ Locked(slot[s].task)
    /\ Conflict(s)
    /\ Throw(s)
    /\ UNCHANGED <<row, life, caches, queue, requests>>

\* taskQueue.add; its error is caught and logged.
Enqueue(s) ==
    /\ At(s, "enqueue")
    /\ \/ waiting' = Append(waiting, [task |-> slot[s].task,
                                      status |-> slot[s].ent.status, failures |-> 0])
       \/ Lost("queue") /\ UNCHANGED waiting
    /\ slot' = [slot EXCEPT ![s].pc = "commit", ![s].announce = FALSE]
    /\ UNCHANGED <<row, life, caches, delayed, requests>>

\* create touches no task:<id>: nobody has read the task yet.
Commit(s) ==
    /\ At(s, "commit")
    /\ row' = [row EXCEPT ![slot[s].task] = Saved(@, slot[s].ent, slot[s].seen)]
    /\ IF slot[s].op = "create"
       THEN /\ Owe(s, {<<"user", Owner[slot[s].task]>>})
            /\ life' = [life EXCEPT ![slot[s].task] = "born"]
       ELSE Owe(s, KeysOf(slot[s].task)) /\ UNCHANGED life
    /\ UNCHANGED <<caches, queue, requests>>

CommitFails(s) ==
    /\ At(s, "commit")
    /\ Lost("db")
    /\ Goto(s, "rollback")
    /\ UNCHANGED <<row, life, caches, queue, requests>>

\* Fault: the catch block tries to commit again, for ever.
Rollback_Recommits(s) ==
    /\ At(s, "rollback")
    /\ slot[s].op \notin BatchOps
    /\ Goto(s, "commit")
    /\ UNCHANGED <<row, life, caches, queue, requests>>

Rollback(s) ==
    /\ At(s, "rollback")
    /\ Throw(s)
    /\ UNCHANGED <<row, life, caches, queue, requests>>

\* remove: tasksRepository.remove deletes by id, found or not.
Remove(s) ==
    /\ At(s, "delete")
    /\ ~ Locked(slot[s].task)
    /\ row' = [row EXCEPT ![slot[s].task] = None]
    /\ Owe(s, KeysOf(slot[s].task))
    /\ UNCHANGED <<life, caches, queue, requests>>

(* batchUpdate and batchDelete: one statement, committed, no job.  An      *)
(* administrator's request has no user and no WHERE on user_id.            *)
Affected(ids, u) == {t \in ids : row[t] # None /\ (u = None \/ Owner[t] = u)}
\* Fault: nobody's lists and statistics are invalidated.
BatchOwes_ForgetsUser(ids, u) == {"task"} \X ids
BatchOwes(ids, u) == ({"task"} \X ids) \cup (IF u = None THEN {} ELSE {<<"user", u>>})

RunBatch(c, op, ids, u, after) ==
    /\ Receive(c, op, [Idle EXCEPT !.pc = "invalidate", !.op = op, !.owes = BatchOwes(ids, u)])
    /\ \A t \in Affected(ids, u) : ~ Locked(t)
    /\ row' = [t \in Tasks |-> IF t \in Affected(ids, u) THEN after[t] ELSE row[t]]
    /\ UNCHANGED <<life, caches, queue>>

BatchUpdate(c, ids, u, p) ==
    RunBatch(c, IF u = None THEN "adminBatchUpdate" ELSE "batchUpdate", ids, u,
             [t \in Affected(ids, u) |-> Merge(row[t], p)])

BatchDelete(c, ids, u) ==
    RunBatch(c, IF u = None THEN "adminBatchDelete" ELSE "batchDelete", ids, u,
             [t \in Tasks |-> None])

\* The statement or its commit fails, and the transaction is rolled back.
BatchFails(c, op) ==
    /\ Lost("db")
    /\ Receive(c, op, [Idle EXCEPT !.pc = "rollback", !.op = op])
    /\ UNCHANGED <<row, life, caches, queue>>

-----------------------------------------------------------------------------
(* The invalidation runs its deletes in parallel, and swallows their errors; *)
(* a batch deletes the tasks' keys before it calls invalidateCache.          *)

DeleteKey(k) ==
    \/ /\ k[1] = "task"
       /\ taskCache' = [taskCache EXCEPT ![k[2]] = None]
       /\ UNCHANGED <<listCache, statsCache>>
    \/ /\ k[1] = "user"                              \* invalidateCache
       /\ listCache' = [u \in Users |-> IF u \in ListKeysMatching(k[2])
                                        THEN None ELSE listCache[u]]
       /\ statsCache' = [statsCache EXCEPT ![k[2]] = None]
       /\ UNCHANGED taskCache

Invalidate(s, k) ==
    /\ At(s, "invalidate")
    /\ k \in slot[s].owes
    /\ slot[s].op \in BatchOps /\ k[1] = "user" => slot[s].owes = {k}
    /\ DeleteKey(k) \/ (Lost("redis") /\ UNCHANGED caches)
    /\ slot' = [slot EXCEPT ![s].owes = @ \ {k}]
    /\ UNCHANGED <<row, life, queue, requests>>

Finish(s) ==
    /\ At(s, "invalidate")
    /\ slot[s].owes = {}
    /\ slot' = [slot EXCEPT ![s] = Idle]
    /\ UNCHANGED <<row, life, caches, queue, requests>>

\* A client gets the error.
FailRequest(c) ==
    /\ At(c, "failed")
    /\ slot' = [slot EXCEPT ![c] = Idle]
    /\ UNCHANGED <<row, life, caches, queue, requests>>

\* Faults: a job is retried without limit, or its failures are not counted.
FailJob_NoLimit(w) ==
    /\ At(w, "failed")
    /\ slot' = [slot EXCEPT ![w] = Idle]
    /\ delayed' = Append(delayed, [slot[w].job EXCEPT !.failures = @ + 1])
    /\ UNCHANGED <<row, life, caches, waiting, requests>>

FailJob_Uncounted(w) ==
    /\ At(w, "failed")
    /\ slot' = [slot EXCEPT ![w] = Idle]
    /\ delayed' = Append(delayed, slot[w].job)
    /\ UNCHANGED <<row, life, caches, waiting, requests>>

\* process rethrows: the job waits for its backoff, unless it has run three times.
FailJob(w) ==
    /\ At(w, "failed")
    /\ slot' = [slot EXCEPT ![w] = Idle]
    /\ delayed' = IF slot[w].job.failures + 1 < MaxAttempts
                  THEN Append(delayed, [slot[w].job EXCEPT !.failures = @ + 1])
                  ELSE delayed
    /\ UNCHANGED <<row, life, caches, waiting, requests>>

\* Backoffs may end in any order.
BackoffEnds ==
    \E i \in DOMAIN delayed :
        /\ waiting' = Append(waiting, delayed[i])
        /\ delayed' = SubSeq(delayed, 1, i - 1) \o SubSeq(delayed, i + 1, Len(delayed))
        /\ UNCHANGED <<row, life, caches, slot, requests>>

-----------------------------------------------------------------------------
(* findAll and getStatistics: a lookup, queries, a fill. *)

Ask(c, op, u) ==
    /\ Receive(c, op, [Idle EXCEPT !.pc = op, !.op = op, !.user = u, !.ent = NoStats])
    /\ UNCHANGED <<row, life, caches, queue>>

EntryFor(s) == IF slot[s].op = "list" THEN listCache[slot[s].user]
                                      ELSE statsCache[slot[s].user]

AskCached(s) ==
    /\ slot[s].pc \in {"list", "stats"}
    /\ EntryFor(s) # None
    /\ slot' = [slot EXCEPT ![s] = Idle]
    /\ UNCHANGED <<row, life, caches, queue, requests>>

AskMisses(s) ==
    /\ slot[s].pc \in {"list", "stats"}
    /\ EntryFor(s) = None \/ Lost("redis")
    /\ Goto(s, IF slot[s].op = "list" THEN "listQuery" ELSE "statsQueries")
    /\ UNCHANGED <<row, life, caches, queue, requests>>

ListQuery(s) ==
    /\ At(s, "listQuery")
    /\ slot' = [slot EXCEPT ![s].pc = "listFill", ![s].ent = ListOf(slot[s].user)]
    /\ UNCHANGED <<row, life, caches, queue, requests>>

\* The queries run in parallel, each on a connection and a snapshot of its own.
StatsQuery(s, part) ==
    /\ At(s, "statsQueries")
    /\ slot[s].ent[part] = None
    /\ slot' = [slot EXCEPT ![s].ent = [@ EXCEPT ![part] = StatsOf(slot[s].user)[part]]]
    /\ UNCHANGED <<row, life, caches, queue, requests>>

Answer(s) == slot' = [slot EXCEPT ![s] = Idle]

ListFills(s) ==
    /\ At(s, "listFill")
    /\ \/ listCache' = [listCache EXCEPT ![slot[s].user] = slot[s].ent]
       \/ Lost("redis") /\ UNCHANGED listCache
    /\ Answer(s)
    /\ UNCHANGED <<row, life, taskCache, statsCache, queue, requests>>

StatsFills(s) ==
    /\ At(s, "statsQueries")
    /\ \A part \in {"byStatus", "byPriority"} : slot[s].ent[part] # None
    /\ \/ statsCache' = [statsCache EXCEPT ![slot[s].user] = slot[s].ent]
       \/ Lost("redis") /\ UNCHANGED statsCache
    /\ Answer(s)
    /\ UNCHANGED <<row, life, taskCache, listCache, queue, requests>>

\* An entry reaches its time to live; the moment is left open.
Expire(k) ==
    \/ k[1] = "task" /\ taskCache[k[2]] # None /\ DeleteKey(k)
       /\ UNCHANGED <<row, life, queue, slot, requests>>
    \/ /\ k[1] = "user"
       /\ \/ /\ listCache[k[2]] # None
             /\ listCache' = [listCache EXCEPT ![k[2]] = None]
             /\ UNCHANGED statsCache
          \/ /\ statsCache[k[2]] # None
             /\ statsCache' = [statsCache EXCEPT ![k[2]] = None]
             /\ UNCHANGED listCache
       /\ UNCHANGED <<row, life, taskCache, queue, slot, requests>>

-----------------------------------------------------------------------------
Request(c) ==
    \/ \E t \in Tasks, status \in Statuses, text \in Texts : Create(c, t, status, text)
    \/ \E op \in {"findOne", "remove"}, t \in Tasks : Open(c, op, t, None)
    \/ \E t \in Tasks, p \in Patch : Open(c, "update", t, p)
    \/ \E ids \in (SUBSET Tasks) \ {{}}, u \in Users \cup {None} :
          \/ \E p \in Patch : (\E f \in Fields : p[f] # None) /\ BatchUpdate(c, ids, u, p)
          \/ BatchDelete(c, ids, u)
    \/ \E op \in BatchOps : BatchFails(c, op)
    \/ \E op \in {"list", "stats"}, u \in Users : Ask(c, op, u)

Step(s) ==
    \/ FindCached(s) \/ FindMisses(s) \/ FindQuery(s) \/ FindNothing(s) \/ FindFills(s)
    \/ SaveSelects(s) \/ SaveWrites(s) \/ StatusWrites(s) \/ WriteConflicts(s)
    \/ Enqueue(s) \/ Commit(s) \/ CommitFails(s) \/ Rollback(s) \/ Remove(s)
    \/ \E k \in CacheKey : Invalidate(s, k)
    \/ Finish(s)
    \/ s \in Clients /\ FailRequest(s)
    \/ s \in Workers /\ FailJob(s)
    \/ AskCached(s) \/ AskMisses(s) \/ ListQuery(s) \/ ListFills(s) \/ StatsFills(s)
    \/ \E part \in {"byStatus", "byPriority"} : StatsQuery(s, part)

Next ==
    \/ \E c \in Clients : Request(c)
    \/ \E w \in Workers : TakeJob(w)
    \/ \E s \in Slots : Step(s)
    \/ BackoffEnds
    \/ \E k \in CacheKey : Expire(k)

Spec == Init /\ [][Next]_vars

\* Every await settles and Node.js resumes what waited for it; BullMQ hands
\* waiting jobs to idle workers and ends backoffs.
FairSpec ==
    /\ Spec
    /\ \A s \in Slots : WF_vars(Step(s))
    /\ \A w \in Workers : WF_vars(TakeJob(w))
    /\ WF_vars(BackoffEnds)

-----------------------------------------------------------------------------
(* Properties *)

ListType == [data : UNION {[T -> Row] : T \in SUBSET Tasks}]

SlotType ==
    [pc : {"idle", "lookup", "query", "fill", "select", "write", "enqueue", "commit",
           "rollback", "delete", "invalidate", "failed", "list", "listQuery",
           "listFill", "stats", "statsQueries"},
     op : Ops \cup {"updateStatus", None},
     task : Tasks \cup {None},
     user : Users \cup {None},
     patch : Patch \cup {None},
     ent : Row \cup {None} \cup ListType
           \cup [byStatus : [Statuses -> Nat] \cup {None}, byPriority : Nat \cup {None}],
     seen : Row \cup {None},
     announce : BOOLEAN,
     job : Job \cup {None},
     owes : SUBSET CacheKey]

\* Every variable stays in its type; a job never has three failures behind it.
TypeOK ==
    /\ row \in [Tasks -> Row \cup {None}]
    /\ life \in [Tasks -> {"never", "given", "born"}]
    /\ taskCache \in [Tasks -> Row \cup {None}]
    /\ listCache \in [Users -> {None} \cup ListType]
    /\ statsCache \in [Users -> {None} \cup [byStatus : [Statuses -> Nat], byPriority : Nat]]
    /\ waiting \in Seq(Job)
    /\ delayed \in Seq(Job)
    /\ slot \in [Slots -> SlotType]
    /\ requests \in 0 .. MaxRequests

Quiet == \A s \in Slots : At(s, "idle")

\* A cached list shows the tasks as they are once every request that changed
\* them is over ("Cache invalidation on updates").
CachedListIsCurrent ==
    Quiet => \A u \in Users : listCache[u] \in {None, ListOf(u)}

\* An update of a task that exists is not answered by an error.
UpdateOfExistingTaskSucceeds ==
    \A c \in Clients : At(c, "failed") /\ slot[c].op = "update" => row[slot[c].task] = None

\* A create that was rolled back leaves no task, though its job is in the queue
\* and the worker will look for it: no row, and no cached copy of one.
RolledBackCreateLeavesNothing ==
    \A t \in Tasks : life[t] # "born" => row[t] = None /\ taskCache[t] = None

\* A handler at one of these awaits has an entity in hand.
Held == {"fill", "select", "write", "enqueue", "commit"}
Copied == {t \in Tasks : \/ taskCache[t] # None
                         \/ \E s \in Slots : slot[s].task = t /\ slot[s].pc \in Held}

\* Whatever requests, jobs and transactions do: a task is born once, rows change
\* by writes that found them, and a deleted task comes back from a copy only.
Store == INSTANCE TaskStore WITH copied <- Copied
ImplementsTaskStore == Store!Spec

\* A task that was deleted, or whose create was rolled back, never comes back
\* once no handler and no key of the cache has kept a copy of it, whatever jobs
\* still speak of it.
GoneTasksStayGone == Store!GoneStaysGone

\* Every request is answered.
EveryRequestEnds ==
    \A c \in Clients : ~ At(c, "idle") ~> At(c, "idle")

\* When no more requests come, every job runs to its end or its third failure.
QueueDrains ==
    (requests = MaxRequests /\ \A c \in Clients : At(c, "idle"))
        ~> (waiting = <<>> /\ delayed = <<>> /\ \A w \in Workers : At(w, "idle"))
=============================================================================
