--------------------------- MODULE ConnectionPool ---------------------------
(***************************************************************************)
(* The pool of PostgreSQL connections that the handlers of TasksService    *)
(* share.  create, batchUpdate and batchDelete keep the connection of      *)
(* their query runner from connect to release.  update does so too, and    *)
(* takes a second one for the query of findOne.  Every other query takes   *)
(* one connection and gives it back when it ends; getStatistics runs three *)
(* at a time.  What a handler does with its connections is TasksService.   *)
(***************************************************************************)
EXTENDS Naturals, Sequences, FiniteSets

CONSTANTS Conns,        \* the connections of the pool (extra.max of them)
          Handlers,     \* the handlers that may run at once
          None,         \* no lease, no operation
          Lost          \* the lease of a query runner nobody refers to any more

ASSUME ConnsAssumption == IsFiniteSet(Conns)
ASSUME HandlersAssumption == IsFiniteSet(Handlers)

VARIABLES lent,         \* what each connection is lent for, None or Lost
          queue,        \* the requests for a connection, oldest first
          op,           \* what each handler runs
          pc            \* where it stands

vars == <<lent, queue, op, pc>>

\* A connection is asked for by a query runner, or for a single query.
Runner(h) == [by |-> h, use |-> "runner"]
Query(h) == [by |-> h, use |-> "query"]
Lease == [by : Handlers, use : {"runner", "query"}]

ASSUME NoneAssumption == None \notin Lease /\ Lost \notin Lease \cup {None}

\* "write" stands for create, batchUpdate and batchDelete, "read" for all that
\* queries without a query runner.
TransactionOps == {"write", "update"}
Op == TransactionOps \cup {"read", "statistics"}

Holds(h) == \E c \in Conns : lent[c] = Runner(h)
Queued(lease) == \E i \in DOMAIN queue : queue[i] = lease
Free == {c \in Conns : lent[c] = None}

Init ==
    /\ lent = [c \in Conns |-> None]
    /\ queue = <<>>
    /\ op = [h \in Handlers |-> None]
    /\ pc = [h \in Handlers |-> "idle"]

End(h) ==
    /\ op' = [op EXCEPT ![h] = None]
    /\ pc' = [pc EXCEPT ![h] = "idle"]

-----------------------------------------------------------------------------
(* The pool.  It serves the requests in their order, and gives up a request *)
(* that has waited for connectionTimeoutMillis: all wait equally long, so   *)
(* the oldest one times out first.                                          *)

Lend(c) ==
    /\ c \in Free
    /\ queue # <<>>
    /\ lent' = [lent EXCEPT ![c] = Head(queue)]
    /\ queue' = Tail(queue)
    /\ UNCHANGED <<op, pc>>

\* Faulty variants: findOne asks again when its request times out, or the
\* error of findOne ends update without its finally block.
TimeOut_AsksAgain ==
    /\ queue # <<>> /\ Free = {}
    /\ IF Head(queue).use = "runner"
       THEN End(Head(queue).by) /\ queue' = Tail(queue)
       ELSE queue' = Append(Tail(queue), Head(queue)) /\ UNCHANGED <<op, pc>>
    /\ UNCHANGED lent

TimeOut_SkipsFinally ==
    /\ queue # <<>> /\ Free = {}
    /\ queue' = Tail(queue)
    /\ LET h == Head(queue).by IN
          \/ pc[h] \in {"connect", "find"} /\ End(h)
          \/ pc[h] \in {"queries", "answered"} /\ pc' = [pc EXCEPT ![h] = "answered"] /\ UNCHANGED op
    /\ UNCHANGED lent

\* connect stands before the try block, findOne in it.  A query of getStatistics
\* that fails rejects its Promise.all: the request is answered with the error
\* while its other queries go on.
TimeOut ==
    /\ queue # <<>>
    /\ Free = {}
    /\ queue' = Tail(queue)
    /\ LET h == Head(queue).by IN
          \/ pc[h] = "connect" /\ End(h)
          \/ pc[h] = "find" /\ pc' = [pc EXCEPT ![h] = "rollback"] /\ UNCHANGED op
          \/ pc[h] \in {"queries", "answered"} /\ pc' = [pc EXCEPT ![h] = "answered"] /\ UNCHANGED op
    /\ UNCHANGED lent

-----------------------------------------------------------------------------
(* Handlers with a query runner. *)

Connect(h, o) ==
    /\ pc[h] = "idle"
    /\ o \in TransactionOps
    /\ op' = [op EXCEPT ![h] = o]
    /\ pc' = [pc EXCEPT ![h] = "connect"]
    /\ queue' = Append(queue, Runner(h))
    /\ UNCHANGED lent

\* Faulty variant: every transaction starts by looking for a task.
StartTransaction_LooksUp(h) ==
    /\ pc[h] = "connect"
    /\ Holds(h)
    /\ pc' = [pc EXCEPT ![h] = "lookup"]
    /\ UNCHANGED <<lent, queue, op>>

StartTransaction(h) ==
    /\ pc[h] = "connect"
    /\ Holds(h)
    /\ pc' = [pc EXCEPT ![h] = IF op[h] = "update" THEN "lookup" ELSE "work"]
    /\ UNCHANGED <<lent, queue, op>>

\* START TRANSACTION stands before the try block too: nobody releases the query
\* runner when it is rejected.  The driver takes back only a connection that broke.
StartTransactionFails(h, c) ==
    /\ pc[h] = "connect"
    /\ lent[c] = Runner(h)
    /\ \E left \in {None, Lost} : lent' = [lent EXCEPT ![c] = left]
    /\ End(h)
    /\ UNCHANGED queue

\* Faulty variant: what the cache gives ends the handler without a rollback.
CacheHit_Throws(h) ==
    /\ pc[h] = "lookup"
    /\ pc' = [pc EXCEPT ![h] = "thrown"]
    /\ UNCHANGED <<lent, queue, op>>

\* findOne in the cache: what it finds there, save refuses.
CacheHit(h) ==
    /\ pc[h] = "lookup"
    /\ pc' = [pc EXCEPT ![h] = "rollback"]
    /\ UNCHANGED <<lent, queue, op>>

CacheMiss(h) ==
    /\ pc[h] = "lookup"
    /\ pc' = [pc EXCEPT ![h] = "find"]
    /\ queue' = Append(queue, Query(h))
    /\ UNCHANGED <<lent, op>>

\* The query of findOne ends, with or without a task.
FindOne(h, c) ==
    /\ pc[h] = "find"
    /\ lent[c] = Query(h)
    /\ lent' = [lent EXCEPT ![c] = None]
    /\ \E next \in {"work", "rollback"} : pc' = [pc EXCEPT ![h] = next]
    /\ UNCHANGED <<queue, op>>

\* A statement or the commit fails.
Fail(h) ==
    /\ pc[h] = "work"
    /\ pc' = [pc EXCEPT ![h] = "rollback"]
    /\ UNCHANGED <<lent, queue, op>>

\* The finally block: after the commit and the calls of Redis that follow it,
\* or after the rollback.
Release(h, c) ==
    /\ pc[h] \in {"work", "rollback"}
    /\ lent[c] = Runner(h)
    /\ lent' = [lent EXCEPT ![c] = None]
    /\ End(h)
    /\ UNCHANGED queue

-----------------------------------------------------------------------------
(* Handlers without one. *)

Ask(h, o) ==
    /\ pc[h] = "idle"
    /\ \/ o = "read" /\ queue' = Append(queue, Query(h))
       \/ o = "statistics" /\ queue' = queue \o <<Query(h), Query(h), Query(h)>>
    /\ op' = [op EXCEPT ![h] = o]
    /\ pc' = [pc EXCEPT ![h] = "queries"]
    /\ UNCHANGED lent

\* A query ends, with its rows or with an error.
QueryEnds(h, c) ==
    /\ pc[h] \in {"queries", "answered"}
    /\ lent[c] = Query(h)
    /\ lent' = [lent EXCEPT ![c] = None]
    /\ \E next \in {pc[h], "answered"} : pc' = [pc EXCEPT ![h] = next]
    /\ UNCHANGED <<queue, op>>

\* The last query of the request has ended, before its answer or after it.
Answer(h) ==
    /\ pc[h] \in {"queries", "answered"}
    /\ ~ Queued(Query(h))
    /\ \A c \in Conns : lent[c] # Query(h)
    /\ End(h)
    /\ UNCHANGED <<lent, queue>>

-----------------------------------------------------------------------------
Step(h) ==
    \/ StartTransaction(h) \/ CacheHit(h) \/ CacheMiss(h) \/ Fail(h) \/ Answer(h)
    \/ \E c \in Conns : StartTransactionFails(h, c) \/ FindOne(h, c) \/ Release(h, c)
                             \/ QueryEnds(h, c)

Next ==
    \/ \E c \in Conns : Lend(c)
    \/ TimeOut
    \/ \E h \in Handlers : (\E o \in Op : Connect(h, o) \/ Ask(h, o)) \/ Step(h)

Spec == Init /\ [][Next]_vars

\* The pool serves what it can, its timers fire, PostgreSQL and Redis answer.
FairSpec ==
    /\ Spec
    /\ WF_vars(\E c \in Conns : Lend(c))
    /\ WF_vars(TimeOut)
    /\ \A h \in Handlers : WF_vars(Step(h))

-----------------------------------------------------------------------------
(* Properties *)

TypeOK ==
    /\ lent \in [Conns -> Lease \cup {None, Lost}]
    /\ queue \in Seq(Lease)
    /\ op \in [Handlers -> Op \cup {None}]
    /\ pc \in [Handlers -> {"idle", "connect", "lookup", "find", "work", "rollback",
                            "queries", "answered"}]

\* The handler of a lease stands where it will still use it, and give it back.
Wanted(lease) ==
    /\ lease.use = "runner" => pc[lease.by] \notin {"idle", "queries", "answered"}
    /\ lease.use = "query" => pc[lease.by] \in {"find", "queries", "answered"}

Gone == {c \in Conns : lent[c] = Lost}
Abandoned == Gone \cup {c \in Conns : lent[c] \in Lease /\ ~ Wanted(lent[c])}

\* Whatever fails or times out from the try block on, the connection comes back:
\* only a handler that has not started its transaction yet leaves one behind.
LeaksOnlyAtTheStart ==
    [][\A c \in Abandoned' \ Abandoned :
          \E h \in Handlers : lent[c] = Runner(h) /\ pc[h] = "connect"]_vars

\* Nobody will give a connection back: each is left behind, or the first one of
\* a handler that waits for its second.
Stuck == \A c \in Conns \ Gone : \E h \in Handlers :
             lent[c] = Runner(h) /\ pc[h] = "find" /\ Queued(Query(h))

Updating == {h \in Handlers : op[h] = "update"}

\* It takes as many updates at once as there are connections left to get stuck;
\* no number of other requests does it.
StuckOnlyByUpdates == Stuck => Cardinality(Updating) >= Cardinality(Conns \ Gone)

\* Every request is answered and its last query ends: the timeout of the pool
\* ends the state in which updates hold every connection and wait for another,
\* and the one in which no connection is left.
EveryRequestEnds == \A h \in Handlers : pc[h] # "idle" ~> pc[h] = "idle"

=============================================================================
