------------------------ MODULE ConnectionPoolProofs ------------------------
(***************************************************************************)
(* Proofs about ConnectionPool, for any number of connections and handlers. *)
(***************************************************************************)
EXTENDS ConnectionPool, FiniteSetTheorems, SequenceTheorems, TLAPS

\* A lease that its handler can have only once: a query runner's, and the
\* query of findOne.
Single(lease) == lease.use = "runner" \/ pc[lease.by] = "find"

LentInv ==
    /\ \A c \in Conns : lent[c] \in Lease => Wanted(lent[c])
    /\ \A c, d \in Conns : lent[c] \in Lease /\ lent[c] = lent[d] /\ Single(lent[c]) => c = d

QueueInv ==
    /\ \A i \in 1 .. Len(queue) : Wanted(queue[i])
    /\ \A i \in 1 .. Len(queue) : queue[i].use = "runner" => pc[queue[i].by] = "connect"
    /\ \A i, j \in 1 .. Len(queue) : queue[i] = queue[j] /\ Single(queue[i]) => i = j
    /\ \A i \in 1 .. Len(queue), c \in Conns : lent[c] = queue[i] => ~ Single(queue[i])

OpInv == \A h \in Handlers : pc[h] \in {"lookup", "find"} => op[h] = "update"

PoolInv == TypeOK /\ LentInv /\ QueueInv /\ OpInv

-----------------------------------------------------------------------------
(* Types *)

LEMMA Leases == \A h \in Handlers : /\ Runner(h) \in Lease /\ Runner(h).by = h /\ Runner(h).use = "runner"
                                    /\ Query(h) \in Lease /\ Query(h).by = h /\ Query(h).use = "query"
BY DEF Runner, Query, Lease

\* The pool lends to handlers, and every handler stands at one of its awaits.
THEOREM TypeCorrect == Spec => []TypeOK
<1>1. Init => TypeOK
  BY DEF Init, TypeOK
<1>2. TypeOK /\ [Next]_vars => TypeOK'
  <2> SUFFICES ASSUME TypeOK, [Next]_vars PROVE TypeOK'
    OBVIOUS
  <2>1. CASE \/ UNCHANGED vars
             \/ \E c \in Conns : Lend(c)
    <3>1. CASE UNCHANGED vars
      BY <3>1 DEF TypeOK, vars
    <3>2. ASSUME NEW c \in Conns, Lend(c) PROVE TypeOK'
      <4>1. Head(queue) \in Lease /\ Tail(queue) \in Seq(Lease)
        BY <3>2 DEF TypeOK, Lend
      <4> QED BY <3>2, <4>1 DEF TypeOK, Lend
    <3> QED BY <2>1, <3>1, <3>2
  <2>2. CASE TimeOut
    <3>1. Head(queue) \in Lease /\ Tail(queue) \in Seq(Lease)
      BY <2>2 DEF TypeOK, TimeOut
    <3>2. Head(queue).by \in Handlers
      BY <3>1 DEF Lease
    <3> QED BY <2>2, <3>1, <3>2 DEF TypeOK, TimeOut, End
  <2>3. ASSUME NEW h \in Handlers, NEW o \in Op, Connect(h, o) \/ Ask(h, o) PROVE TypeOK'
    <3>1. queue' \in Seq(Lease)
      <4>1. <<Query(h), Query(h), Query(h)>> \in Seq(Lease)
        BY Leases
      <4>2. queue' \in { Append(queue, Runner(h)), Append(queue, Query(h)),
                        queue \o <<Query(h), Query(h), Query(h)>> }
        BY <2>3 DEF Connect, Ask
      <4>3. queue \in Seq(Lease) /\ Runner(h) \in Lease /\ Query(h) \in Lease
        BY Leases DEF TypeOK
      <4>4. queue \o <<Query(h), Query(h), Query(h)>> \in Seq(Lease)
        BY <4>1, <4>3, ConcatProperties
      <4>5. Append(queue, Runner(h)) \in Seq(Lease) /\ Append(queue, Query(h)) \in Seq(Lease)
        BY <4>3
      <4> QED BY <4>2, <4>4, <4>5
    <3>2. op' = [op EXCEPT ![h] = o] /\ UNCHANGED lent
      BY <2>3 DEF Connect, Ask
    <3>3. pc' = [pc EXCEPT ![h] = "connect"] \/ pc' = [pc EXCEPT ![h] = "queries"]
      BY <2>3 DEF Connect, Ask
    <3> QED BY <3>1, <3>2, <3>3 DEF TypeOK
  <2>4. ASSUME NEW h \in Handlers, Step(h) PROVE TypeOK'
    <3>1. queue' \in Seq(Lease)
      BY <2>4, Leases DEF TypeOK, Step, StartTransaction, StartTransactionFails, CacheHit,
                           CacheMiss, Fail, Answer,
                           FindOne, Release, QueryEnds
    <3> QED BY <2>4, <3>1 DEF TypeOK, Step, StartTransaction, StartTransactionFails, CacheHit,
                           CacheMiss, Fail, Answer,
                              FindOne, Release, QueryEnds, End
  <2> QED BY <2>1, <2>2, <2>3, <2>4 DEF Next
<1> QED BY <1>1, <1>2, PTL DEF Spec

-----------------------------------------------------------------------------
(* Leases *)

LEMMA LeaseBy == \A lease \in Lease : lease.by \in Handlers /\ lease.use \in {"runner", "query"}
BY DEF Lease

\* A step in which handler h moves and leases only disappear, of the first
\* request of the queue (k = 1) or of connections.
LEMMA ShrinkKeeps ==
    ASSUME PoolInv, TypeOK', NEW h \in Handlers, NEW k \in {0, 1},
           \A c \in Conns : lent'[c] \in {lent[c], None, Lost},
           Len(queue') + k = Len(queue),
           \A i \in 1 .. Len(queue') : queue'[i] = queue[i + k],
           \A g \in Handlers \ {h} : pc'[g] = pc[g],
           pc'[h] = "find" => pc[h] = "find",
           \A c \in Conns : lent'[c] \in Lease /\ lent'[c].by = h => Wanted(lent[c])',
           \A i \in 1 .. Len(queue') : queue'[i].by = h
                => Wanted(queue[i])' /\ (queue'[i].use = "runner" => pc'[h] = "connect")
    PROVE  LentInv' /\ QueueInv'
<1>1. queue \in Seq(Lease) /\ queue' \in Seq(Lease)
  BY DEF PoolInv, TypeOK
<1>2. \A i \in 1 .. Len(queue') : i + k \in 1 .. Len(queue) /\ queue'[i] \in Lease /\ queue'[i].by \in Handlers
  <2>1. Len(queue) \in Nat /\ Len(queue') \in Nat
    BY <1>1
  <2>2. \A i \in 1 .. Len(queue') : i + k \in 1 .. Len(queue)
    BY <2>1
  <2>3. \A i \in 1 .. Len(queue') : queue'[i] \in Lease
    BY <1>1
  <2> QED BY <2>2, <2>3, LeaseBy
<1>3. \A lease \in Lease : Single(lease)' => Single(lease)
  BY DEF Single, Lease
<1>4. \A lease \in Lease : lease.by # h /\ Wanted(lease) => Wanted(lease)'
  BY DEF Wanted, Lease
<1>5. \A c \in Conns : lent'[c] \in Lease => lent'[c] = lent[c] /\ lent'[c] \in Lease
  BY NoneAssumption DEF PoolInv, TypeOK
<1>6. LentInv'
  BY <1>3, <1>4, <1>5 DEF LentInv, PoolInv, Single, Wanted
<1>7. ASSUME NEW i \in 1 .. Len(queue')
      PROVE  Wanted(queue[i])' /\ (queue'[i].use = "runner" => pc'[queue'[i].by] = "connect")
  <2>1. CASE queue'[i].by = h
    BY <2>1
  <2>2. CASE queue'[i].by # h
    <3>1. queue'[i] = queue[i + k] /\ i + k \in 1 .. Len(queue) /\ queue'[i].by \in Handlers \ {h}
      BY <1>2, <2>2
    <3>2. Wanted(queue[i + k]) /\ (queue[i + k].use = "runner" => pc[queue[i + k].by] = "connect")
      BY <3>1 DEF QueueInv, PoolInv
    <3> QED BY <3>1, <3>2 DEF Wanted
  <2> QED BY <2>1, <2>2
<1>8. \A i, j \in 1 .. Len(queue') : queue'[i] = queue'[j] /\ Single(queue[i])' => i = j
  BY <1>1, <1>2, <1>3 DEF QueueInv, PoolInv, Single
<1>9. ASSUME NEW i \in 1 .. Len(queue'), NEW c \in Conns, lent'[c] = queue'[i], Single(queue[i])'
      PROVE  FALSE
  <2>1. queue'[i] = queue[i + k] /\ i + k \in 1 .. Len(queue) /\ queue'[i] \in Lease
    BY <1>2
  <2>2. lent[c] = queue[i + k]
    BY <1>5, <1>9, <2>1, NoneAssumption
  <2>3. Single(queue[i + k])
    BY <1>3, <1>9, <2>1 DEF Single
  <2> QED BY <2>1, <2>2, <2>3 DEF QueueInv, PoolInv
<1> QED BY <1>6, <1>7, <1>8, <1>9 DEF QueueInv

\* A step in which handler h moves and asks for connections.
LEMMA GrowKeeps ==
    ASSUME PoolInv, TypeOK', NEW h \in Handlers, NEW k \in Nat, NEW new \in Lease,
           lent' = lent,
           Len(queue') = Len(queue) + k,
           \A i \in 1 .. Len(queue) : queue'[i] = queue[i],
           \A i \in 1 .. Len(queue') : i > Len(queue) => queue'[i] = new,
           \A g \in Handlers \ {h} : pc'[g] = pc[g],
           \A i \in 1 .. Len(queue) : queue[i].by # h,
           \A c \in Conns : lent[c] \in Lease /\ lent[c].by = h
                => Wanted(lent[c])' /\ lent[c].use = "runner",
           new.by = h, Wanted(new)', new.use = "runner" => pc'[h] = "connect",
           \A c \in Conns : lent[c] # new,
           k = 1 \/ ~ Single(new)'
    PROVE  LentInv' /\ QueueInv'
<1>1. queue \in Seq(Lease) /\ queue' \in Seq(Lease)
  BY DEF PoolInv, TypeOK
<1>2. \A i \in 1 .. Len(queue) : i \in 1 .. Len(queue') /\ queue[i] \in Lease /\ queue[i].by \in Handlers
  <2>1. Len(queue) \in Nat /\ Len(queue') \in Nat
    BY <1>1
  <2>2. \A i \in 1 .. Len(queue) : queue[i] \in Lease
    BY <1>1
  <2> QED BY <2>1, <2>2, LeaseBy
<1>3. \A lease \in Lease : lease.by # h => (Single(lease)' <=> Single(lease))
  BY DEF Single, Lease
<1>4. \A lease \in Lease : lease.by # h /\ Wanted(lease) => Wanted(lease)'
  BY DEF Wanted, Lease
<1>5. \A c \in Conns : lent[c] \in Lease => lent[c] \in Lease
  BY DEF PoolInv, TypeOK
<1>6. LentInv'
  <2>1. \A c \in Conns : lent[c] \in Lease => Wanted(lent[c])'
    BY <1>4, <1>5 DEF LentInv, PoolInv, Wanted
  <2>2. \A c, d \in Conns : lent[c] \in Lease /\ lent[c] = lent[d] /\ Single(lent[c])' => c = d
    BY <1>3, <1>5 DEF LentInv, PoolInv, Single
  <2> QED BY <2>1, <2>2 DEF LentInv
<1>7. ASSUME NEW i \in 1 .. Len(queue')
      PROVE  IF i \in 1 .. Len(queue) THEN queue'[i] = queue[i] /\ queue'[i].by # h ELSE queue'[i] = new
  BY <1>1
<1>8. \A i \in 1 .. Len(queue') : Wanted(queue[i])' /\ (queue'[i].use = "runner" => pc'[queue'[i].by] = "connect")
  BY <1>2, <1>4, <1>7 DEF QueueInv, PoolInv, Wanted
<1>9. ASSUME NEW i \in 1 .. Len(queue'), NEW j \in 1 .. Len(queue'), queue'[i] = queue'[j], Single(queue[i])'
      PROVE  i = j
  <2>1. CASE i \in 1 .. Len(queue)
    <3>1. j \in 1 .. Len(queue) /\ queue[i] = queue[j]
      BY <1>7, <1>9, <2>1
    <3>2. Single(queue[i])
      BY <1>2, <1>3, <1>7, <1>9, <2>1 DEF Single
    <3> QED BY <2>1, <3>1, <3>2 DEF QueueInv, PoolInv
  <2>2. CASE i \notin 1 .. Len(queue)
    <3>1. queue'[i] = new /\ j \notin 1 .. Len(queue)
      BY <1>7, <1>9, <2>2
    <3>2. k = 1
      BY <1>9, <3>1 DEF Single
    <3> QED BY <1>1, <2>2, <3>1, <3>2
  <2> QED BY <2>1, <2>2
<1>10. ASSUME NEW i \in 1 .. Len(queue'), NEW c \in Conns, lent'[c] = queue'[i]
       PROVE  ~ Single(queue[i])'
  <2>1. i \in 1 .. Len(queue) /\ queue'[i] = queue[i] /\ queue[i].by # h
    BY <1>7, <1>10
  <2>2. ~ Single(queue[i])
    BY <1>10, <2>1 DEF QueueInv, PoolInv
  <2> QED BY <1>2, <1>3, <2>1, <2>2 DEF Single
<1> QED BY <1>6, <1>8, <1>9, <1>10 DEF QueueInv

LEMMA PcMoves ==
    ASSUME PoolInv, NEW h \in Handlers, NEW to, pc' = [pc EXCEPT ![h] = to]
    PROVE  pc'[h] = to /\ \A g \in Handlers \ {h} : pc'[g] = pc[g]
BY DEF PoolInv, TypeOK

\* A handler whose queries run needs them until they end, answered or not.
LEMMA QueriesGoOn ==
    ASSUME NEW h \in Handlers, pc[h] \in {"queries", "answered"}, pc'[h] \in {"queries", "answered"},
           \A g \in Handlers : g # h => pc'[g] = pc[g]
    PROVE  \A lease \in Lease : Wanted(lease) => Wanted(lease)'
BY LeaseBy DEF Wanted

LEMMA LendKeeps ==
    ASSUME PoolInv, TypeOK', NEW c \in Conns, Lend(c) PROVE LentInv' /\ QueueInv'
<1>1. queue \in Seq(Lease) /\ queue # <<>> /\ pc' = pc
  BY DEF PoolInv, TypeOK, Lend
<1>2. /\ Len(queue') + 1 = Len(queue) /\ Len(queue') \in Nat
      /\ \A i \in 1 .. Len(queue') : queue'[i] = queue[i + 1] /\ i + 1 \in 1 .. Len(queue)
  BY <1>1 DEF Lend
<1>3. queue[1] = Head(queue) /\ 1 \in 1 .. Len(queue) /\ queue[1] \in Lease
  BY <1>1
<1>4. \A d \in Conns : lent'[d] = IF d = c THEN queue[1] ELSE lent[d]
  BY <1>3 DEF PoolInv, TypeOK, Lend
<1>5. \A l \in {lent'[d] : d \in Conns} \cup {queue[i] : i \in 1 .. Len(queue)} :
         (Wanted(l)' <=> Wanted(l)) /\ (Single(l)' <=> Single(l))
  BY <1>1 DEF Wanted, Single
<1>6. LentInv'
  <2>1. \A d \in Conns : lent'[d] \in Lease => Wanted(lent[d])'
    BY <1>1, <1>3, <1>4 DEF PoolInv, LentInv, QueueInv, Wanted
  <2>2. ASSUME NEW d \in Conns, NEW e \in Conns, lent'[d] \in Lease, lent'[d] = lent'[e], Single(lent[d])'
        PROVE  d = e
    <3>1. Single(lent'[d])
      BY <1>1, <2>2 DEF Single
    <3> QED BY <1>3, <1>4, <2>2, <3>1 DEF PoolInv, LentInv, QueueInv
  <2> QED BY <2>1, <2>2 DEF LentInv
<1>7. \A i \in 1 .. Len(queue') : Wanted(queue[i])' /\ (queue'[i].use = "runner" => pc'[queue'[i].by] = "connect")
  BY <1>1, <1>2 DEF PoolInv, QueueInv, Wanted
<1>8. ASSUME NEW i \in 1 .. Len(queue'), NEW j \in 1 .. Len(queue'), queue'[i] = queue'[j], Single(queue[i])'
      PROVE  i = j
  <2>1. i + 1 = j + 1
    BY <1>1, <1>2, <1>8 DEF PoolInv, QueueInv, Single
  <2> QED BY <2>1
<1>9. ASSUME NEW i \in 1 .. Len(queue'), NEW d \in Conns, lent'[d] = queue'[i], Single(queue[i])'
      PROVE  FALSE
  <2>1. Single(queue[i + 1]) /\ i + 1 \in 1 .. Len(queue) /\ i + 1 # 1 /\ lent'[d] = queue[i + 1]
    BY <1>1, <1>2, <1>9 DEF Single
  <2> QED BY <1>3, <1>4, <2>1 DEF PoolInv, QueueInv
<1> QED BY <1>6, <1>7, <1>8, <1>9 DEF QueueInv

LEMMA TimeOutKeeps ==
    ASSUME PoolInv, TypeOK', TimeOut PROVE LentInv' /\ QueueInv'
<1> DEFINE h == Head(queue).by
<1>1. queue \in Seq(Lease) /\ queue # <<>> /\ lent' = lent
  BY DEF PoolInv, TypeOK, TimeOut
<1>2. /\ Len(queue') + 1 = Len(queue) /\ Len(queue') \in Nat
      /\ \A i \in 1 .. Len(queue') : queue'[i] = queue[i + 1] /\ i + 1 \in 1 .. Len(queue) /\ i + 1 # 1
  BY <1>1 DEF TimeOut
<1>3. queue[1] = Head(queue) /\ 1 \in 1 .. Len(queue) /\ queue[1] \in Lease /\ h \in Handlers
  BY <1>1, LeaseBy
<1> HIDE DEF h
<1>4. \/ pc[h] = "connect" /\ pc' = [pc EXCEPT ![h] = "idle"]
      \/ pc[h] = "find" /\ pc' = [pc EXCEPT ![h] = "rollback"]
      \/ pc[h] \in {"queries", "answered"} /\ pc' = [pc EXCEPT ![h] = "answered"]
  BY DEF TimeOut, End, h
<1>5. \A g \in Handlers : g # h => pc'[g] = pc[g]
  BY <1>3, <1>4, PcMoves
<1>6. Wanted(queue[1]) /\ (queue[1].use = "runner" => pc[h] = "connect")
  BY <1>3 DEF PoolInv, QueueInv, h
<1>7. \A c \in Conns : lent[c] \in Lease => lent[c] \in Lease /\ Wanted(lent[c])
  BY DEF PoolInv, LentInv, TypeOK
<1>8. \A i \in 1 .. Len(queue) : queue[i] \in Lease /\ Wanted(queue[i])
  BY <1>1 DEF PoolInv, QueueInv
<1>9. CASE pc[h] \in {"queries", "answered"}
  <2>1. pc'[h] = "answered"
    BY <1>3, <1>4, <1>9, PcMoves
  <2>2. \A lease \in Lease : Wanted(lease) => Wanted(lease)'
    BY <1>3, <1>5, <1>9, <2>1, QueriesGoOn
  <2>3. \A c \in Conns : lent'[c] \in Lease => Wanted(lent[c])'
    BY <1>1, <1>7, <2>2 DEF Wanted
  <2>4. \A i \in 1 .. Len(queue') : Wanted(queue[i])'
    BY <1>2, <1>8, <2>2 DEF Wanted
  <2>5. ASSUME NEW i \in 1 .. Len(queue'), queue'[i].by = h PROVE queue'[i].use # "runner"
    <3>1. queue'[i] = queue[i + 1] /\ i + 1 \in 1 .. Len(queue)
      BY <1>2
    <3> QED BY <1>9, <2>5, <3>1 DEF PoolInv, QueueInv
  <2> QED BY <1>1, <1>2, <1>3, <1>5, <2>1, <2>3, <2>4, <2>5, ShrinkKeeps
<1>10. CASE pc[h] \in {"connect", "find"}
  <2>1. pc'[h] \in {"idle", "rollback"} /\ (pc[h] = "find" => pc'[h] = "rollback")
    BY <1>3, <1>4, <1>10, PcMoves
  <2>2. queue[1] = IF pc[h] = "connect" THEN Runner(h) ELSE Query(h)
    BY <1>3, <1>6, <1>10 DEF Wanted, Lease, Runner, Query, h
  <2>3. Single(queue[1])
    BY <1>10, <2>2 DEF Single, Runner, Query
  <2>4. \A i \in 1 .. Len(queue) : queue[i].by = h /\ i # 1 => FALSE
    <3> SUFFICES ASSUME NEW i \in 1 .. Len(queue), queue[i].by = h, i # 1 PROVE FALSE
      OBVIOUS
    <3>1. queue[i] # queue[1]
      BY <1>3, <2>3 DEF PoolInv, QueueInv
    <3>2. queue[i] = IF pc[h] = "connect" THEN Runner(h) ELSE Query(h)
      BY <1>8, <1>10 DEF PoolInv, QueueInv, Wanted, Lease, Runner, Query
    <3> QED BY <2>2, <3>1, <3>2
  <2>5. \A c \in Conns : lent[c] \in Lease /\ lent[c].by = h => pc[h] = "find" /\ lent[c].use = "runner"
    <3> SUFFICES ASSUME NEW c \in Conns, lent[c] \in Lease, lent[c].by = h
                 PROVE  pc[h] = "find" /\ lent[c].use = "runner"
      OBVIOUS
    <3>1. lent[c] # queue[1]
      BY <1>3, <2>3 DEF PoolInv, QueueInv
    <3>2. lent[c] \in {Runner(h), Query(h)} /\ (lent[c] = Query(h) => pc[h] = "find")
      BY <1>7, <1>10 DEF Wanted, Lease, Runner, Query
    <3> QED BY <1>10, <2>2, <3>1, <3>2 DEF Runner
  <2>6. \A c \in Conns : lent'[c] \in Lease /\ lent'[c].by = h => Wanted(lent[c])'
    BY <1>1, <2>1, <2>5 DEF Wanted
  <2>7. \A i \in 1 .. Len(queue') : queue'[i].by # h
    BY <1>2, <2>4
  <2> QED BY <1>1, <1>2, <1>3, <1>5, <2>1, <2>6, <2>7, ShrinkKeeps
<1> QED BY <1>4, <1>9, <1>10

LEMMA AskKeeps ==
    ASSUME PoolInv, TypeOK', NEW h \in Handlers,
           \/ \E o \in Op : Connect(h, o) \/ Ask(h, o)
           \/ CacheMiss(h)
    PROVE  LentInv' /\ QueueInv'
<1>1. queue \in Seq(Lease) /\ lent' = lent
  BY DEF PoolInv, TypeOK, Connect, Ask, CacheMiss
<1>2. \A i \in 1 .. Len(queue) : queue[i] \in Lease /\ Wanted(queue[i])
  BY <1>1 DEF PoolInv, QueueInv
<1>3. pc[h] \in {"idle", "lookup"}
  BY DEF Connect, Ask, CacheMiss
<1>4. \A i \in 1 .. Len(queue) : queue[i].by # h
  <2> SUFFICES ASSUME NEW i \in 1 .. Len(queue), queue[i].by = h PROVE FALSE
    OBVIOUS
  <2> QED BY <1>2, <1>3, LeaseBy DEF Wanted, PoolInv, QueueInv
<1>5. \A c \in Conns : lent[c] \in Lease => lent[c] \in Lease /\ Wanted(lent[c])
  BY DEF PoolInv, LentInv, TypeOK
<1>6. \A c \in Conns : lent[c] \in Lease /\ lent[c].by = h => pc[h] = "lookup" /\ lent[c].use = "runner"
  BY <1>3, <1>5, LeaseBy DEF Wanted
<1>7. /\ Runner(h) \in Lease /\ Runner(h).by = h /\ Runner(h).use = "runner" /\ Runner(h) # None
      /\ Query(h) \in Lease /\ Query(h).by = h /\ Query(h).use = "query" /\ Query(h) # None
  BY Leases, NoneAssumption
<1>8. CASE \E o \in Op : Connect(h, o)
  <2>1. queue' = Append(queue, Runner(h)) /\ pc' = [pc EXCEPT ![h] = "connect"] /\ pc[h] = "idle"
    BY <1>8 DEF Connect
  <2>2. pc'[h] = "connect" /\ \A g \in Handlers \ {h} : pc'[g] = pc[g]
    BY <2>1, PcMoves
  <2>3. \A c \in Conns : lent[c] # Runner(h) /\ (lent[c] \in Lease => lent[c].by # h)
    BY <1>6, <1>7, <2>1
  <2>4. Wanted(Runner(h))'
    BY <1>7, <2>2 DEF Wanted, Runner
  <2>5. /\ Len(queue') = Len(queue) + 1
        /\ \A i \in 1 .. Len(queue) : queue'[i] = queue[i]
        /\ \A i \in 1 .. Len(queue') : i > Len(queue) => queue'[i] = Runner(h)
    BY <1>1, <1>7, <2>1
  <2> QED BY <1>1, <1>4, <1>7, <2>2, <2>3, <2>4, <2>5, GrowKeeps
<1>9. CASE CacheMiss(h)
  <2>1. queue' = Append(queue, Query(h)) /\ pc' = [pc EXCEPT ![h] = "find"] /\ pc[h] = "lookup"
    BY <1>9 DEF CacheMiss
  <2>2. pc'[h] = "find" /\ \A g \in Handlers \ {h} : pc'[g] = pc[g]
    BY <2>1, PcMoves
  <2>3. \A c \in Conns : lent[c] # Query(h) /\ (lent[c] \in Lease /\ lent[c].by = h => Wanted(lent[c])')
    <3> SUFFICES ASSUME NEW c \in Conns, lent[c] \in Lease, lent[c].by = h
                 PROVE  lent[c] # Query(h) /\ Wanted(lent[c])'
      BY <1>7
    <3>1. lent[c].use = "runner"
      BY <1>6
    <3> QED BY <1>1, <1>7, <2>2, <3>1 DEF Wanted
  <2>4. Wanted(Query(h))'
    BY <1>7, <2>2 DEF Wanted, Query
  <2>5. /\ Len(queue') = Len(queue) + 1
        /\ \A i \in 1 .. Len(queue) : queue'[i] = queue[i]
        /\ \A i \in 1 .. Len(queue') : i > Len(queue) => queue'[i] = Query(h)
    BY <1>1, <1>7, <2>1
  <2>6. \A c \in Conns : lent[c] \in Lease /\ lent[c].by = h => Wanted(lent[c])' /\ lent[c].use = "runner"
    BY <1>6, <2>3
  <2> QED BY <1>1, <1>4, <1>7, <2>2, <2>3, <2>4, <2>5, <2>6, GrowKeeps
<1>10. CASE \E o \in Op : Ask(h, o)
  <2>1. pc' = [pc EXCEPT ![h] = "queries"] /\ pc[h] = "idle"
    BY <1>10 DEF Ask
  <2>2. pc'[h] = "queries" /\ \A g \in Handlers \ {h} : pc'[g] = pc[g]
    BY <2>1, PcMoves
  <2>3. \A c \in Conns : lent[c] # Query(h) /\ (lent[c] \in Lease => lent[c].by # h)
    BY <1>6, <1>7, <2>1
  <2>4. Wanted(Query(h))' /\ ~ Single(Query(h))'
    BY <1>7, <2>2 DEF Wanted, Single, Query
  <2>5. PICK k \in Nat :
           /\ Len(queue') = Len(queue) + k
           /\ \A i \in 1 .. Len(queue) : queue'[i] = queue[i]
           /\ \A i \in 1 .. Len(queue') : i > Len(queue) => queue'[i] = Query(h)
    <3>1. CASE queue' = Append(queue, Query(h))
      <4>1. /\ Len(queue') = Len(queue) + 1
            /\ \A i \in 1 .. Len(queue) : queue'[i] = queue[i]
            /\ \A i \in 1 .. Len(queue') : i > Len(queue) => queue'[i] = Query(h)
        BY <1>1, <1>7, <3>1
      <4> QED BY <4>1
    <3>2. CASE queue' = queue \o <<Query(h), Query(h), Query(h)>>
      <4> DEFINE three == <<Query(h), Query(h), Query(h)>>
      <4>1. three \in Seq(Lease) /\ Len(three) = 3 /\ \A i \in 1 .. 3 : three[i] = Query(h)
        BY <1>7
      <4> HIDE DEF three
      <4>2. /\ Len(queue') = Len(queue) + 3
            /\ \A i \in 1 .. Len(queue) + 3 :
                  queue'[i] = IF i <= Len(queue) THEN queue[i] ELSE three[i - Len(queue)]
        BY <1>1, <3>2, <4>1, ConcatProperties DEF three
      <4>3. Len(queue) \in Nat
        BY <1>1
      <4>4. \A i \in 1 .. Len(queue') : i > Len(queue) => i - Len(queue) \in 1 .. 3
        BY <4>2, <4>3
      <4>5. /\ \A i \in 1 .. Len(queue) : queue'[i] = queue[i]
            /\ \A i \in 1 .. Len(queue') : i > Len(queue) => queue'[i] = Query(h)
        BY <4>1, <4>2, <4>3, <4>4
      <4> QED BY <4>2, <4>5
    <3> QED BY <1>10, <3>1, <3>2 DEF Ask
  <2> QED BY <1>1, <1>4, <1>7, <2>2, <2>3, <2>4, <2>5, GrowKeeps
<1> QED BY <1>8, <1>9, <1>10

LEMMA StepKeeps ==
    ASSUME PoolInv, TypeOK', NEW h \in Handlers, Step(h), ~ CacheMiss(h)
    PROVE  LentInv' /\ QueueInv'
<1>1. /\ queue \in Seq(Lease) /\ queue' = queue /\ Len(queue) \in Nat
      /\ lent \in [Conns -> Lease \cup {None, Lost}]
  BY DEF PoolInv, TypeOK, Step, StartTransaction, StartTransactionFails, CacheHit, Fail, Answer, FindOne, Release, QueryEnds
<1>2. \A i \in 1 .. Len(queue) : queue[i] \in Lease /\ Wanted(queue[i])
  BY <1>1 DEF PoolInv, QueueInv
<1>3. \A c \in Conns : lent[c] \in Lease => lent[c] \in Lease /\ Wanted(lent[c])
  BY DEF PoolInv, LentInv, TypeOK
<1>4. \A lease \in Lease : lease.by = h => lease \in {Runner(h), Query(h)}
  BY DEF Lease, Runner, Query
<1>5. Runner(h).use = "runner" /\ Query(h).use = "query" /\ Runner(h).by = h /\ Query(h).by = h
      /\ Runner(h) # None /\ Query(h) # None
  BY Leases, NoneAssumption
<1>6. ASSUME \A c \in Conns : lent'[c] \in {lent[c], None, Lost},
             NEW to, to # "find", pc' = [pc EXCEPT ![h] = to],
             \A i \in 1 .. Len(queue) : queue[i].by # h,
             \A c \in Conns : lent'[c] \in Lease /\ lent'[c].by = h =>
                 lent'[c] = Runner(h) /\ to \notin {"idle", "queries", "answered"}
      PROVE  LentInv' /\ QueueInv'
  <2>1. pc'[h] = to /\ \A g \in Handlers \ {h} : pc'[g] = pc[g]
    BY <1>6, PcMoves
  <2>2. \A c \in Conns : lent'[c] \in Lease /\ lent'[c].by = h => Wanted(lent[c])'
    BY <1>5, <1>6, <2>1 DEF Wanted
  <2> QED BY <1>1, <1>6, <2>1, <2>2, ShrinkKeeps
<1>7. ASSUME pc[h] \notin {"connect", "find", "queries", "answered"}
      PROVE  \A i \in 1 .. Len(queue) : queue[i].by # h
  <2> SUFFICES ASSUME NEW i \in 1 .. Len(queue), queue[i].by = h PROVE FALSE
    OBVIOUS
  <2> QED BY <1>2, <1>7, LeaseBy DEF Wanted, PoolInv, QueueInv
<1>8. ASSUME pc[h] \notin {"find", "queries", "answered"}
      PROVE  \A c \in Conns : lent[c] \in Lease /\ lent[c].by = h => lent[c] = Runner(h)
  BY <1>3, <1>4, <1>5, <1>8 DEF Wanted
<1>9. ASSUME NEW c \in Conns, lent[c] = Runner(h), pc[h] = "connect"
      PROVE  \A i \in 1 .. Len(queue) : queue[i].by # h
  <2> SUFFICES ASSUME NEW i \in 1 .. Len(queue), queue[i].by = h PROVE FALSE
    OBVIOUS
  <2>1. queue[i] # Runner(h)
    BY <1>5, <1>9 DEF PoolInv, QueueInv, Single
  <2> QED BY <1>2, <1>4, <1>5, <1>9, <2>1 DEF Wanted
<1>a. CASE StartTransaction(h)
  <2>1. PICK c \in Conns : lent[c] = Runner(h)
    BY <1>a DEF StartTransaction, Holds
  <2>2. lent' = lent /\ pc[h] = "connect"
    BY <1>a DEF StartTransaction
  <2>3. PICK to \in {"lookup", "work"} : pc' = [pc EXCEPT ![h] = to]
    BY <1>a DEF StartTransaction
  <2>4. \A i \in 1 .. Len(queue) : queue[i].by # h
    BY <1>9, <2>1, <2>2
  <2> QED BY <1>6, <1>8, <2>2, <2>3, <2>4
<1>b. CASE \E c \in Conns : StartTransactionFails(h, c)
  <2>1. PICK c \in Conns : StartTransactionFails(h, c)
    BY <1>b
  <2>2. PICK left \in {None, Lost} : lent' = [lent EXCEPT ![c] = left]
    BY <2>1 DEF StartTransactionFails
  <2>3. pc[h] = "connect" /\ lent[c] = Runner(h) /\ pc' = [pc EXCEPT ![h] = "idle"]
    BY <2>1 DEF StartTransactionFails, End
  <2>4. \A d \in Conns : lent'[d] = IF d = c THEN left ELSE lent[d]
    BY <1>1, <2>2
  <2>5. \A d \in Conns : lent'[d] \in Lease => lent'[d].by # h
    BY <1>5, <1>8, <2>3, <2>4, NoneAssumption DEF PoolInv, LentInv, Single
  <2>6. \A i \in 1 .. Len(queue) : queue[i].by # h
    BY <1>9, <2>3
  <2> QED BY <1>6, <2>3, <2>4, <2>5, <2>6
<1>10. CASE CacheHit(h) \/ Fail(h)
  <2>1. PICK to \in {"rollback"} :
           lent' = lent /\ pc[h] \in {"lookup", "work"} /\ pc' = [pc EXCEPT ![h] = to]
    BY <1>10 DEF CacheHit, Fail
  <2>2. \A i \in 1 .. Len(queue) : queue[i].by # h
    BY <1>7, <2>1
  <2>3. \A c \in Conns : lent[c] \in Lease /\ lent[c].by = h => lent[c] = Runner(h)
    BY <1>8, <2>1
  <2> QED BY <1>6, <2>1, <2>2, <2>3
<1>11. CASE \E c \in Conns : FindOne(h, c)
  <2>1. PICK c \in Conns : FindOne(h, c)
    BY <1>11
  <2>2. PICK to \in {"work", "rollback"} : pc' = [pc EXCEPT ![h] = to]
    BY <2>1 DEF FindOne
  <2>3. pc[h] = "find" /\ lent[c] = Query(h) /\ lent' = [lent EXCEPT ![c] = None]
    BY <2>1 DEF FindOne
  <2>4. Single(Query(h))
    BY <1>5, <2>3 DEF Single
  <2>5. \A i \in 1 .. Len(queue) : queue[i].by # h
    <3> SUFFICES ASSUME NEW i \in 1 .. Len(queue), queue[i].by = h PROVE FALSE
      OBVIOUS
    <3>1. queue[i] # Query(h)
      BY <2>3, <2>4 DEF PoolInv, QueueInv
    <3> QED BY <1>2, <1>4, <1>5, <2>3, <3>1 DEF PoolInv, QueueInv
  <2>6. \A d \in Conns : lent'[d] = IF d = c THEN None ELSE lent[d]
    BY <1>1, <2>3
  <2>7. \A d \in Conns : lent'[d] \in Lease /\ lent'[d].by = h => lent'[d] = Runner(h)
    BY <1>3, <1>4, <1>5, <2>3, <2>4, <2>6 DEF PoolInv, LentInv
  <2> QED BY <1>6, <2>2, <2>5, <2>6, <2>7
<1>12. CASE \E c \in Conns : Release(h, c)
  <2>1. PICK c \in Conns : Release(h, c)
    BY <1>12
  <2>2. /\ pc[h] \in {"work", "rollback"} /\ lent[c] = Runner(h) /\ lent' = [lent EXCEPT ![c] = None]
        /\ pc' = [pc EXCEPT ![h] = "idle"]
    BY <2>1 DEF Release, End
  <2>3. \A d \in Conns : lent'[d] = IF d = c THEN None ELSE lent[d]
    BY <1>1, <2>2
  <2>4. \A d \in Conns : lent'[d] \in Lease => lent'[d].by # h
    BY <1>5, <1>8, <2>2, <2>3, NoneAssumption DEF PoolInv, LentInv, Single
  <2> QED BY <1>6, <1>7, <2>2, <2>3, <2>4
<1>13. CASE \E c \in Conns : QueryEnds(h, c)
  <2>1. PICK c \in Conns : QueryEnds(h, c)
    BY <1>13
  <2>2. pc[h] \in {"queries", "answered"} /\ lent' = [lent EXCEPT ![c] = None]
    BY <2>1 DEF QueryEnds
  <2>3. PICK to \in {"queries", "answered"} : pc' = [pc EXCEPT ![h] = to]
    BY <2>1, <2>2 DEF QueryEnds
  <2>4. pc'[h] = to /\ \A g \in Handlers \ {h} : pc'[g] = pc[g]
    BY <2>3, PcMoves
  <2>5. \A lease \in Lease : Wanted(lease) => Wanted(lease)'
    BY <2>2, <2>4, QueriesGoOn
  <2>6. \A d \in Conns : lent'[d] = IF d = c THEN None ELSE lent[d]
    BY <1>1, <2>2
  <2>7. \A d \in Conns : lent'[d] \in Lease => Wanted(lent[d])'
    BY <1>3, <2>5, <2>6, NoneAssumption DEF Wanted
  <2>8. \A i \in 1 .. Len(queue') : Wanted(queue[i])'
    BY <1>1, <1>2, <2>5 DEF Wanted
  <2>9. \A i \in 1 .. Len(queue') : queue'[i].by = h => queue'[i].use # "runner"
    BY <1>1, <2>2 DEF PoolInv, QueueInv
  <2> QED BY <1>1, <2>2, <2>4, <2>6, <2>7, <2>8, <2>9, ShrinkKeeps
<1>14. CASE Answer(h)
  <2>1. /\ pc[h] \in {"queries", "answered"} /\ ~ Queued(Query(h)) /\ \A c \in Conns : lent[c] # Query(h)
        /\ lent' = lent /\ pc' = [pc EXCEPT ![h] = "idle"]
    BY <1>14 DEF Answer, End
  <2>2. \A i \in 1 .. Len(queue) : queue[i].by # h
    <3> SUFFICES ASSUME NEW i \in 1 .. Len(queue), queue[i].by = h PROVE FALSE
      OBVIOUS
    <3>1. queue[i] # Query(h)
      BY <1>1, <2>1 DEF Queued
    <3> QED BY <1>2, <1>4, <1>5, <2>1, <3>1 DEF Wanted
  <2>3. \A c \in Conns : lent[c] \in Lease => lent[c].by # h
    BY <1>3, <1>4, <1>5, <2>1 DEF Wanted
  <2> QED BY <1>6, <2>1, <2>2, <2>3
<1> QED BY <1>a, <1>b, <1>10, <1>11, <1>12, <1>13, <1>14 DEF Step

LEMMA OpKept ==
    ASSUME PoolInv, TypeOK', [Next]_vars PROVE OpInv'
<1> SUFFICES ASSUME NEW h \in Handlers, pc'[h] \in {"lookup", "find"} PROVE op'[h] = "update"
  BY DEF OpInv
<1>1. OpInv /\ TypeOK
  BY DEF PoolInv
<1>2. ASSUME NEW g \in Handlers, End(g) PROVE op'[h] = "update"
  BY <1>1, <1>2 DEF End, OpInv, TypeOK
<1>3. CASE UNCHANGED vars \/ \E c \in Conns : Lend(c)
  BY <1>1, <1>3 DEF vars, Lend, OpInv
<1>4. CASE TimeOut
  <2>1. Head(queue).by \in Handlers
    BY <1>1, <1>4, LeaseBy DEF TimeOut, TypeOK
  <2> QED BY <1>1, <1>2, <1>4, <2>1 DEF TimeOut, OpInv, TypeOK
<1>5. ASSUME NEW g \in Handlers, NEW o \in Op, Connect(g, o) \/ Ask(g, o) PROVE op'[h] = "update"
  <2>1. op' = [op EXCEPT ![g] = o] /\ pc' \in {[pc EXCEPT ![g] = "connect"], [pc EXCEPT ![g] = "queries"]}
    BY <1>5 DEF Connect, Ask
  <2> QED BY <1>1, <2>1 DEF OpInv, TypeOK
<1>6. ASSUME NEW g \in Handlers, Step(g) PROVE op'[h] = "update"
  <2>1. CASE StartTransaction(g)
    BY <1>1, <2>1 DEF StartTransaction, OpInv, TypeOK
  <2>2. CASE CacheHit(g) \/ CacheMiss(g) \/ Fail(g)
    BY <1>1, <2>2 DEF CacheHit, CacheMiss, Fail, OpInv, TypeOK
  <2>3. CASE Answer(g) \/ \E c \in Conns : StartTransactionFails(g, c) \/ Release(g, c)
    BY <1>2, <2>3 DEF Answer, StartTransactionFails, Release
  <2>4. CASE \E c \in Conns : FindOne(g, c) \/ QueryEnds(g, c)
    BY <1>1, <2>4 DEF FindOne, QueryEnds, OpInv, TypeOK
  <2> QED BY <1>6, <2>1, <2>2, <2>3, <2>4 DEF Step
<1> QED BY <1>3, <1>4, <1>5, <1>6 DEF Next

LEMMA PoolInvHolds == Spec => []PoolInv
<1>1. Init => PoolInv
  <2> SUFFICES ASSUME Init PROVE PoolInv
    OBVIOUS
  <2>1. TypeOK
    BY DEF Init, TypeOK
  <2>2. LentInv /\ QueueInv /\ OpInv
    BY NoneAssumption DEF Init, LentInv, QueueInv, OpInv
  <2> QED BY <2>1, <2>2 DEF PoolInv
<1>2. PoolInv /\ TypeOK' /\ [Next]_vars => PoolInv'
  <2> SUFFICES ASSUME PoolInv, TypeOK', [Next]_vars PROVE LentInv' /\ QueueInv'
    BY OpKept DEF PoolInv
  <2>1. CASE UNCHANGED vars
    BY <2>1 DEF vars, PoolInv, LentInv, QueueInv, Single, Wanted
  <2> QED BY <2>1, LendKeeps, TimeOutKeeps, AskKeeps, StepKeeps DEF Next
<1> QED BY <1>1, <1>2, TypeCorrect, PTL DEF Spec

-----------------------------------------------------------------------------
(* Theorems *)

\* From the try block of a transaction on no connection is left behind, whatever
\* fails or times out: only a handler that has not started its transaction yet
\* leaves one.
THEOREM LeakTheorem == Spec => LeaksOnlyAtTheStart
<1>1. (PoolInv => Abandoned = Gone) /\ (PoolInv' => Abandoned' = Gone')
  BY DEF PoolInv, LentInv, Abandoned
<1>2. ASSUME PoolInv, PoolInv', [Next]_vars, NEW c \in Abandoned' \ Abandoned
      PROVE  \E h \in Handlers : lent[c] = Runner(h) /\ pc[h] = "connect"
  <2>1. c \in Conns /\ lent'[c] = Lost /\ lent[c] # Lost
    BY <1>1, <1>2 DEF Gone
  <2>2. TypeOK
    BY <1>2 DEF PoolInv
  <2>3. CASE \E h \in Handlers : \E d \in Conns : StartTransactionFails(h, d)
    <3>1. PICK h \in Handlers, d \in Conns : StartTransactionFails(h, d)
      BY <2>3
    <3>2. d = c
      BY <2>1, <2>2, <3>1 DEF StartTransactionFails, TypeOK
    <3> QED BY <3>1, <3>2 DEF StartTransactionFails
  <2>4. CASE \E d \in Conns : Lend(d)
    <3>1. PICK d \in Conns : Lend(d)
      BY <2>4
    <3>2. Head(queue) \in Lease
      BY <2>2, <3>1 DEF Lend, TypeOK
    <3> QED BY <2>1, <2>2, <3>1, <3>2, NoneAssumption DEF Lend, TypeOK
  <2>5. CASE lent' = lent \/ \E d \in Conns : lent' = [lent EXCEPT ![d] = None]
    BY <2>1, <2>2, <2>5, NoneAssumption DEF TypeOK
  <2> QED BY <1>2, <2>3, <2>4, <2>5
          DEF Next, Step, vars, TimeOut, Connect, Ask, StartTransaction, CacheHit, CacheMiss, Fail,
              Answer, FindOne, Release, QueryEnds
<1>3. PoolInv /\ PoolInv' /\ [Next]_vars
         => [\A c \in Abandoned' \ Abandoned :
                \E h \in Handlers : lent[c] = Runner(h) /\ pc[h] = "connect"]_vars
  BY <1>2
<1> QED BY <1>3, PoolInvHolds, PTL DEF Spec, LeaksOnlyAtTheStart

\* The pool can only be stuck when at least as many updates run as it has
\* connections left: each of these is the query runner's of another update.
THEOREM StuckTheorem == Spec => []StuckOnlyByUpdates
<1>1. PoolInv => StuckOnlyByUpdates
  <2> DEFINE Left == Conns \ Gone
  <2> SUFFICES ASSUME PoolInv, Stuck PROVE Cardinality(Updating) >= Cardinality(Left)
    BY DEF StuckOnlyByUpdates
  <2> DEFINE f == [c \in Left |-> lent[c].by]
  <2>1. ASSUME NEW c \in Left PROVE f[c] \in Updating /\ lent[c] = Runner(f[c])
    <3>1. PICK h \in Handlers : lent[c] = Runner(h) /\ pc[h] = "find"
      BY DEF Stuck
    <3>2. f[c] = h
      BY <3>1, Leases
    <3> QED BY <3>1, <3>2 DEF PoolInv, OpInv, Updating
  <2>2. ASSUME NEW c \in Left, NEW d \in Left, f[c] = f[d] PROVE c = d
    <3>1. lent[c] = lent[d] /\ lent[c] = Runner(f[c]) /\ f[c] \in Handlers
      BY <2>1, <2>2 DEF Updating
    <3>2. lent[c] \in Lease /\ Single(lent[c])
      BY <3>1, Leases DEF Single
    <3> QED BY <3>1, <3>2 DEF PoolInv, LentInv
  <2>3. IsFiniteSet(Updating) /\ IsFiniteSet(Left)
    BY HandlersAssumption, ConnsAssumption, FS_Subset DEF Updating
  <2> HIDE DEF f, Left
  <2>4. f \in Injection(Left, Updating)
    BY <2>1, <2>2 DEF f, Injection, IsInjective
  <2>5. Cardinality(Left) <= Cardinality(Updating)
    BY <2>3, <2>4, FS_Injection
  <2>6. Cardinality(Left) \in Nat /\ Cardinality(Updating) \in Nat
    BY <2>3, FS_CardinalityType
  <2> QED BY <2>5, <2>6
<1> QED BY <1>1, PoolInvHolds, PTL
=============================================================================
